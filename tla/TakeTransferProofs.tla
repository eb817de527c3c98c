------------------------- MODULE TakeTransferProofs -------------------------
(***************************************************************************)
(* The transfer of local originals, for any number of segments, any sizes  *)
(* of segments and requests and any number of failures: what the host has  *)
(* is always how the source begins, and the transfer implements            *)
(* SegmentDelivery.                                                        *)
(***************************************************************************)
EXTENDS TakeTransfer, SequenceTheorems, TLAPS

Prefix(n)  == SubSeq(Source, 1, n)
Cut(m, n)  == SubSeq(Source, m + 1, n)
-----------------------------------------------------------------------------
(* Bytes of the source.                                                    *)

LEMMA Sizes == Size \in Nat \ {0} /\ Chunk \in Nat \ {0} /\ Count \in Nat /\ MaxFaults \in Nat
  BY TransferAssumption DEF TransferAssumption

\* The next piece is not empty and does not go beyond the end.
LEMMA AfterBounds ==
  ASSUME NEW m \in Nat, m <= Size
  PROVE  /\ After(m) \in Nat /\ m <= After(m) /\ After(m) <= Size
         /\ m < Size => After(m) > m
         /\ m + Least(Chunk, Size - m) = After(m)
  BY Sizes DEF After, Least

LEMMA SourceSeq == Source \in Bytes /\ Len(Source) = Size /\ \A i \in 1..Size : Source[i] = i
  BY Sizes DEF Source, Bytes

LEMMA CutSeq ==
  ASSUME NEW m \in Nat, NEW n \in Nat, m <= n, n <= Size
  PROVE  Cut(m, n) \in Bytes /\ Len(Cut(m, n)) = n - m
<1>1. m + 1 \in Int /\ n \in Int /\ \A i \in m + 1..n : Source[i] \in 1..Size
  BY Sizes, SourceSeq
<1> QED
  BY <1>1, Sizes, SubSeqProperties, m + 1 <= n \/ n - m = 0 DEF Cut, Bytes

LEMMA PrefixSeq ==
  ASSUME NEW n \in Nat, n <= Size
  PROVE  /\ Prefix(n) \in Bytes /\ Len(Prefix(n)) = n
         /\ Prefix(n) = <<>> <=> n = 0
<1>1. Prefix(n) = Cut(0, n)
  BY DEF Prefix, Cut
<1>2. Prefix(n) \in Bytes /\ Len(Prefix(n)) = n
  BY <1>1, CutSeq, Sizes
<1> QED
  BY <1>2, EmptySeq, Sizes DEF Bytes

LEMMA PrefixWhole == Prefix(Size) = Source /\ Source # <<>>
  BY SourceSeq, Sizes, SubSeqFull, EmptySeq DEF Prefix, Bytes

LEMMA PrefixGrows ==
  ASSUME NEW m \in Nat, NEW n \in Nat, m <= n, n <= Size
  PROVE  Prefix(m) \o Cut(m, n) = Prefix(n)
  BY Sizes, SourceSeq, ConcatAdjacentSubSeq DEF Prefix, Cut, Bytes

\* The beginning of a piece.
LEMMA CutBegins ==
  ASSUME NEW m \in Nat, NEW n \in Nat, NEW k \in Nat, m + k <= n, n <= Size
  PROVE  SubSeq(Cut(m, n), 1, k) = Cut(m, m + k)
<1>1. CASE k = 0
  BY <1>1, Sizes, SubSeqEmpty DEF Cut
<1>2. CASE k # 0
  <2>1. /\ m + 1 \in 1..Len(Source) /\ n \in 1..Len(Source)
        /\ 1 \in 1..n - (m + 1) + 1 /\ k \in 1..n - (m + 1) + 1
    BY <1>2, Sizes, SourceSeq
  <2>2. SubSeq(Cut(m, n), 1, k) = SubSeq(Source, m + 1 + 1 - 1, m + 1 + k - 1)
    BY <2>1, SourceSeq, SubSeqOfSubSeq DEF Cut, Bytes
  <2> QED
    BY <2>2, Sizes DEF Cut
<1> QED
  BY <1>1, <1>2
-----------------------------------------------------------------------------
(* The host.                                                               *)

HaveOf(o) == IF o.final = <<>> THEN Len(o.part) ELSE Size

LEMMA InitInv == Init => IInv
<1> SUFFICES ASSUME Init PROVE IInv
  OBVIOUS
<1>1. <<>> \in Bytes /\ Len(<<>>) = 0
  BY EmptySeq DEF Bytes
<1>2. Begins(<<>>)
  BY Sizes, SubSeqEmpty DEF Begins
<1>3. TypeOK
  BY <1>1, Sizes
  DEF Init, TypeOK, Statuses, Settled, Clients, Requests, Replies, Idle, NoRequest, NoReply, Segments
<1> QED
  BY <1>2, <1>3
  DEF Init, IInv, PartsBegin, Whole, SentPieces, IsPiece, Awaited, Answered, Numbered, QueueTrue,
      Idle, NoRequest

\* What the files of a segment are, by how much the host has of it.
LEMMA Stored ==
  ASSUME IInv, NEW s \in Segments
  PROVE  /\ Have(s) \in Nat /\ Have(s) <= Size
         /\ final[s] = <<>> => part[s] = Prefix(Have(s)) /\ Status(s) = Receipt(Have(s), FALSE)
         /\ final[s] # <<>> => /\ final[s] = Source /\ part[s] = <<>> /\ Have(s) = Size
                               /\ Status(s) = Receipt(Size, TRUE)
<1>1. part[s] \in Bytes /\ Len(part[s]) \in Nat /\ Len(part[s]) <= Size
  <2>1. part[s] \in Bytes /\ Len(part[s]) <= Size
    BY DEF IInv, TypeOK
  <2> QED
    BY <2>1, LenProperties DEF Bytes
<1>2. /\ part[s] = Prefix(Len(part[s])) /\ final[s] \in {<<>>, Source}
      /\ final[s] # <<>> => s \in described /\ part[s] = <<>>
  BY DEF IInv, PartsBegin, Begins, Whole, Prefix
<1>3. CASE final[s] = <<>>
  BY <1>1, <1>2, <1>3 DEF Have, Status
<1>4. CASE final[s] # <<>>
  <2>1. final[s] = Source /\ s \in described
    BY <1>2, <1>4
  <2>2. Status(s) = Receipt(Size, TRUE)
    BY <1>4, <2>1, SourceSeq DEF Status, Receipt
  <2>3. Have(s) = Size
    BY <1>4 DEF Have
  <2>4. Have(s) \in Nat /\ Have(s) <= Size
    BY <2>3, Sizes
  <2> QED
    BY <1>2, <1>4, <2>1, <2>2, <2>3, <2>4, Zenon
<1> QED
  BY <1>3, <1>4

\* A piece, wherever the host is.
LEMMA PieceShape ==
  ASSUME NEW q \in Requests, q.kind = "put", IsPiece(q)
  PROVE  /\ q.offset \in Nat /\ q.offset < Size
         /\ q.offset < After(q.offset) /\ q.offset <= After(q.offset)
         /\ After(q.offset) \in Nat /\ After(q.offset) <= Size
         /\ q.data = Cut(q.offset, After(q.offset))
         /\ Len(q.data) = After(q.offset) - q.offset
<1>1. q.offset \in Nat /\ q.offset < Size /\ q.data = Cut(q.offset, After(q.offset))
  BY Sizes DEF Requests, IsPiece, Piece, Cut
<1>2. /\ After(q.offset) \in Nat /\ q.offset < After(q.offset) /\ After(q.offset) <= Size
  BY <1>1, AfterBounds, Sizes
<1>3. q.offset <= After(q.offset)
  BY <1>1, <1>2
<1>4. Len(Cut(q.offset, After(q.offset))) = After(q.offset) - q.offset
  BY <1>1, <1>2, <1>3, CutSeq, Zenon
<1> QED
  BY <1>1, <1>2, <1>3, <1>4

\* A piece that is appended goes exactly where the host is.
LEMMA AppendsPiece ==
  ASSUME IInv, NEW q \in Requests, q.kind = "put", q.seg \in Segments, IsPiece(q), Appends(q)
  PROVE  /\ final[q.seg] = <<>> /\ part[q.seg] = Prefix(q.offset) /\ Have(q.seg) = q.offset
         /\ Grown(q) = Prefix(After(q.offset)) /\ Len(Grown(q)) = After(q.offset)
<1>1. final[q.seg] = <<>> /\ Have(q.seg) = q.offset
  BY Stored DEF Appends, Receipt
<1>2. part[q.seg] = Prefix(q.offset)
  BY <1>1, Stored
<1>3. Prefix(q.offset) \o Cut(q.offset, After(q.offset)) = Prefix(After(q.offset))
  BY PieceShape, PrefixGrows, Zenon
<1>4. Grown(q) = Prefix(After(q.offset))
  BY <1>2, <1>3, PieceShape DEF Grown
<1> QED
  BY <1>1, <1>2, <1>4, PieceShape, PrefixSeq

\* What serving a request may leave: nothing new, more of the source, or all
\* of it published.
Kept(q, o) == o.part = part[q.seg] /\ o.final = final[q.seg]

Grew(q, o, n) ==
  /\ q.kind = "put" /\ Appends(q)
  /\ n \in Nat /\ q.offset <= n /\ n <= After(q.offset)
  /\ o.part = Prefix(n) /\ o.final = <<>>

Published(q, o) ==
  /\ q.kind = "put" /\ Appends(q) /\ After(q.offset) = Size
  /\ o.part = <<>> /\ o.final = Source

\* What an answer says of the files that it leaves.
Truthful(q, o) ==
  /\ o.reply \in Replies
  /\ o.reply.is = "complete" => o.final = Source
  /\ o.reply.is = "partial" =>
       /\ o.reply.received = HaveOf(o)
       /\ q.kind = "put" => After(q.offset) <= HaveOf(o)

LEMMA UntouchedEffect ==
  ASSUME IInv, NEW q \in Requests, q.seg \in Segments,
         NEW reply \in {Status(q.seg), NoReply},
         q.kind = "put" /\ reply.is = "partial" => After(q.offset) <= Have(q.seg)
  PROVE  /\ Kept(q, Untouched(q.seg, reply)) /\ Truthful(q, Untouched(q.seg, reply))
<1> DEFINE o == Untouched(q.seg, reply)
<1>1. o.part = part[q.seg] /\ o.final = final[q.seg] /\ o.reply = reply
  BY DEF Untouched
<1>2. HaveOf(o) = Have(q.seg)
  BY <1>1 DEF HaveOf, Have
<1>3. reply \in Replies
  BY Stored, Sizes DEF Receipt, Replies, NoReply
<1>4. /\ reply.is = "complete" => final[q.seg] = Source
      /\ reply.is = "partial" => reply.received = Have(q.seg)
  BY Stored DEF Receipt, NoReply
<1> QED
  BY <1>1, <1>2, <1>3, <1>4 DEF Kept, Truthful

LEMMA PutEffect ==
  ASSUME IInv, NEW q \in Requests, q.kind = "put", q.seg \in Segments, IsPiece(q)
  PROVE  /\ Kept(q, Put(q)) \/ Grew(q, Put(q), After(q.offset)) \/ Published(q, Put(q))
         /\ Truthful(q, Put(q))
<1>1. CASE ~Appends(q)
  <2> DEFINE reply == IF Status(q.seg).is = "complete" \/ Replayed(q, Status(q.seg).received)
                      THEN Status(q.seg) ELSE NoReply
  <2>1. Put(q) = Untouched(q.seg, reply) /\ reply \in {Status(q.seg), NoReply}
    BY <1>1 DEF Put
  <2>2. ASSUME reply.is = "partial" PROVE After(q.offset) <= Have(q.seg)
    <3>1. reply = Status(q.seg) /\ Replayed(q, Status(q.seg).received)
      BY <2>2 DEF NoReply
    <3>2. Status(q.seg).received = Have(q.seg)
      BY <2>2, <3>1, Stored DEF Receipt
    <3> QED
      BY <3>1, <3>2, PieceShape, Stored DEF Replayed
  <2> HIDE DEF reply
  <2> QED
    BY <2>1, <2>2, UntouchedEffect
<1>2. CASE Appends(q)
  <2> DEFINE n == After(q.offset)
  <2>1. /\ final[q.seg] = <<>> /\ Grown(q) = Prefix(n) /\ Len(Grown(q)) = n
        /\ n \in Nat /\ n <= Size /\ q.offset < n /\ q.offset \in Nat
    BY <1>2, AppendsPiece, PieceShape
  <2>2. CASE n < Size
    <3>1. Put(q) = [part |-> Prefix(n), final |-> <<>>, reply |-> Receipt(n, FALSE)]
      BY <1>2, <2>1, <2>2 DEF Put, Added
    <3>2. HaveOf(Put(q)) = n
      BY <2>1, <3>1, PrefixSeq DEF HaveOf
    <3>3. Grew(q, Put(q), n)
      BY <1>2, <2>1, <3>1 DEF Grew
    <3>4. Receipt(n, FALSE) \in Replies
      BY <2>1, Sizes DEF Receipt, Replies
    <3>5. Truthful(q, Put(q))
      BY <2>1, <3>1, <3>2, <3>4 DEF Truthful, Receipt
    <3> QED
      BY <3>3, <3>5
  <2>3. CASE n >= Size
    <3>1. n = Size /\ Grown(q) = Source
      BY <2>1, <2>3, PrefixWhole, Sizes
    <3>2. Put(q) = [part |-> <<>>, final |-> Source, reply |-> Receipt(Size, TRUE)]
      BY <1>2, <2>1, <3>1 DEF Put, Added
    <3>3. Receipt(Size, TRUE) \in Replies
      BY Sizes DEF Receipt, Replies
    <3>4. Truthful(q, Put(q))
      BY <3>2, <3>3 DEF Truthful, Receipt
    <3>5. Published(q, Put(q))
      BY <1>2, <3>1, <3>2 DEF Published
    <3> QED
      BY <3>4, <3>5
  <2> QED
    BY <2>1, <2>2, <2>3, Sizes
<1> QED
  BY <1>1, <1>2

LEMMA OutcomeEffect ==
  ASSUME IInv, NEW q \in Requests, q.kind # "none", q.seg \in Segments, IsPiece(q)
  PROVE  /\ \/ Kept(q, Outcome(q)) \/ Grew(q, Outcome(q), After(q.offset))
            \/ Published(q, Outcome(q))
         /\ Truthful(q, Outcome(q))
<1>1. CASE q.kind = "status"
  BY <1>1, UntouchedEffect DEF Outcome
<1>2. CASE q.kind = "put"
  <2>1. Outcome(q) = Put(q)
    BY <1>2 DEF Outcome
  <2> QED
    BY <1>2, <2>1, PutEffect
<1> QED
  BY <1>1, <1>2 DEF Requests

LEMMA TornEffect ==
  ASSUME IInv, NEW q \in Requests, q.kind = "put", q.seg \in Segments, IsPiece(q), Appends(q),
         NEW o \in Torn(q)
  PROVE  /\ o.reply = NoReply
         /\ (\E n \in Nat : Grew(q, o, n)) \/ Published(q, o)
<1>1. /\ q.offset \in Nat /\ After(q.offset) \in Nat
      /\ q.offset < After(q.offset) /\ After(q.offset) <= Size
      /\ final[q.seg] = <<>> /\ part[q.seg] = Prefix(q.offset)
      /\ q.data = Cut(q.offset, After(q.offset)) /\ Len(q.data) = After(q.offset) - q.offset
      /\ Grown(q) = Prefix(After(q.offset)) /\ Len(Grown(q)) = After(q.offset)
  BY AppendsPiece, PieceShape
<1>2. ASSUME NEW k \in 0..Len(q.data),
             o = [part |-> part[q.seg] \o SubSeq(q.data, 1, k), final |-> final[q.seg], reply |-> NoReply]
      PROVE  Grew(q, o, q.offset + k) /\ o.reply = NoReply
  <2>1. k \in Nat /\ q.offset + k \in Nat /\ q.offset <= q.offset + k /\ q.offset + k <= After(q.offset)
    BY <1>1
  <2>2. SubSeq(Cut(q.offset, After(q.offset)), 1, k) = Cut(q.offset, q.offset + k)
    BY <1>1, <2>1, CutBegins, Zenon
  <2>3. q.offset + k <= Size
    BY <1>1, <2>1, Sizes
  <2>4. Prefix(q.offset) \o Cut(q.offset, q.offset + k) = Prefix(q.offset + k)
    BY <1>1, <2>1, <2>3, PrefixGrows
  <2>5. o.part = Prefix(q.offset + k) /\ o.final = <<>>
    BY <1>1, <1>2, <2>2, <2>4, Zenon
  <2> QED
    BY <1>2, <2>1, <2>5 DEF Grew
<1>3. ASSUME o = [part |-> <<>>, final |-> Grown(q), reply |-> NoReply], Grown(q) = Source
      PROVE  Published(q, o) /\ o.reply = NoReply
  BY <1>1, <1>3, SourceSeq DEF Published
<1>4. \/ \E k \in 0..Len(q.data) :
           o = [part |-> part[q.seg] \o SubSeq(q.data, 1, k), final |-> final[q.seg], reply |-> NoReply]
      \/ o = [part |-> <<>>, final |-> Grown(q), reply |-> NoReply] /\ Grown(q) = Source
  BY DEF Torn
<1>5. \A k \in 0..Len(q.data) : q.offset + k \in Nat
  BY <1>1
<1> QED
  BY <1>2, <1>3, <1>4, <1>5

\* A request that the host is serving, and what it leaves of it.
Request(q) ==
  q \in Requests /\ q.kind # "none" /\ q.seg \in Segments /\ q.seg \in released /\ IsPiece(q)

Effect(q, o) == Kept(q, o) \/ (\E n \in Nat : Grew(q, o, n)) \/ Published(q, o)

\* The files of the segment of a request, after it.
LEMMA EffectFiles ==
  ASSUME IInv, NEW q, Request(q), NEW o, Effect(q, o)
  PROVE  /\ o.part \in Bytes /\ o.final \in Bytes /\ Len(o.part) <= Size /\ Len(o.final) <= Size
         /\ Begins(o.part) /\ o.final \in {<<>>, Source}
         /\ o.final # <<>> => o.part = <<>> /\ (Kept(q, o) \/ (Appends(q) /\ q.kind = "put"))
         /\ final[q.seg] = Source => o.final = Source
         /\ HaveOf(o) \in Nat /\ Have(q.seg) <= HaveOf(o)
         /\ ~Kept(q, o) => q.kind = "put" /\ Have(q.seg) = q.offset
         /\ \A n \in Nat : Grew(q, o, n) => HaveOf(o) = n
         /\ Published(q, o) => HaveOf(o) = Size
<1>0. q \in Requests /\ q.seg \in Segments /\ IsPiece(q)
  BY DEF Request
<1>1. <<>> \in Bytes /\ Len(<<>>) = 0 /\ Begins(<<>>) /\ Source \in Bytes /\ Source # <<>> /\ Len(Source) = Size
  <2>1. SubSeq(Source, 1, 0) = <<>>
    BY SubSeqEmpty
  <2> QED
    BY <2>1, EmptySeq, SourceSeq, PrefixWhole DEF Bytes, Begins
<1>2. CASE Kept(q, o)
  <2>1. /\ part[q.seg] \in Bytes /\ final[q.seg] \in Bytes
        /\ Len(part[q.seg]) <= Size /\ Len(final[q.seg]) <= Size
        /\ Begins(part[q.seg]) /\ final[q.seg] \in {<<>>, Source}
        /\ final[q.seg] # <<>> => part[q.seg] = <<>>
    BY <1>0 DEF IInv, TypeOK, PartsBegin, Whole
  <2>2. HaveOf(o) = Have(q.seg) /\ Have(q.seg) \in Nat
    BY <1>0, <1>2, Stored DEF Kept, HaveOf, Have
  <2>3. ~Published(q, o) /\ \A n \in Nat : Grew(q, o, n) => HaveOf(o) = n
    <3>1. ~Published(q, o)
      BY <1>0, <1>1, <1>2, AppendsPiece DEF Published, Kept
    <3>2. ASSUME NEW n \in Nat, Grew(q, o, n) PROVE HaveOf(o) = n
      <4>1. n <= Size
        BY <1>0, <3>2, PieceShape, Sizes DEF Grew
      <4> QED
        BY <3>2, <4>1, PrefixSeq DEF Grew, HaveOf
    <3> QED
      BY <3>1, <3>2
  <2> QED
    BY <1>2, <2>1, <2>2, <2>3 DEF Kept
<1>3. ASSUME NEW n \in Nat, Grew(q, o, n), ~Kept(q, o)
      PROVE  /\ o.part \in Bytes /\ Len(o.part) = n /\ n <= Size /\ Begins(o.part)
             /\ o.final = <<>> /\ HaveOf(o) = n
             /\ final[q.seg] = <<>> /\ Have(q.seg) = q.offset /\ q.offset <= n /\ q.kind = "put"
  <2>1. n <= Size /\ q.offset <= n /\ o.part = Prefix(n) /\ o.final = <<>> /\ q.kind = "put" /\ Appends(q)
    BY <1>0, <1>3, PieceShape, Sizes DEF Grew
  <2>2. o.part \in Bytes /\ Len(o.part) = n /\ Begins(o.part)
    BY <2>1, PrefixSeq DEF Begins, Prefix
  <2>3. final[q.seg] = <<>> /\ Have(q.seg) = q.offset
    BY <1>0, <2>1, AppendsPiece
  <2> QED
    BY <2>1, <2>2, <2>3 DEF HaveOf
<1>4. ASSUME Published(q, o), ~Kept(q, o)
      PROVE  /\ o.part = <<>> /\ o.final = Source /\ HaveOf(o) = Size
             /\ final[q.seg] = <<>> /\ Have(q.seg) = q.offset /\ q.offset <= Size /\ q.kind = "put"
  <2>1. q.kind = "put" /\ Appends(q) /\ o.part = <<>> /\ o.final = Source
    BY <1>4 DEF Published
  <2>2. final[q.seg] = <<>> /\ Have(q.seg) = q.offset
    BY <1>0, <2>1, AppendsPiece
  <2>3. q.offset <= Size
    BY <1>0, <2>1, PieceShape, Sizes
  <2> QED
    BY <1>1, <2>1, <2>2, <2>3 DEF HaveOf
<1>5. CASE \E n \in Nat : Grew(q, o, n) /\ ~Kept(q, o)
  <2> PICK n \in Nat : Grew(q, o, n) /\ ~Kept(q, o)
    BY <1>5
  <2>1. \A k \in Nat : Grew(q, o, k) => HaveOf(o) = k
    BY <1>3
  <2>2. ~Published(q, o)
    BY <1>1, <1>3 DEF Published
  <2> QED
    BY <1>1, <1>3, <2>1, <2>2, Sizes
<1>6. CASE Published(q, o) /\ ~Kept(q, o)
  <2>1. \A k \in Nat : ~Grew(q, o, k)
    BY <1>1, <1>4, <1>6 DEF Grew
  <2>2. Appends(q)
    BY <1>6 DEF Published
  <2> QED
    BY <1>1, <1>4, <1>6, <2>1, <2>2, Sizes
<1> QED
  BY <1>2, <1>5, <1>6 DEF Effect

\* Serving a request leaves the invariant of the files.
LEMMA WritesEffect ==
  ASSUME IInv, NEW q, Request(q), NEW o, Effect(q, o), Writes(q, o), released' = released
  PROVE  /\ part' \in [Segments -> Bytes] /\ final' \in [Segments -> Bytes]
         /\ \A s \in Segments : Len(part'[s]) <= Size /\ Len(final'[s]) <= Size
         /\ described' \subseteq Segments
         /\ PartsBegin' /\ Whole'
         /\ Have(q.seg)' = HaveOf(o)
         /\ \A s \in Segments :
              /\ s # q.seg => Have(s)' = Have(s) /\ final'[s] = final[s]
              /\ Have(s) <= Have(s)' /\ (final[s] = Source => final'[s] = Source)
<1>0. q.seg \in Segments /\ q.seg \in released /\ q \in Requests
  BY DEF Request
<1>1. /\ part \in [Segments -> Bytes] /\ final \in [Segments -> Bytes] /\ described \subseteq Segments
      /\ \A s \in Segments : Len(part[s]) <= Size /\ Len(final[s]) <= Size
  BY DEF IInv, TypeOK
<1>2. /\ part' = [part EXCEPT ![q.seg] = o.part] /\ final' = [final EXCEPT ![q.seg] = o.final]
      /\ described \subseteq described' /\ described' \subseteq described \cup {q.seg}
      /\ q.kind = "put" /\ Appends(q) => q.seg \in described'
  BY DEF Writes
<1>3. /\ part'[q.seg] = o.part /\ final'[q.seg] = o.final
      /\ \A s \in Segments : s # q.seg => part'[s] = part[s] /\ final'[s] = final[s]
  BY <1>0, <1>1, <1>2
<1>4. /\ part' \in [Segments -> Bytes] /\ final' \in [Segments -> Bytes]
      /\ \A s \in Segments : Len(part'[s]) <= Size /\ Len(final'[s]) <= Size
      /\ described' \subseteq Segments
  BY <1>0, <1>1, <1>2, <1>3, EffectFiles
<1>5. PartsBegin'
  <2>1. \A s \in Segments : Begins(part[s]) /\ final[s] \in {<<>>, Source}
    BY DEF IInv, PartsBegin
  <2>2. \A s \in Segments : Begins(part'[s]) /\ final'[s] \in {<<>>, Source}
    BY <1>3, <2>1, EffectFiles
  <2> QED
    BY <2>2 DEF PartsBegin, Begins, Source, Segments
<1>6. Whole'
  <2>1. \A s \in Segments : final[s] # <<>> => s \in described /\ part[s] = <<>> /\ s \in released
    BY DEF IInv, Whole
  <2>2. final'[q.seg] # <<>> => q.seg \in described' /\ part'[q.seg] = <<>>
    BY <1>0, <1>2, <1>3, <2>1, EffectFiles DEF Kept
  <2> QED
    BY <1>0, <1>2, <1>3, <2>1, <2>2 DEF Whole, Segments
<1>7. Have(q.seg)' = HaveOf(o) /\ \A s \in Segments : s # q.seg => Have(s)' = Have(s)
  BY <1>0, <1>3 DEF Have, HaveOf
<1>8. \A s \in Segments : Have(s) \in Nat
  BY Stored
<1>9. Have(q.seg) <= HaveOf(o) /\ (final[q.seg] = Source => o.final = Source)
  BY EffectFiles
<1> QED
  BY <1>3, <1>4, <1>5, <1>6, <1>7, <1>8, <1>9
-----------------------------------------------------------------------------
(* Every step keeps the invariant.  First the steps of the guest, which    *)
(* leave the host's files alone.                                           *)

LEMMA FilesSame ==
  ASSUME IInv, UNCHANGED store, released \subseteq released'
  PROVE  /\ PartsBegin' /\ Whole' /\ \A s : Have(s)' = Have(s)
         /\ \A q : IsPiece(q) => IsPiece(q)'
         /\ SentPieces /\ late' = late /\ client'.req = client.req => SentPieces'
<1>1. part' = part /\ final' = final /\ described' = described
  BY DEF store
<1>2. \A s : Have(s)' = Have(s)
  BY <1>1 DEF Have
<1>3. \A q : IsPiece(q) => IsPiece(q)'
  BY <1>2 DEF IsPiece, Piece, After, Source
<1>4. PartsBegin'
  BY <1>1 DEF IInv, PartsBegin, Begins, Source, Segments
<1>5. Whole'
  BY <1>1 DEF IInv, Whole, Segments
<1> QED
  BY <1>2, <1>3, <1>4, <1>5 DEF SentPieces

LEMMA FaultTyped == TypeOK /\ Fault => faults' \in 0..MaxFaults
  BY Sizes DEF TypeOK, Fault

LEMMA QueuedInv ==
  ASSUME IInv, NEW last \in Segments, NEW status \in {"pending", "recovery_only"}, Queued(last, status)
  PROVE  IInv'
<1>1. /\ made < last /\ made' = last /\ files' = files \cup (made + 1)..last
      /\ queue' = [s \in Segments |-> IF s \in (made + 1)..last THEN status ELSE queue[s]]
      /\ released' = IF status = "pending" THEN released \cup (made + 1)..last ELSE released
      /\ client' = [client EXCEPT !.pc = "save"]
      /\ UNCHANGED <<store, saved, late, faults>>
  BY DEF Queued
<1>2. made \in Nat /\ last \in Nat /\ last <= Count /\ Segments \subseteq Nat
  BY Sizes DEF IInv, TypeOK, Segments
<1>3. client \in Clients /\ client'.req = client.req /\ client'.pc = "save" /\ client' \in Clients
  BY <1>1 DEF IInv, TypeOK, Clients
<1>4. (made + 1)..last \subseteq Segments
  BY <1>2, Sizes DEF Segments
<1>5. TypeOK'
  BY <1>1, <1>2, <1>3, <1>4 DEF IInv, TypeOK, store, Statuses, Settled, Segments
<1>6. PartsBegin' /\ Whole' /\ SentPieces'
  BY <1>1, <1>3, FilesSame DEF IInv
<1>7. Awaited' /\ Answered'
  BY <1>3 DEF Awaited, Answered
<1>8. Numbered'
  BY <1>1, <1>2 DEF IInv, Numbered, Segments
<1>9. QueueTrue'
  BY <1>1, <1>2 DEF IInv, Numbered, QueueTrue, Segments, Source, store
<1> QED
  BY <1>5, <1>6, <1>7, <1>8, <1>9 DEF IInv

\* The client when it waits for nothing.
LEMMA RestInv ==
  ASSUME IInv, client' \in Clients, client'.pc \in {"idle", "next", "save"},
         client'.req \in {client.req, NoRequest}, UNCHANGED <<store, late, released>>
  PROVE  PartsBegin' /\ Whole' /\ SentPieces' /\ Awaited' /\ Answered'
<1>1. PartsBegin' /\ Whole' /\ \A q : IsPiece(q) => IsPiece(q)'
  BY FilesSame
<1>2. SentPieces'
  BY <1>1 DEF IInv, SentPieces, IsPiece, NoRequest
<1>3. Awaited' /\ Answered'
  BY DEF Awaited, Answered
<1> QED
  BY <1>1, <1>2, <1>3

LEMMA IdleClient == Idle \in Clients
<1>1. <<>> \in Bytes
  BY EmptySeq DEF Bytes
<1> QED
  BY <1>1, Sizes DEF Idle, Clients, Requests, Replies, NoRequest, NoReply

LEMMA SavedInv == IInv /\ Saved => IInv'
<1> SUFFICES ASSUME IInv, Saved PROVE IInv'
  OBVIOUS
<1>1. saved' = queue /\ client' = Idle /\ UNCHANGED <<store, queue, files, late, made, released, faults>>
  BY DEF Saved
<1>2. TypeOK'
  BY <1>1, IdleClient DEF IInv, TypeOK, store, Segments
<1>3. PartsBegin' /\ Whole' /\ SentPieces' /\ Awaited' /\ Answered'
  BY <1>1, IdleClient, RestInv DEF Idle
<1>4. Numbered' /\ QueueTrue'
  BY <1>1 DEF IInv, Numbered, QueueTrue, Segments, Source, store
<1> QED
  BY <1>2, <1>3, <1>4 DEF IInv

LEMMA PollsInv == IInv /\ (Polls \/ TakesNone) => IInv'
<1> SUFFICES ASSUME IInv, Polls \/ TakesNone PROVE IInv'
  OBVIOUS
<1>1. /\ client' = [client EXCEPT !.pc = "next"] \/ client' = [client EXCEPT !.pc = "save"]
      /\ UNCHANGED <<store, queue, saved, files, late, made, released, faults>>
  BY DEF Polls, TakesNone
<1>2. client' \in Clients /\ client'.pc \in {"next", "save"} /\ client'.req = client.req
  BY <1>1 DEF IInv, TypeOK, Clients
<1>3. TypeOK'
  BY <1>1, <1>2 DEF IInv, TypeOK, store, Segments
<1>4. PartsBegin' /\ Whole' /\ SentPieces' /\ Awaited' /\ Answered'
  BY <1>1, <1>2, RestInv
<1>5. Numbered' /\ QueueTrue'
  BY <1>1 DEF IInv, Numbered, QueueTrue, Segments, Source, store
<1> QED
  BY <1>3, <1>4, <1>5 DEF IInv

LEMMA RemovedInv == ASSUME IInv, NEW s \in Segments, Removed(s) PROVE IInv'
<1>1. /\ files' = files \ {s}
      /\ UNCHANGED <<store, queue, saved, client, late, made, released>>
  BY DEF Removed
<1>2. TypeOK'
  BY <1>1, FaultTyped DEF IInv, TypeOK, store, Segments, Removed
<1>3. PartsBegin' /\ Whole' /\ SentPieces' /\ \A r : Have(r)' = Have(r)
  BY <1>1, FilesSame DEF IInv
<1>4. Awaited' /\ Answered'
  BY <1>1, <1>3 DEF IInv, Awaited, Answered, GoesOnAt, After, Source, store
<1>5. Numbered' /\ QueueTrue'
  BY <1>1 DEF IInv, Numbered, QueueTrue, Segments, Source, store
<1> QED
  BY <1>2, <1>3, <1>4, <1>5 DEF IInv

LEMMA TakesInv == ASSUME IInv, NEW s \in Segments, Takes(s) PROVE IInv'
<1>1. /\ Unsettled(s)
      /\ IF s \in files THEN client' = Asks(s) /\ UNCHANGED queue
         ELSE /\ queue' = [queue EXCEPT ![s] = "missing_local_original"]
              /\ client' = [client EXCEPT !.seg = s]
      /\ UNCHANGED <<store, saved, files, late, made, released, faults>>
      /\ client.pc = "next"
  BY DEF Takes
<1>2. s \in 0..Count /\ queue[s] \notin Settled \cup {"absent"}
  BY <1>1, Sizes DEF Unsettled, Segments
<1>3. CASE s \in files
  <2>1. client' = Asks(s) /\ UNCHANGED queue
    BY <1>1, <1>3
  <2>2. client' \in Clients /\ client'.req \in Requests /\ client'.req.kind = "status"
        /\ client'.req.seg = s /\ client'.seg = s /\ client'.pc = "wait"
    BY <2>1, <1>2, IdleClient DEF Asks, Idle, Clients, Requests, NoRequest
  <2>3. s \in released
    BY <1>2, <1>3 DEF IInv, QueueTrue, Settled
  <2>4. TypeOK'
    BY <1>1, <2>1, <2>2 DEF IInv, TypeOK, store, Segments
  <2>5. PartsBegin' /\ Whole' /\ \A q : IsPiece(q) => IsPiece(q)'
    BY <1>1, FilesSame
  <2>6. SentPieces'
    BY <1>1, <2>2, <2>5 DEF IInv, SentPieces, IsPiece
  <2>7. Awaited' /\ Answered'
    BY <1>1, <1>2, <2>1, <2>2, <2>3 DEF Awaited, Answered
  <2>8. Numbered' /\ QueueTrue'
    BY <1>1, <2>1 DEF IInv, Numbered, QueueTrue, Segments, Source, store
  <2> QED
    BY <2>4, <2>5, <2>6, <2>7, <2>8 DEF IInv
<1>4. CASE s \notin files
  <2>1. /\ queue' = [queue EXCEPT ![s] = "missing_local_original"]
        /\ client' = [client EXCEPT !.seg = s]
    BY <1>1, <1>4
  <2>2. client' \in Clients /\ client'.pc = "next" /\ client'.req = client.req
    BY <1>1, <1>2, <2>1 DEF IInv, TypeOK, Clients
  <2>3. TypeOK'
    BY <1>1, <2>1, <2>2 DEF IInv, TypeOK, store, Segments, Statuses
  <2>4. PartsBegin' /\ Whole' /\ SentPieces' /\ Awaited' /\ Answered'
    BY <1>1, <2>2, RestInv
  <2>5. queue \in [Segments -> Statuses]
    BY DEF IInv, TypeOK
  <2>6. Numbered'
    BY <1>1, <1>2, <2>1, <2>5 DEF IInv, Numbered, Segments
  <2>7. QueueTrue'
    BY <1>1, <1>4, <2>1, <2>5 DEF IInv, QueueTrue, Segments, Source, store
  <2> QED
    BY <2>3, <2>4, <2>6, <2>7 DEF IInv
<1> QED
  BY <1>3, <1>4

\* The segment of a client that waits, and what becomes of its queue entry.
LEMMA WaitingSegment ==
  ASSUME IInv, client.pc \in {"wait", "reply"}
  PROVE  /\ client.seg \in Segments /\ client.seg \in released /\ client.seg <= made
         /\ Request(client.req) /\ client.req.seg = client.seg
<1>1. client.seg \in released /\ client.req.seg = client.seg /\ client.req.kind # "none"
  BY DEF IInv, Awaited
<1>2. released \subseteq Segments /\ released \subseteq 1..made /\ made \in Nat
  BY DEF IInv, TypeOK, Numbered
<1>3. client.req \in Requests /\ IsPiece(client.req)
  BY DEF IInv, TypeOK, Clients, SentPieces
<1>4. client.seg \in Segments /\ client.seg \in 1..made
  BY <1>1, <1>2, Zenon
<1>5. client.seg <= made
  BY <1>2, <1>4
<1> QED
  BY <1>1, <1>3, <1>4, <1>5, Zenon DEF Request

LEMMA EntryInv ==
  ASSUME IInv, client.pc \in {"wait", "reply"}, NEW status \in {"pending", "verified"},
         status = "verified" => final[client.seg] = Source,
         queue' = [queue EXCEPT ![client.seg] = status],
         UNCHANGED <<store, saved, files, made, released>>
  PROVE  queue' \in [Segments -> Statuses] /\ Numbered' /\ QueueTrue'
<1>1. queue \in [Segments -> Statuses] /\ made \in Nat
  BY DEF IInv, TypeOK
<1>2. /\ queue'[client.seg] = status
      /\ \A s \in Segments : s # client.seg => queue'[s] = queue[s]
      /\ queue' \in [Segments -> Statuses]
  BY <1>1, WaitingSegment DEF Statuses, Settled
<1>3. Numbered'
  <2>1. \A s \in Segments : s > made => s # client.seg
    BY <1>1, WaitingSegment DEF Segments
  <2> QED
    BY <1>2, <2>1 DEF IInv, Numbered, Segments
<1>4. QueueTrue'
  <2>1. queue[client.seg] # "verified"
    BY DEF IInv, Awaited, Settled
  <2>2. part' = part /\ final' = final /\ saved' = saved /\ files' = files /\ released' = released
    BY DEF store
  <2>3. \A s \in Segments : s # client.seg =>
          /\ queue'[s] = "verified" \/ saved'[s] = "verified" => final'[s] = Source
          /\ s \in files' => /\ queue'[s] \in {"absent", "recovery_only"} \/ s \in released'
                             /\ saved'[s] \in {"absent", "recovery_only"} \/ s \in released'
                             /\ saved'[s] = "verified" => queue'[s] = "verified"
    BY <1>2, <2>2 DEF IInv, QueueTrue
  <2>4. /\ queue'[client.seg] = "verified" \/ saved'[client.seg] = "verified" => final'[client.seg] = Source
        /\ client.seg \in released'
        /\ client.seg \in files' => (saved'[client.seg] = "verified" => queue'[client.seg] = "verified")
    BY <1>2, <2>1, <2>2, WaitingSegment DEF IInv, QueueTrue
  <2> QED
    BY <2>3, <2>4 DEF QueueTrue, Segments, Source
<1> QED
  BY <1>2, <1>3, <1>4

LEMMA GivesUpInv == IInv /\ GivesUp => IInv'
<1> SUFFICES ASSUME IInv, GivesUp PROVE IInv'
  OBVIOUS
<1>1. /\ client.pc \in {"wait", "reply"} /\ Fault
      /\ late' = late \/ (late' = late \cup {client.req} /\ client.pc = "wait")
      /\ queue' = [queue EXCEPT ![client.seg] = "pending"]
      /\ client' = [client EXCEPT !.pc = "save"]
      /\ UNCHANGED <<store, saved, files, made, released>>
  BY DEF GivesUp
<1>2. client \in Clients /\ client' \in Clients /\ client'.pc = "save" /\ client'.req = client.req
  BY <1>1 DEF IInv, TypeOK, Clients
<1>3. queue' \in [Segments -> Statuses] /\ Numbered' /\ QueueTrue'
  BY <1>1, EntryInv
<1>4. PartsBegin' /\ Whole' /\ \A q : IsPiece(q) => IsPiece(q)'
  BY <1>1, FilesSame
<1>5. client.req \in Requests
  BY <1>2 DEF Clients
<1>6. TypeOK'
  BY <1>1, <1>2, <1>3, <1>5, FaultTyped DEF IInv, TypeOK, store, Segments
<1>7. SentPieces'
  BY <1>1, <1>2, <1>4, WaitingSegment DEF IInv, SentPieces, Request
<1>8. Awaited' /\ Answered'
  BY <1>2 DEF Awaited, Answered
<1> QED
  BY <1>3, <1>4, <1>6, <1>7, <1>8 DEF IInv

LEMMA RestartsInv == IInv /\ Restarts => IInv'
<1> SUFFICES ASSUME IInv, Restarts PROVE IInv'
  OBVIOUS
<1>1. /\ Fault
      /\ late' = late \/ (late' = late \cup {client.req} /\ client.pc = "wait")
      /\ queue' = [s \in Segments |-> IF saved[s] # "absent" /\ s \notin files
                                      THEN "missing_local_original" ELSE saved[s]]
      /\ client' = Idle
      /\ UNCHANGED <<store, saved, files, made, released>>
  BY DEF Restarts
<1>2. client' \in Clients /\ client'.pc = "idle" /\ client'.req = NoRequest
  BY <1>1, IdleClient DEF Idle
<1>3. PartsBegin' /\ Whole' /\ \A q : IsPiece(q) => IsPiece(q)'
  BY <1>1, FilesSame
<1>4. client.req \in Requests
  BY DEF IInv, TypeOK, Clients
<1>5. TypeOK'
  BY <1>1, <1>2, <1>4, FaultTyped DEF IInv, TypeOK, store, Segments, Statuses
<1>6. SentPieces'
  BY <1>1, <1>2, <1>3, WaitingSegment DEF IInv, SentPieces, Request, IsPiece, NoRequest
<1>7. Awaited' /\ Answered'
  BY <1>2 DEF Awaited, Answered
<1>8. Numbered' /\ QueueTrue'
  BY <1>1 DEF IInv, Numbered, QueueTrue, Segments, Source, store
<1> QED
  BY <1>3, <1>5, <1>6, <1>7, <1>8 DEF IInv

LEMMA ReplyReadInv == IInv /\ ReplyRead => IInv'
<1> SUFFICES ASSUME IInv, ReplyRead PROVE IInv'
  OBVIOUS
<1>1. client.pc = "reply" /\ UNCHANGED <<store, saved, files, late, made, released, faults>>
  BY DEF ReplyRead
<1>2. client \in Clients /\ client.reply \in Replies /\ queue \in [Segments -> Statuses]
  BY DEF IInv, TypeOK, Clients
<1>3. CASE /\ Goes /\ UNCHANGED queue
           /\ client' = Sends(IF client.req.kind = "put" THEN client.pos ELSE client.reply.received,
                              client.reply.received)
  <2>0. client.reply.received \in Nat
    BY <1>2, Sizes DEF Replies
  <2> PICK n \in Nat : n = client.reply.received
    BY <2>0
  <2>1. client.reply.is = "partial" /\ n < Size /\ n \in Nat
    BY <1>3 DEF Goes
  <2>2. GoesOnAt(n) /\ (client.req.kind = "put" => n = client.pos)
    BY <1>1, <2>1 DEF IInv, Answered
  <2>3. /\ After(n) \in Nat /\ n <= After(n) /\ After(n) <= Size /\ n + Least(Chunk, Size - n) = After(n)
    BY <2>1, AfterBounds, Sizes
  <2>4. client' = Sends(n, n)
    BY <1>3, <2>2
  <2>5. client' = [client EXCEPT !.pc = "wait", !.pos = After(n), !.reply = NoReply,
                                 !.req = [kind |-> "put", seg |-> client.seg, offset |-> n,
                                          data |-> Piece(n)]]
    BY <2>3, <2>4 DEF Sends, Piece
  <2>6. Piece(n) \in Bytes
    BY <2>1, <2>3, CutSeq DEF Piece, Cut
  <2>7. /\ client' \in Clients /\ client'.pc = "wait" /\ client'.seg = client.seg /\ client'.pos = After(n)
        /\ client'.req = [kind |-> "put", seg |-> client.seg, offset |-> n, data |-> Piece(n)]
        /\ client'.req \in Requests
    <3>1. n \in 0..Size /\ After(n) \in 0..Size /\ client.seg \in 0..Count
      BY <1>2, <2>1, <2>3, Sizes DEF Clients
    <3>2. [kind |-> "put", seg |-> client.seg, offset |-> n, data |-> Piece(n)] \in Requests
      BY <2>6, <3>1 DEF Requests
    <3>3. NoReply \in Replies
      BY Sizes DEF NoReply, Replies
    <3> QED
      BY <1>2, <2>5, <3>1, <3>2, <3>3 DEF Clients
  <2>8. PartsBegin' /\ Whole' /\ (\A s : Have(s)' = Have(s)) /\ \A q : IsPiece(q) => IsPiece(q)'
    BY <1>1, FilesSame
  <2>9. TypeOK'
    BY <1>1, <1>3, <2>7 DEF IInv, TypeOK, store, Segments
  <2>10. n <= Have(client.seg)
    <3>1. Have(client.seg) \in {n, After(n)}
      BY <2>2 DEF GoesOnAt
    <3> QED
      BY <2>1, <2>3, <3>1
  <2>11. SentPieces'
    <3>1. IsPiece(client'.req)
      BY <1>1, <2>1, <2>7, <2>10, WaitingSegment DEF IsPiece
    <3> QED
      BY <1>1, <2>8, <3>1 DEF IInv, SentPieces
  <2>12. GoesOnAt(n) => GoesOnAt(n)'
    BY <1>1, <2>7, <2>8 DEF GoesOnAt, After
  <2>13. Awaited'
    <3>1. /\ client.seg \in released /\ queue[client.seg] \notin Settled \cup {"absent"}
          /\ UNCHANGED <<released, queue>>
      BY <1>1, <1>3 DEF IInv, Awaited
    <3>2. client'.req.seg = client'.seg /\ client'.req.kind = "put" /\ client'.req.offset = n
      BY <2>7
    <3>3. GoesOnAt(n)'
      BY <2>2, <2>12
    <3>4. client'.pos = After(n)
      BY <2>7
    <3> QED
      BY <2>7, <3>1, <3>2, <3>3, <3>4 DEF Awaited, After, GoesOnAt
  <2>14. Answered' /\ Numbered' /\ QueueTrue'
    BY <1>1, <1>3, <2>7 DEF IInv, Answered, Numbered, QueueTrue, Segments, Source, store
  <2> QED
    BY <2>8, <2>9, <2>11, <2>13, <2>14 DEF IInv
<1>4. CASE /\ Delivered /\ queue' = [queue EXCEPT ![client.seg] = "verified"]
           /\ client' = [Idle EXCEPT !.pc = "next", !.seg = client.seg]
  <2>1. final[client.seg] = Source
    BY <1>1, <1>4 DEF Delivered, IInv, Answered
  <2>2. queue' \in [Segments -> Statuses] /\ Numbered' /\ QueueTrue'
    BY <1>1, <1>4, <2>1, EntryInv
  <2>3. client' \in Clients /\ client'.pc = "next" /\ client'.req = NoRequest
    BY <1>2, <1>4, IdleClient DEF Idle, Clients
  <2>4. PartsBegin' /\ Whole' /\ SentPieces' /\ Awaited' /\ Answered'
    BY <1>1, <2>3, RestInv
  <2>5. TypeOK'
    BY <1>1, <2>2, <2>3 DEF IInv, TypeOK, store, Segments
  <2> QED
    BY <2>2, <2>4, <2>5 DEF IInv
<1>5. CASE /\ queue' = [queue EXCEPT ![client.seg] = "pending"]
           /\ client' = [client EXCEPT !.pc = "save"]
  <2>1. queue' \in [Segments -> Statuses] /\ Numbered' /\ QueueTrue'
    BY <1>1, <1>5, EntryInv
  <2>2. client' \in Clients /\ client'.pc = "save" /\ client'.req = client.req
    BY <1>2, <1>5 DEF Clients
  <2>3. PartsBegin' /\ Whole' /\ SentPieces' /\ Awaited' /\ Answered'
    BY <1>1, <2>2, RestInv
  <2>4. TypeOK'
    BY <1>1, <2>1, <2>2 DEF IInv, TypeOK, store, Segments
  <2> QED
    BY <2>1, <2>3, <2>4 DEF IInv
<1> QED
  BY <1>3, <1>4, <1>5 DEF ReplyRead
-----------------------------------------------------------------------------
(* The steps of the host.                                                  *)

\* Where the client goes on from stays true when a late request is served.
Done(q, o) == Kept(q, o) \/ Grew(q, o, After(q.offset)) \/ Published(q, o)

LEMMA DoneEffect ==
  ASSUME IInv, NEW q, Request(q), NEW o, Done(q, o)
  PROVE  /\ Effect(q, o)
         /\ Kept(q, o) => HaveOf(o) = Have(q.seg)
         /\ ~Kept(q, o) => HaveOf(o) = After(q.offset)
<1>1. Grew(q, o, After(q.offset)) => After(q.offset) \in Nat
  BY DEF Grew
<1>2. Effect(q, o)
  BY <1>1 DEF Done, Effect
<1>3. Kept(q, o) => HaveOf(o) = Have(q.seg)
  BY DEF Kept, HaveOf, Have
<1>4. Grew(q, o, After(q.offset)) => HaveOf(o) = After(q.offset)
  BY <1>1, <1>2, EffectFiles
<1>5. Published(q, o) => HaveOf(o) = After(q.offset)
  BY <1>2, EffectFiles DEF Published
<1> QED
  BY <1>2, <1>3, <1>4, <1>5 DEF Done

LEMMA GoesOnStill ==
  ASSUME IInv, NEW q \in late, Request(q), NEW o, Done(q, o), Writes(q, o),
         client' = client, released' = released, late' = late \ {q},
         client.seg \in Segments, NEW n \in Nat, n <= Size, GoesOnAt(n)
  PROVE  GoesOnAt(n)'
<1>0. Effect(q, o)
  BY DoneEffect
<1>1. /\ Have(client.seg) \in {n, After(n)}
      /\ \A p \in late : p.kind = "put" /\ p.seg = client.seg => p.offset <= n
  BY DEF GoesOnAt
<1>2. \A p \in late' : p.kind = "put" /\ p.seg = client'.seg => p.offset <= n
  BY <1>1
<1>3. Have(client.seg)' \in {n, After(n)}
  <2>1. CASE q.seg # client.seg
    BY <1>0, <1>1, <2>1, WritesEffect
  <2>2. CASE q.seg = client.seg /\ Kept(q, o)
    <3>1. HaveOf(o) = Have(q.seg)
      BY <2>2, DoneEffect
    <3> QED
      BY <1>0, <1>1, <2>2, <3>1, WritesEffect
  <2>3. CASE q.seg = client.seg /\ ~Kept(q, o)
    <3>1. q.kind = "put" /\ Have(q.seg) = q.offset
      BY <1>0, <2>3, EffectFiles
    <3>2. q.offset \in Nat /\ q.offset < Size /\ q.offset <= n
      BY <1>1, <2>3, <3>1, PieceShape DEF Request
    <3>3. After(n) \in Nat /\ n <= After(n) /\ (n < Size => n < After(n)) /\ After(n) <= Size
      BY AfterBounds
    <3>4. q.offset = n
      <4>1. CASE q.offset = After(n)
        BY <3>2, <3>3, <4>1, Sizes
      <4> QED
        BY <1>1, <2>3, <3>1, <4>1
    <3>5. HaveOf(o) = After(n)
      BY <2>3, <3>4, DoneEffect
    <3> QED
      BY <1>0, <2>3, <3>5, WritesEffect
  <2> QED
    BY <2>1, <2>2, <2>3
<1>4. client'.seg = client.seg /\ After(n)' = After(n)
  BY DEF After
<1> QED
  BY <1>2, <1>3, <1>4 DEF GoesOnAt

LEMMA PiecesStill ==
  ASSUME IInv, NEW q, Request(q), NEW o, Effect(q, o), Writes(q, o), released' = released,
         NEW p \in Requests, IsPiece(p)
  PROVE  IsPiece(p)'
<1>1. CASE p.kind # "put"
  BY <1>1 DEF IsPiece
<1>2. CASE p.kind = "put"
  <2>1. p.seg \in Segments
    BY <1>2 DEF IsPiece
  <2>2. Have(p.seg) <= Have(p.seg)' /\ Have(p.seg) \in Nat
    BY <2>1, WritesEffect, Stored
  <2>3. Have(p.seg)' \in Nat
    <3>1. HaveOf(o) \in Nat
      BY EffectFiles
    <3> QED
      BY <2>1, <2>2, <3>1, WritesEffect
  <2>4. p.offset \in Nat /\ p.offset < Size /\ p.data = Piece(p.offset) /\ p.offset <= Have(p.seg)
    BY <1>2, Sizes DEF IsPiece, Requests
  <2>5. p.offset <= Have(p.seg)'
    BY <2>2, <2>3, <2>4
  <2> QED
    BY <2>1, <2>4, <2>5 DEF IsPiece, Piece, After, Source, Segments
<1> QED
  BY <1>1, <1>2

\* Serving changes nothing of the queues.
LEMMA QueueStill ==
  ASSUME IInv, NEW q, Request(q), NEW o, Effect(q, o), Writes(q, o),
         UNCHANGED <<queue, saved, files, made, released>>
  PROVE  Numbered' /\ QueueTrue'
<1>1. \A s \in Segments : final[s] = Source => final'[s] = Source
  BY WritesEffect
<1>2. queue' = queue /\ saved' = saved /\ files' = files /\ made' = made /\ released' = released
  OBVIOUS
<1>3. Numbered'
  BY <1>2 DEF IInv, Numbered, Segments
<1>4. QueueTrue'
  BY <1>1, <1>2 DEF IInv, QueueTrue, Segments, Source
<1> QED
  BY <1>3, <1>4

LEMMA LateRequest ==
  ASSUME IInv, NEW q \in late
  PROVE  Request(q)
  BY DEF IInv, TypeOK, SentPieces, Request

LEMMA ServedLateInv == ASSUME IInv, NEW q \in late, ServedLate(q) PROVE IInv'
<1> DEFINE o == Outcome(q)
<1>1. /\ Writes(q, o) /\ late' = late \ {q}
      /\ UNCHANGED <<queue, saved, files, client, made, released, faults>>
  BY DEF ServedLate, guest
<1>2. Request(q)
  BY LateRequest
<1>3. Done(q, o)
  BY <1>2, OutcomeEffect DEF Request, Done
<1>4. Effect(q, o)
  BY <1>2, <1>3, DoneEffect
<1> HIDE DEF o
<1>5. /\ part' \in [Segments -> Bytes] /\ final' \in [Segments -> Bytes]
      /\ \A s \in Segments : Len(part'[s]) <= Size /\ Len(final'[s]) <= Size
      /\ described' \subseteq Segments
      /\ PartsBegin' /\ Whole'
      /\ \A s \in Segments : final[s] = Source => final'[s] = Source
  BY <1>1, <1>2, <1>4, WritesEffect
<1>6. TypeOK'
  BY <1>1, <1>5 DEF IInv, TypeOK, Segments
<1>7. client.req \in Requests /\ IsPiece(client.req)
  BY DEF IInv, TypeOK, Clients, SentPieces
<1>8. SentPieces'
  <2>1. IsPiece(client.req)'
    BY <1>1, <1>2, <1>4, <1>7, PiecesStill
  <2>2. \A p \in late' : IsPiece(p)'
    BY <1>1, <1>2, <1>4, LateRequest, PiecesStill DEF Request
  <2> QED
    BY <1>1, <2>1, <2>2 DEF IInv, SentPieces
<1>9. \A n \in Nat : n <= Size /\ client.seg \in Segments /\ GoesOnAt(n) => GoesOnAt(n)'
  BY <1>1, <1>2, <1>3, GoesOnStill
<1>10. Awaited'
  <2>1. ASSUME client.pc = "wait", client.req.kind = "put" PROVE GoesOnAt(client.req.offset)'
    <3> PICK n \in Nat : n = client.req.offset
      BY <1>7, <2>1, PieceShape
    <3>1. GoesOnAt(n) /\ n <= Size
      BY <1>7, <2>1, PieceShape, Sizes DEF IInv, Awaited
    <3>2. GoesOnAt(n)'
      BY <1>9, <2>1, <3>1, WaitingSegment
    <3> QED
      BY <1>1, <3>2 DEF GoesOnAt, After
  <2> QED
    BY <1>1, <2>1 DEF IInv, Awaited, After
<1>11. Answered'
  <2>1. ASSUME client.pc = "reply", client.reply.is = "partial" PROVE GoesOnAt(client.reply.received)'
    <3>1. client.reply.received \in Nat /\ client.reply.received <= Size
      BY Sizes DEF IInv, TypeOK, Clients, Replies
    <3> PICK n \in Nat : n = client.reply.received
      BY <3>1
    <3>2. GoesOnAt(n)
      BY <2>1 DEF IInv, Answered
    <3>3. GoesOnAt(n)'
      BY <1>9, <2>1, <3>1, <3>2, WaitingSegment
    <3> QED
      BY <1>1, <3>3 DEF GoesOnAt, After
  <2>2. client.pc = "reply" /\ client.reply.is = "complete" => final'[client.seg] = Source
    BY <1>5, WaitingSegment DEF IInv, Answered
  <2> QED
    BY <1>1, <2>1, <2>2 DEF IInv, Answered, Source
<1> QED
  BY <1>1, <1>2, <1>4, <1>5, <1>6, <1>8, <1>10, <1>11, QueueStill DEF IInv

\* What the client is answered, when nothing fails.
LEMMA AnswerTrue ==
  ASSUME IInv, Request(client.req), client.pc = "wait", client.req.seg = client.seg,
         Writes(client.req, Outcome(client.req)), released' = released, late' = late,
         client' = [client EXCEPT !.pc = "reply", !.reply = Outcome(client.req).reply],
         client'.reply.is = "partial"
  PROVE  /\ GoesOnAt(client.reply.received)'
         /\ client.req.kind = "put" => client'.reply.received = client.pos
<1> PICK q : q = client.req
  OBVIOUS
<1> PICK o : o = Outcome(q)
  OBVIOUS
<1>1. /\ Truthful(q, o) /\ Done(q, o) /\ q.seg \in Segments /\ IsPiece(q) /\ q \in Requests
      /\ Request(q) /\ Writes(q, o)
  BY OutcomeEffect DEF Request, Done
<1>2. Effect(q, o)
  BY <1>1, DoneEffect
<1>3. client'.reply = o.reply /\ client'.seg = client.seg /\ client'.pos = client.pos
  BY DEF IInv, TypeOK, Clients
<1>4. o.reply.received = HaveOf(o) /\ (q.kind = "put" => After(q.offset) <= HaveOf(o))
  BY <1>1, <1>3 DEF Truthful
<1>5. Have(q.seg)' = HaveOf(o) /\ Have(q.seg) <= HaveOf(o) /\ HaveOf(o) \in Nat /\ Have(q.seg) \in Nat
  BY <1>1, <1>2, WritesEffect, EffectFiles, Stored
<1>6. \A p \in late : p.kind = "put" /\ p.seg = q.seg => p.offset <= HaveOf(o)
  <2>1. \A p \in late : p.kind = "put" => p.offset \in Nat /\ p.offset <= Have(p.seg)
    BY LateRequest, Sizes DEF Request, IsPiece, Requests
  <2> QED
    BY <1>5, <2>1
<1>7. GoesOnAt(client.reply.received)'
  BY <1>3, <1>4, <1>5, <1>6 DEF GoesOnAt
<1>8. ASSUME q.kind = "put" PROVE HaveOf(o) = client.pos
  <2>1. client.pos = After(q.offset) /\ Have(q.seg) \in {q.offset, After(q.offset)}
    BY <1>8 DEF IInv, Awaited, GoesOnAt
  <2>2. q.offset < After(q.offset) /\ q.offset \in Nat /\ After(q.offset) \in Nat
    BY <1>1, <1>8, PieceShape
  <2>3. HaveOf(o) = Have(q.seg) \/ HaveOf(o) = After(q.offset)
    BY <1>1, DoneEffect
  <2> QED
    BY <1>4, <1>8, <2>1, <2>2, <2>3
<1> QED
  BY <1>3, <1>4, <1>7, <1>8

LEMMA ServedInv == IInv /\ Served => IInv'
<1> SUFFICES ASSUME IInv, Served PROVE IInv'
  OBVIOUS
<1>1. /\ client.pc = "wait"
      /\ UNCHANGED <<queue, saved, files, late, made, released>>
  BY DEF Served
<1>2. Request(client.req) /\ client.req.seg = client.seg /\ client.seg \in Segments
  BY <1>1, WaitingSegment
<1>3. PICK o : /\ Serves(client.req, o) /\ Writes(client.req, o)
               /\ client' = [client EXCEPT !.pc = "reply", !.reply = o.reply]
  BY DEF Served
<1>4. \/ o = Outcome(client.req) /\ UNCHANGED faults
      \/ /\ o \in Torn(client.req) /\ Fault
         /\ client.req.kind = "put" /\ Appends(client.req)
  BY <1>3 DEF Serves
<1>5. Effect(client.req, o) /\ o.reply \in Replies /\ (o.reply.is = "complete" => o.final = Source)
      /\ (o.reply.is = "partial" => o = Outcome(client.req))
  <2>1. CASE o = Outcome(client.req)
    <3>1. Truthful(client.req, o) /\ Done(client.req, o)
      BY <1>2, <2>1, OutcomeEffect DEF Request, Done
    <3> QED
      BY <1>2, <2>1, <3>1, DoneEffect DEF Truthful
  <2>2. CASE o \in Torn(client.req) /\ client.req.kind = "put" /\ Appends(client.req)
    <3>1. o.reply = NoReply /\ Effect(client.req, o)
      BY <1>2, <2>2, TornEffect DEF Request, Effect
    <3> QED
      BY <3>1, Sizes DEF NoReply, Replies
  <2> QED
    BY <1>4, <2>1, <2>2
<1>6. /\ client' \in Clients /\ client'.req = client.req /\ client'.seg = client.seg
      /\ client'.pos = client.pos /\ client'.pc = "reply" /\ client'.reply = o.reply
  BY <1>3, <1>5 DEF IInv, TypeOK, Clients
<1>7. /\ part' \in [Segments -> Bytes] /\ final' \in [Segments -> Bytes]
      /\ \A s \in Segments : Len(part'[s]) <= Size /\ Len(final'[s]) <= Size
      /\ described' \subseteq Segments
      /\ PartsBegin' /\ Whole' /\ final'[client.seg] = o.final
  <2>1. final'[client.seg] = o.final
    BY <1>2, <1>3 DEF Writes, IInv, TypeOK
  <2> QED
    BY <1>1, <1>2, <1>3, <1>5, <2>1, WritesEffect
<1>8. TypeOK'
  <2>1. faults' \in 0..MaxFaults
    BY <1>4, FaultTyped DEF IInv, TypeOK
  <2> QED
    BY <1>1, <1>6, <1>7, <2>1 DEF IInv, TypeOK, Segments
<1>9. SentPieces'
  <2>1. client.req \in Requests /\ IsPiece(client.req)
    BY <1>2 DEF Request
  <2>2. IsPiece(client.req)'
    BY <1>1, <1>2, <1>3, <1>5, <2>1, PiecesStill
  <2>3. \A p \in late : IsPiece(p)'
    BY <1>1, <1>2, <1>3, <1>5, LateRequest, PiecesStill DEF Request
  <2> QED
    BY <1>1, <1>6, <2>2, <2>3 DEF IInv, SentPieces, IsPiece
<1>10. Awaited'
  BY <1>1, <1>6 DEF IInv, Awaited, After
<1>11. Answered'
  <2>1. client'.reply.is = "partial" =>
          /\ GoesOnAt(client.reply.received)'
          /\ client.req.kind = "put" => client'.reply.received = client.pos
    BY <1>1, <1>2, <1>3, <1>5, <1>6, AnswerTrue
  <2> QED
    BY <1>5, <1>6, <1>7, <2>1 DEF Answered, Source
<1> QED
  BY <1>1, <1>2, <1>3, <1>5, <1>7, <1>8, <1>9, <1>10, <1>11, QueueStill DEF IInv
-----------------------------------------------------------------------------
(* The results.                                                            *)

LEMMA StutterInv == IInv /\ UNCHANGED vars => IInv'
<1> SUFFICES ASSUME IInv, UNCHANGED vars PROVE IInv'
  OBVIOUS
<1>1. UNCHANGED <<part, final, described, queue, saved, files, client, late, made, released, faults>>
  BY DEF vars, store, guest
<1>2. TypeOK'
  BY <1>1 DEF IInv, TypeOK, Segments
<1>3. PartsBegin' /\ Whole' /\ SentPieces' /\ \A s : Have(s)' = Have(s)
  BY <1>1, FilesSame DEF IInv, store
<1>4. Awaited' /\ Answered'
  BY <1>1, <1>3 DEF IInv, Awaited, Answered, GoesOnAt, After, Source
<1>5. Numbered' /\ QueueTrue'
  BY <1>1 DEF IInv, Numbered, QueueTrue, Segments, Source
<1> QED
  BY <1>2, <1>3, <1>4, <1>5 DEF IInv

LEMMA StepInv == IInv /\ [Next]_vars => IInv'
<1> SUFFICES ASSUME IInv, [Next]_vars PROVE IInv'
  OBVIOUS
<1>1. CASE Upload
  BY <1>1, SavedInv, PollsInv, TakesInv, ReplyReadInv DEF Upload
<1>2. CASE Served \/ GivesUp \/ Restarts
  BY <1>2, ServedInv, GivesUpInv, RestartsInv
<1>3. CASE \E q \in late : ServedLate(q)
  BY <1>3, ServedLateInv
<1>4. CASE \E last \in Segments, status \in {"pending", "recovery_only"} : Queued(last, status)
  BY <1>4, QueuedInv
<1>5. CASE \E s \in Segments : Removed(s)
  BY <1>5, RemovedInv
<1>6. CASE UNCHANGED vars
  BY <1>6, StutterInv
<1> QED
  BY <1>1, <1>2, <1>3, <1>4, <1>5, <1>6 DEF Next

\* The inductive invariant: every request that may still be served carries
\* the source's bytes from an offset the host had reached.
THEOREM Invariance == Spec => []IInv
<1>1. Init => IInv
  BY InitInv
<1>2. IInv /\ [Next]_vars => IInv'
  BY StepInv
<1> QED
  BY <1>1, <1>2, PTL DEF Spec

\* Every variable keeps its type, and no file outgrows its source.
THEOREM TypeCorrect == Spec => []TypeOK
<1>1. IInv => TypeOK
  BY DEF IInv
<1> QED
  BY <1>1, Invariance, PTL

\* The host has the beginning of the source, or all of it (TransferStore.append).
THEOREM Resumable == Spec => []PartsBegin
<1>1. IInv => PartsBegin
  BY DEF IInv
<1> QED
  BY <1>1, Invariance, PTL

\* Nothing acknowledged is lost, and the client reads its file where it sends
\* from (upload_file).
THEOREM Acknowledged == Spec => []AckedKept
<1>1. IInv => AckedKept
  <2> SUFFICES ASSUME IInv, client.pc \in {"wait", "reply"}, client.req.kind = "put"
               PROVE  /\ client.req.offset <= Status(client.seg).received
                      /\ client.pos = client.req.offset + Len(client.req.data)
    BY DEF AckedKept
  <2>1. client.req \in Requests /\ IsPiece(client.req) /\ client.seg \in Segments /\ client.req.seg = client.seg
    BY WaitingSegment DEF Request
  <2>2. Status(client.seg).received = Have(client.seg)
    BY <2>1, Stored DEF Receipt
  <2>3. client.req.offset <= Have(client.seg)
    BY <2>1 DEF IsPiece
  <2>4. /\ client.pos = After(client.req.offset)
        /\ client.req.offset \in Nat /\ After(client.req.offset) \in Nat
        /\ Len(client.req.data) = After(client.req.offset) - client.req.offset
    BY <2>1, PieceShape DEF IInv, Awaited
  <2> QED
    BY <2>2, <2>3, <2>4
<1> QED
  BY <1>1, Invariance, PTL

\* A guest that believes a segment delivered is right, also after restarts.
THEOREM Verified == Spec => []VerifiedPublished
<1>1. IInv => VerifiedPublished
  BY DEF IInv, QueueTrue, VerifiedPublished
<1> QED
  BY <1>1, Invariance, PTL
-----------------------------------------------------------------------------
(* The transfer implements SegmentDelivery.                                *)

Wholes    == {s \in Segments : final[s] # <<>>}
Confirmed == {s \in Segments : queue[s] = "verified"}

\* A step that leaves the files and confirms no more, or one segment that is
\* published.
LEMMA GuestStepMaps ==
  ASSUME IInv, released' = released, final' = final,
         Confirmed' \subseteq Confirmed \/ \E s \in Wholes : Confirmed' = Confirmed \cup {s}
  PROVE  [Delivery!Next]_(Delivery!delivery)
<1>1. Wholes' = Wholes
  BY DEF Wholes, Segments
<1>2. CASE Confirmed' \subseteq Confirmed
  <2> PICK gone : gone = Confirmed \ Confirmed'
    OBVIOUS
  <2>1. gone \in SUBSET Segments /\ gone \subseteq Confirmed /\ Confirmed' = Confirmed \ gone
    BY <1>2 DEF Confirmed
  <2>2. Delivery!Forget(gone)
    BY <1>1, <2>1 DEF Delivery!Forget, Wholes, Confirmed
  <2> QED
    BY <2>1, <2>2 DEF Delivery!Next
<1>3. CASE \E s \in Wholes : Confirmed' = Confirmed \cup {s}
  <2> PICK s \in Wholes : Confirmed' = Confirmed \cup {s}
    BY <1>3
  <2>1. CASE s \in Confirmed
    <3>1. Confirmed' = Confirmed
      BY <2>1
    <3> QED
      BY <1>1, <3>1 DEF Delivery!delivery, Wholes, Confirmed
  <2>2. CASE s \notin Confirmed
    <3>1. Delivery!Confirm(s) /\ s \in Segments
      BY <1>1, <2>2 DEF Delivery!Confirm, Wholes, Confirmed
    <3> QED
      BY <3>1 DEF Delivery!Next
  <2> QED
    BY <2>1, <2>2
<1> QED
  BY <1>2, <1>3

\* Serving a request publishes its segment, or nothing.
LEMMA HostStepMaps ==
  ASSUME IInv, NEW q, Request(q), NEW o, Effect(q, o), Writes(q, o),
         released' = released, queue' = queue
  PROVE  [Delivery!Next]_(Delivery!delivery)
<1>1. q.seg \in Segments /\ q.seg \in released
  BY DEF Request
<1>2. \A s \in Segments : s # q.seg => final'[s] = final[s]
  BY WritesEffect
<1>3. final'[q.seg] = o.final /\ (final[q.seg] = Source => o.final = Source)
  BY <1>1, EffectFiles DEF Writes, IInv, TypeOK
<1>4. Confirmed' = Confirmed
  BY DEF Confirmed, Segments
<1>5. final[q.seg] \in {<<>>, Source} /\ o.final \in {<<>>, Source} /\ Source # <<>>
  BY <1>1, EffectFiles, PrefixWhole DEF IInv, PartsBegin
<1>6. CASE o.final = final[q.seg]
  <2>1. Wholes' = Wholes
    BY <1>1, <1>2, <1>3, <1>6 DEF Wholes, Segments
  <2> QED
    BY <1>4, <2>1 DEF Delivery!delivery, Wholes, Confirmed
<1>7. CASE o.final # final[q.seg]
  <2>1. final[q.seg] = <<>> /\ final'[q.seg] # <<>>
    BY <1>3, <1>5, <1>7
  <2>2. Wholes' = Wholes \cup {q.seg} /\ q.seg \notin Wholes
    BY <1>1, <1>2, <2>1 DEF Wholes, Segments
  <2>3. Delivery!Publish(q.seg)
    BY <1>1, <1>4, <2>2 DEF Delivery!Publish, Wholes, Confirmed
  <2> QED
    BY <1>1, <2>3 DEF Delivery!Next
<1> QED
  BY <1>6, <1>7

LEMMA StepMaps == IInv /\ [Next]_vars => [Delivery!Next]_(Delivery!delivery)
<1> SUFFICES ASSUME IInv, [Next]_vars PROVE [Delivery!Next]_(Delivery!delivery)
  OBVIOUS
<1>0. queue \in [Segments -> Statuses]
  BY DEF IInv, TypeOK
<1>1. CASE Saved \/ Polls \/ TakesNone \/ (\E s \in Segments : Removed(s)) \/ UNCHANGED vars
  <2>1. released' = released /\ final' = final /\ queue' = queue
    BY <1>1 DEF Saved, Polls, TakesNone, Removed, vars, store, guest
  <2>2. Confirmed' \subseteq Confirmed
    BY <2>1 DEF Confirmed, Segments
  <2> QED
    BY <2>1, <2>2, GuestStepMaps
<1>2. CASE \E s \in Segments : Takes(s)
  <2>1. /\ released' = released /\ final' = final
        /\ \A r \in Segments : queue'[r] = "verified" => queue[r] = "verified"
    BY <1>0, <1>2 DEF Takes, store
  <2>2. Confirmed' \subseteq Confirmed
    BY <2>1 DEF Confirmed, Segments
  <2> QED
    BY <2>1, <2>2, GuestStepMaps
<1>3. CASE GivesUp
  <2>1. /\ released' = released /\ final' = final
        /\ \A r \in Segments : queue'[r] = "verified" => queue[r] = "verified"
    BY <1>0, <1>3 DEF GivesUp, store
  <2>2. Confirmed' \subseteq Confirmed
    BY <2>1 DEF Confirmed, Segments
  <2> QED
    BY <2>1, <2>2, GuestStepMaps
<1>4. CASE Restarts
  <2>1. /\ released' = released /\ final' = final
        /\ \A r \in Segments : queue'[r] = "verified" => r \in files /\ saved[r] = "verified"
    BY <1>4 DEF Restarts, store
  <2>2. Confirmed' \subseteq Confirmed
    BY <2>1 DEF Confirmed, Segments, IInv, QueueTrue
  <2> QED
    BY <2>1, <2>2, GuestStepMaps
<1>5. CASE ReplyRead
  <2>1. released' = released /\ final' = final /\ client.pc = "reply" /\ client.seg \in Segments
    BY <1>5, WaitingSegment DEF ReplyRead, store
  <2>2. CASE Delivered /\ queue' = [queue EXCEPT ![client.seg] = "verified"]
    <3>1. final[client.seg] = Source /\ Source # <<>>
      BY <2>1, <2>2, PrefixWhole DEF Delivered, IInv, Answered
    <3>2. client.seg \in Wholes
      BY <2>1, <3>1 DEF Wholes
    <3>3. Confirmed' = Confirmed \cup {client.seg}
      BY <1>0, <2>1, <2>2 DEF Confirmed, Segments
    <3> QED
      BY <2>1, <3>2, <3>3, GuestStepMaps
  <2>3. CASE queue' = queue \/ queue' = [queue EXCEPT ![client.seg] = "pending"]
    <3>1. \A r \in Segments : queue'[r] = "verified" => queue[r] = "verified"
      BY <1>0, <2>1, <2>3
    <3>2. Confirmed' \subseteq Confirmed
      BY <3>1 DEF Confirmed, Segments
    <3> QED
      BY <2>1, <3>2, GuestStepMaps
  <2> QED
    BY <1>5, <2>2, <2>3 DEF ReplyRead
<1>6. CASE Served
  <2>1. client.pc = "wait" /\ queue' = queue /\ released' = released
    BY <1>6 DEF Served
  <2> PICK o : Serves(client.req, o) /\ Writes(client.req, o)
    BY <1>6 DEF Served
  <2>2. Request(client.req)
    BY <2>1, WaitingSegment
  <2>3. Effect(client.req, o)
    <3>1. CASE o = Outcome(client.req)
      BY <2>2, <3>1, OutcomeEffect, DoneEffect DEF Request, Done
    <3>2. CASE o \in Torn(client.req) /\ client.req.kind = "put" /\ Appends(client.req)
      BY <2>2, <3>2, TornEffect DEF Request, Effect
    <3> QED
      BY <3>1, <3>2 DEF Serves
  <2> QED
    BY <2>1, <2>2, <2>3, HostStepMaps
<1>7. CASE \E q \in late : ServedLate(q)
  <2> PICK q \in late : ServedLate(q)
    BY <1>7
  <2>1. Writes(q, Outcome(q)) /\ queue' = queue /\ released' = released
    BY DEF ServedLate, guest
  <2>2. Request(q)
    BY LateRequest
  <2>3. Effect(q, Outcome(q))
    BY <2>2, OutcomeEffect, DoneEffect DEF Request, Done
  <2> QED
    BY <2>1, <2>2, <2>3, HostStepMaps
<1>8. CASE \E last \in Segments, status \in {"pending", "recovery_only"} : Queued(last, status)
  <2> PICK last \in Segments, status \in {"pending", "recovery_only"} : Queued(last, status)
    BY <1>8
  <2> DEFINE batch == (made + 1)..last
  <2>1. /\ final' = final
        /\ queue' = [s \in Segments |-> IF s \in batch THEN status ELSE queue[s]]
        /\ released' = IF status = "pending" THEN released \cup batch ELSE released
    BY DEF Queued, store
  <2>2. made \in Nat /\ last \in Nat /\ last <= Count
    BY Sizes DEF IInv, TypeOK, Segments
  <2>3. batch \subseteq Segments /\ released \subseteq 1..made /\ \A s \in batch : queue[s] = "absent"
    BY <2>2, Sizes DEF IInv, Numbered, Segments
  <2>4. batch \in SUBSET Segments /\ batch \subseteq Segments \ released
    BY <2>2, <2>3
  <2> HIDE DEF batch
  <2>5. Confirmed' = Confirmed
    BY <1>0, <2>1, <2>3 DEF Confirmed, Segments
  <2>6. Wholes' = Wholes
    BY <2>1 DEF Wholes, Segments
  <2>7. CASE status = "pending"
    <3>1. Delivery!Release(batch)
      BY <2>1, <2>4, <2>5, <2>6, <2>7 DEF Delivery!Release, Wholes, Confirmed
    <3> QED
      BY <2>4, <3>1 DEF Delivery!Next
  <2>8. CASE status = "recovery_only"
    BY <2>1, <2>5, <2>6, <2>8 DEF Delivery!delivery, Wholes, Confirmed
  <2> QED
    BY <2>7, <2>8
<1> QED
  BY <1>1, <1>2, <1>3, <1>4, <1>5, <1>6, <1>7, <1>8 DEF Next, Upload

\* Published at most once and for good, confirmed only after that, and nothing
\* published that was not to be uploaded.
THEOREM Delivers == Spec => DeliversOnce
<1>1. Init => Delivery!Init
  BY DEF Init, Delivery!Init
<1>2. IInv /\ [Next]_vars => [Delivery!Next]_(Delivery!delivery)
  BY StepMaps
<1> QED
  BY <1>1, <1>2, Invariance, PTL DEF Spec, DeliversOnce, Delivery!Spec
=============================================================================
