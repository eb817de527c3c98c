---------------------------- MODULE TakeTransfer ----------------------------
(***************************************************************************)
(* The transfer of a guest's local originals to the host: the durable      *)
(* queue of GuestPeerSession (core/session_transfer_runtime.py), its       *)
(* client and the host's TransferStore (core/session_transfer.py).  Guests *)
(* share nothing in the store, so there is one.                            *)
(*                                                                         *)
(* A segment's bytes are their positions in the source, so that a lost,    *)
(* doubled or misplaced chunk shows.  The store's lock makes a request one *)
(* step; where it fails half-way, by an exception or by the death of a     *)
(* process whose store is opened again, the files are left as they are.    *)
(***************************************************************************)
EXTENDS Naturals, Sequences

CONSTANTS
  Count,    \* segments there may be, numbered as they are queued,
  Size,     \* bytes of each,
  Chunk,    \* bytes of a request, at most, and
  MaxFaults \* a bound: failures that happen

ASSUME TransferAssumption ==
  /\ Count \in Nat /\ MaxFaults \in Nat
  /\ Size \in Nat \ {0} /\ Chunk \in Nat \ {0}

VARIABLES
  part, final, \* the bytes in a segment's .wav.part and .wav; <<>> is no file
  described,   \* segments that have a sidecar
  queue,       \* _pending: the status of each segment
  saved,       \* the same in webjam-transfer-queue.json
  files,       \* segments whose source file exists
  client,      \* the guest's poll: what it is at and the request it waits for
  late,        \* requests it gave up on and the host may still serve
  made,        \* history: segments numbered so far
  released,    \* history: segments that were queued to be uploaded
  faults       \* failures that may still happen

store == <<part, final, described>>
guest == <<queue, saved, files, client>>
vars  == <<store, guest, late, made, released, faults>>

Segments == 1..Count
Source   == [i \in 1..Size |-> i]
Settled  == {"verified", "recovery_only"}

NoRequest == [kind |-> "none", seg |-> 0, offset |-> 0, data |-> <<>>]
NoReply   == [is |-> "failure", received |-> 0]

\* pos is where the source file is read next.
Idle == [pc |-> "idle", seg |-> 0, pos |-> 0, req |-> NoRequest, reply |-> NoReply]

Init ==
  /\ part = [s \in Segments |-> <<>>] /\ final = [s \in Segments |-> <<>>]
  /\ described = {} /\ files = {} /\ late = {} /\ made = 0 /\ released = {}
  /\ queue = [s \in Segments |-> "absent"] /\ saved = queue
  /\ client = Idle
  /\ faults = MaxFaults

Fault == faults > 0 /\ faults' = faults - 1
-----------------------------------------------------------------------------
(* The host: what a request makes of the files of its segment.             *)

Receipt(received, complete) ==
  [is |-> IF complete THEN "complete" ELSE "partial", received |-> received]
Untouched(s, reply) == [part |-> part[s], final |-> final[s], reply |-> reply]

\* TransferStore.status.
Status(s) ==
  IF final[s] = <<>> THEN Receipt(Len(part[s]), FALSE)
  ELSE IF s \notin described THEN Receipt(0, FALSE)
  ELSE Receipt(Len(final[s]), final[s] = Source)

\* A chunk that is there already, byte for byte.
Replayed(q, received) ==
  /\ q.offset + Len(q.data) <= received
  /\ part[q.seg] # <<>>
  /\ SubSeq(part[q.seg], q.offset + 1, q.offset + Len(q.data)) = q.data

\* Mutant: the offset of a chunk is not compared with what is there.
AppendsMutant(q) == Status(q.seg).is = "partial"

Appends(q) ==
  /\ Status(q.seg).is = "partial"
  /\ q.offset = Status(q.seg).received /\ q.offset + Len(q.data) <= Size

Grown(q) == part[q.seg] \o q.data

\* A chunk that completes a segment publishes it if its digest is the source's.
Added(q) ==
  IF Len(Grown(q)) < Size
  THEN [part |-> Grown(q), final |-> final[q.seg], reply |-> Receipt(Len(Grown(q)), FALSE)]
  ELSE IF Grown(q) = Source
  THEN [part |-> <<>>, final |-> Grown(q), reply |-> Receipt(Size, TRUE)]
  ELSE [part |-> Grown(q), final |-> final[q.seg], reply |-> NoReply]

\* TransferStore.append: what is there already is answered like a status.
Put(q) ==
  IF Appends(q) THEN Added(q)
  ELSE Untouched(q.seg, IF Status(q.seg).is = "complete" \/ Replayed(q, Status(q.seg).received)
                        THEN Status(q.seg) ELSE NoReply)

Outcome(q) == IF q.kind = "status" THEN Untouched(q.seg, Status(q.seg)) ELSE Put(q)

\* Mutant: a failing append takes back what was received of the segment.
TornMutant(q) == {[part |-> <<>>, final |-> final[q.seg], reply |-> NoReply]}

\* An append that fails has written any part of its chunk; with the last byte
\* in place it may have published the segment or not.
Torn(q) ==
  {[part |-> part[q.seg] \o SubSeq(q.data, 1, n), final |-> final[q.seg], reply |-> NoReply] :
     n \in 0..Len(q.data)}
  \cup {o \in {[part |-> <<>>, final |-> Grown(q), reply |-> NoReply]} : Grown(q) = Source}

Writes(q, o) ==
  /\ part'  = [part EXCEPT ![q.seg] = o.part]
  /\ final' = [final EXCEPT ![q.seg] = o.final]
  /\ described' = IF q.kind = "put" /\ Appends(q) THEN described \cup {q.seg} ELSE described

\* What serving a request comes to, with or without a failure.
Serves(q, o) ==
  \/ o = Outcome(q) /\ UNCHANGED faults
  \/ q.kind = "put" /\ Appends(q) /\ o \in Torn(q) /\ Fault

Served ==
  /\ client.pc = "wait"
  /\ \E o \in {Outcome(client.req)} \cup (IF client.req.kind = "put" THEN Torn(client.req) ELSE {}) :
       /\ Serves(client.req, o) /\ Writes(client.req, o)
       /\ client' = [client EXCEPT !.pc = "reply", !.reply = o.reply]
  /\ UNCHANGED <<queue, saved, files, late, made, released>>

\* No one waits for the answer any more.
ServedLate(q) ==
  /\ q \in late /\ late' = late \ {q}
  /\ Writes(q, Outcome(q))
  /\ UNCHANGED <<guest, made, released, faults>>
-----------------------------------------------------------------------------
(* The guest.  Its polls, and all that follows, run on one thread.         *)

\* The end of _finalize_capture: the files of a capture are there, and its
\* segments are queued.
Queued(last, status) ==
  /\ client.pc = "idle" /\ made < last
  /\ made' = last /\ files' = files \cup (made + 1)..last
  /\ queue' = [s \in Segments |-> IF s \in (made + 1)..last THEN status ELSE queue[s]]
  /\ released' = IF status = "pending" THEN released \cup (made + 1)..last ELSE released
  /\ client' = [client EXCEPT !.pc = "save"]
  /\ UNCHANGED <<store, saved, late, faults>>

\* _save_queue.
Saved ==
  /\ client.pc = "save"
  /\ saved' = queue /\ client' = Idle
  /\ UNCHANGED <<store, queue, files, late, made, released, faults>>

\* _upload_pending takes the segments in their order.
Polls ==
  /\ client.pc = "idle"
  /\ client' = [client EXCEPT !.pc = "next"]
  /\ UNCHANGED <<store, queue, saved, files, late, made, released, faults>>

\* Mutant: a segment kept for recovery is uploaded like any other.
UnsettledMutant(s) == s > client.seg /\ queue[s] \notin {"verified", "absent"}

Unsettled(s) == s > client.seg /\ queue[s] \notin Settled \cup {"absent"}

Asks(s) == [Idle EXCEPT !.pc = "wait", !.seg = s, !.req = [NoRequest EXCEPT !.kind = "status", !.seg = s]]

Takes(s) ==
  /\ client.pc = "next" /\ Unsettled(s) /\ \A r \in Segments : r < s => ~Unsettled(r)
  /\ IF s \in files THEN client' = Asks(s) /\ UNCHANGED queue
     ELSE /\ queue' = [queue EXCEPT ![s] = "missing_local_original"]
          /\ client' = [client EXCEPT !.seg = s]
  /\ UNCHANGED <<store, saved, files, late, made, released, faults>>

TakesNone ==
  /\ client.pc = "next" /\ \A s \in Segments : ~Unsettled(s)
  /\ client' = [client EXCEPT !.pc = "save"]
  /\ UNCHANGED <<store, queue, saved, files, late, made, released, faults>>

\* upload_file sends what comes next in the source as the bytes from offset.
Least(m, n) == IF m <= n THEN m ELSE n

Sends(pos, offset) ==
  LET size == Least(Chunk, Size - offset)
  IN [client EXCEPT !.pc = "wait", !.pos = pos + size, !.reply = NoReply,
                    !.req = [kind |-> "put", seg |-> client.seg, offset |-> offset,
                             data |-> SubSeq(Source, pos + 1, pos + size)]]

\* Mutant: all bytes sent is taken for delivered.
DeliveredMutant == client.reply.is = "complete" \/ client.reply.received >= Size

\* Mutant: only the answer to a chunk counts.
DeliveredLateMutant == client.reply.is = "complete" /\ client.req.kind = "put"

Delivered == client.reply.is = "complete"

\* The host has more than before, and the source has more to send.
Goes == /\ client.reply.is = "partial" /\ client.reply.received < Size
        /\ client.req.kind = "put" => client.reply.received > client.req.offset

ReplyRead ==
  /\ client.pc = "reply"
  /\ \/ /\ Goes
        /\ client' = Sends(IF client.req.kind = "put" THEN client.pos ELSE client.reply.received,
                           client.reply.received)
        /\ UNCHANGED queue
     \/ /\ Delivered
        /\ queue' = [queue EXCEPT ![client.seg] = "verified"]
        /\ client' = [Idle EXCEPT !.pc = "next", !.seg = client.seg]
     \/ /\ ~Goes /\ ~Delivered  \* the segments after this one have to wait
        /\ queue' = [queue EXCEPT ![client.seg] = "pending"]
        /\ client' = [client EXCEPT !.pc = "save"]
  /\ UNCHANGED <<store, saved, files, late, made, released, faults>>

\* The request or its answer is lost, or slow.
GivesUp ==
  /\ client.pc \in {"wait", "reply"} /\ Fault
  /\ late' \in {late} \cup (IF client.pc = "wait" THEN {late \cup {client.req}} ELSE {})
  /\ queue' = [queue EXCEPT ![client.seg] = "pending"]
  /\ client' = [client EXCEPT !.pc = "save"]
  /\ UNCHANGED <<store, saved, files, made, released>>

\* _load_queue in a new process.
Restarts ==
  /\ Fault
  /\ late' \in {late} \cup (IF client.pc = "wait" THEN {late \cup {client.req}} ELSE {})
  /\ queue' = [s \in Segments |-> IF saved[s] # "absent" /\ s \notin files
                                  THEN "missing_local_original" ELSE saved[s]]
  /\ client' = Idle
  /\ UNCHANGED <<store, saved, files, made, released>>

\* Someone deletes a local original.
Removed(s) ==
  /\ s \in files /\ Fault /\ files' = files \ {s}
  /\ UNCHANGED <<store, queue, saved, client, late, made, released>>
-----------------------------------------------------------------------------
Upload == Saved \/ Polls \/ (\E s \in Segments : Takes(s)) \/ TakesNone \/ ReplyRead

Next ==
  \/ Upload \/ Served \/ GivesUp \/ Restarts
  \/ \E q \in late : ServedLate(q)
  \/ \E last \in Segments, status \in {"pending", "recovery_only"} : Queued(last, status)
  \/ \E s \in Segments : Removed(s)

Spec == Init /\ [][Next]_vars

\* The poll thread runs and the host answers, once the network lets it.
FairSpec == Spec /\ WF_vars(Upload) /\ WF_vars(Served)
-----------------------------------------------------------------------------
Statuses == {"absent", "pending", "missing_local_original"} \cup Settled

Bytes    == Seq(1..Size)
Requests == [kind : {"none", "status", "put"}, seg : 0..Count, offset : 0..Size, data : Bytes]
Replies  == [is : {"failure", "partial", "complete"}, received : 0..Size]
Clients  == [pc : {"idle", "next", "wait", "reply", "save"}, seg : 0..Count, pos : 0..Size,
             req : Requests, reply : Replies]

TypeOK ==
  /\ part \in [Segments -> Bytes] /\ final \in [Segments -> Bytes]
  /\ \A s \in Segments : Len(part[s]) <= Size /\ Len(final[s]) <= Size
  /\ described \subseteq Segments /\ files \subseteq Segments /\ released \subseteq Segments
  /\ queue \in [Segments -> Statuses] /\ saved \in [Segments -> Statuses]
  /\ client \in Clients /\ late \subseteq Requests
  /\ made \in 0..Count /\ faults \in 0..MaxFaults

\* What the host has of a segment is how its source begins, whatever was lost,
\* repeated, late or torn, so that an upload can be resumed at its length and
\* its last byte makes it whole (session_transfer.py:4269).
Begins(bytes) == bytes = SubSeq(Source, 1, Len(bytes))

PartsBegin ==
  \A s \in Segments : Begins(part[s]) /\ final[s] \in {<<>>, Source}

\* The host still has every byte it has acknowledged to the client that goes
\* on from there, and the file handle that the client never moves back is at
\* the offset it sends (session_transfer.py:5515).
AckedKept ==
  client.pc \in {"wait", "reply"} /\ client.req.kind = "put" =>
    /\ client.req.offset <= Status(client.seg).received
    /\ client.pos = client.req.offset + Len(client.req.data)

\* A segment that its guest holds for verified is published whole, also after
\* either has been started again (session_transfer_runtime.py:3900).
VerifiedPublished == \A s \in Segments : queue[s] = "verified" => final[s] = Source

\* It is what SegmentDelivery promises: published at most once, confirmed after
\* that, and nothing published that was kept for recovery only.
Delivery == INSTANCE SegmentDelivery WITH
  published <- {s \in Segments : final[s] # <<>>},
  confirmed <- {s \in Segments : queue[s] = "verified"}

DeliversOnce == Delivery!Spec

\* A queued segment is delivered, or found missing, once failures end: unless
\* it, or one before it, was left with all its bytes and not published.
Stuck(s) == Len(part[s]) = Size

Settles ==
  \A s \in Segments :
    queue[s] = "pending" ~> queue[s] # "pending" \/ \E r \in 1..s : Stuck(r)

\* The same without an exception: the store recovers from a crash, and a retry
\* publishes the segment (session_transfer.py:4167).
Recovers == \A s \in Segments : queue[s] = "pending" ~> queue[s] # "pending"
-----------------------------------------------------------------------------
(* Why the above holds: what is true of every request, whenever it is      *)
(* served.                                                                 *)

\* What the host has of a segment, and the piece a client sends from there.
Have(s)       == IF final[s] = <<>> THEN Len(part[s]) ELSE Size
After(offset) == offset + Least(Chunk, Size - offset)
Piece(offset) == SubSeq(Source, offset + 1, After(offset))

\* A piece is sent only at an offset the host had reached.
IsPiece(q) ==
  q.kind = "put" => /\ q.seg \in Segments /\ q.offset <= Have(q.seg)
                    /\ q.offset < Size /\ q.data = Piece(q.offset)

SentPieces ==
  /\ IsPiece(client.req)
  /\ \A q \in late : IsPiece(q) /\ q.kind # "none" /\ q.seg \in released

\* Where the client may go on: a late request has at most added the piece
\* that the client sends next.
GoesOnAt(offset) ==
  /\ Have(client.seg) \in {offset, After(offset)}
  /\ \A q \in late : q.kind = "put" /\ q.seg = client.seg => q.offset <= offset

Awaited ==
  client.pc \in {"wait", "reply"} =>
    /\ client.seg \in released /\ client.req.seg = client.seg
    /\ client.req.kind # "none" /\ queue[client.seg] \notin Settled \cup {"absent"}
    /\ client.req.kind = "put" => /\ client.pos = After(client.req.offset)
                                  /\ client.pc = "wait" => GoesOnAt(client.req.offset)

Answered ==
  client.pc = "reply" =>
    /\ client.reply.is = "complete" => final[client.seg] = Source
    /\ client.reply.is = "partial" =>
         /\ GoesOnAt(client.reply.received)
         /\ client.req.kind = "put" => client.reply.received = client.pos

Whole == \A s \in Segments : final[s] # <<>> => s \in described /\ part[s] = <<>> /\ s \in released

Numbered ==
  /\ released \subseteq 1..made /\ files \subseteq 1..made
  /\ \A s \in Segments : s > made => queue[s] = "absent" /\ saved[s] = "absent"

\* What either queue says of a segment whose file is there.
QueueTrue ==
  \A s \in Segments :
    /\ queue[s] = "verified" \/ saved[s] = "verified" => final[s] = Source
    /\ s \in files => /\ queue[s] \in {"absent", "recovery_only"} \/ s \in released
                      /\ saved[s] \in {"absent", "recovery_only"} \/ s \in released
                      /\ saved[s] = "verified" => queue[s] = "verified"

\* The inductive invariant: a request, however late, carries the bytes of the
\* source from where its host had come, and what the client takes from an
\* answer is still true when it acts on it (session_transfer.py:5515).
IInv ==
  /\ TypeOK /\ PartsBegin /\ Whole /\ SentPieces /\ Awaited /\ Answered
  /\ Numbered /\ QueueTrue
=============================================================================
