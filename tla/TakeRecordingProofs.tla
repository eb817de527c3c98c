------------------------- MODULE TakeRecordingProofs ------------------------
(***************************************************************************)
(* The coordinator's theorems.  The invariant is proved in three parts:    *)
(* the room, which is the control state with the guests and the            *)
(* acknowledgements that follow it; the host's own bookkeeping; and, on    *)
(* top of both, what keeps the audio the recorder was started for.         *)
(***************************************************************************)
EXTENDS TakeRecording, FiniteSetTheorems, SequenceTheorems, TLAPS

(***************************************************************************)
(* What a guest makes of a state it has read from the host, for any state  *)
(* of both: it stays well-formed, and only the audio of the cancelled take *)
(* can be missing afterwards.                                              *)
(***************************************************************************)

Proper(arm) == arm.take = NoTake => arm = NoArm

WellFormed(r) == r \in GuestStates /\ Holds(r) /\ Proper(r.arm)

\* q comes from r without losing audio.
Keeps(r, q) ==
  /\ WellFormed(q) /\ q.seen = r.seen /\ q.dropped = r.dropped
  /\ Has(r) \ {NoTake} \subseteq Has(q)
  /\ q.arm \in {NoArm, r.arm}

\* q comes from r under a state s that may cancel the arm of r.
Follows(r, s, q) ==
  /\ WellFormed(q) /\ q.seen = r.seen
  /\ Has(r) \ {NoTake, s.cancel.take} \subseteq Has(q)
  /\ q.dropped \subseteq r.dropped \cup ({s.cancel.take} \ {NoTake})
  /\ q.arm \in {NoArm, r.arm, s.arm}

LEMMA ArmTypes ==
  /\ NoTake = 0 /\ NoArm = [take |-> 0, gen |-> 0]
  /\ Takes \subseteq Nat \ {0} /\ NoArm \in Arms
  /\ \A arm \in Arms : arm.take \in {NoTake} \cup Takes /\ arm.take \in Nat
<1>1. MaxTakes \in Nat
  BY RecordingAssumption DEF RecordingAssumption
<1> QED
  BY <1>1 DEF NoTake, NoArm, Takes, Arms

LEMMA GuestFields ==
  ASSUME NEW r \in GuestStates
  PROVE  /\ r.pc \in {"idle", "apply", "ack"} /\ r.seen \in Snapshots /\ r.cap \in {NoTake} \cup Takes
         /\ r.arm \in Arms /\ r.bound \in Arms /\ r.stuck \in BOOLEAN
         /\ r.kept \in SUBSET Takes /\ r.dropped \in SUBSET Takes
  BY DEF GuestStates

LEMMA KeepsSelf ==
  ASSUME NEW r, WellFormed(r)
  PROVE  Keeps(r, r)
  BY DEF Keeps

LEMMA KeepsTwice ==
  ASSUME NEW r, NEW p, NEW q, Keeps(r, p), Keeps(p, q)
  PROVE  Keeps(r, q)
  BY DEF Keeps

\* Closing a capture keeps it.
LEMMA FinalizeKeeps ==
  ASSUME NEW r, WellFormed(r), NEW q \in Finalize(r)
  PROVE  Keeps(r, q)
<1>1. CASE r.stuck \/ r.cap = NoTake
  BY <1>1, KeepsSelf DEF Finalize
<1>2. CASE ~r.stuck /\ r.cap # NoTake
  <2>1. r \in GuestStates /\ r.cap \in Takes
    BY <1>2 DEF WellFormed, GuestStates
  <2>2. CASE q = [Idled(r) EXCEPT !.kept = @ \cup {r.cap}]
    <3>1. q = [r EXCEPT !.cap = NoTake, !.arm = NoArm, !.bound = NoArm, !.kept = r.kept \cup {r.cap}]
      BY <2>1, <2>2 DEF Idled, GuestStates
    <3>2. /\ q \in GuestStates /\ q.seen = r.seen /\ q.arm = NoArm
          /\ q.kept = r.kept \cup {r.cap} /\ q.dropped = r.dropped
      BY <2>1, <3>1, ArmTypes DEF GuestStates
    <3> QED
      BY <3>2 DEF Keeps, WellFormed, Holds, Has, Proper
  <2>3. CASE q = [r EXCEPT !.stuck = TRUE]
    <3>1. /\ q \in GuestStates /\ q.seen = r.seen /\ q.arm = r.arm
          /\ q.kept = r.kept /\ q.cap = r.cap /\ q.dropped = r.dropped
      BY <2>1, <2>3 DEF GuestStates
    <3> QED
      BY <3>1 DEF Keeps, WellFormed, Holds, Has
  <2> QED
    BY <1>2, <2>2, <2>3 DEF Finalize
<1> QED
  BY <1>1, <1>2

\* Opening a capture closes the one of another take first.
LEMMA StartKeeps ==
  ASSUME NEW r, WellFormed(r), NEW t \in Takes, NEW q \in Start(r, t)
  PROVE  Keeps(r, q)
<1>1. CASE r.cap = t
  BY <1>1, KeepsSelf DEF Start
<1>2. CASE r.cap # t
  <2>1. PICK p \in Finalize(r) : q \in IF p.cap = NoTake THEN Open(p, t) ELSE {p}
    BY <1>2 DEF Start
  <2>2. Keeps(r, p) /\ WellFormed(p)
    BY <2>1, FinalizeKeeps DEF Keeps
  <2>3. CASE q = p
    BY <2>2, <2>3
  <2>4. CASE p.cap = NoTake /\ q = [p EXCEPT !.cap = t]
    <3>1. p \in GuestStates /\ p.arm = NoArm
      BY <2>2, <2>4 DEF WellFormed, Holds, Proper
    <3>2. /\ q \in GuestStates /\ q.seen = p.seen /\ q.arm = p.arm /\ q.kept = p.kept /\ q.cap = t
          /\ q.dropped = p.dropped
      BY <2>4, <3>1 DEF GuestStates
    <3>3. Keeps(p, q)
      BY <2>4, <3>1, <3>2 DEF Keeps, WellFormed, Holds, Has, Proper
    <3> QED
      BY <2>2, <3>3, KeepsTwice
  <2> QED
    BY <2>1, <2>3, <2>4 DEF Open
<1> QED
  BY <1>1, <1>2

LEMMA Forgotten ==
  ASSUME NEW r, WellFormed(r), NEW q, q = [r EXCEPT !.arm = NoArm, !.bound = NoArm]
  PROVE  Keeps(r, q)
<1>1. r \in GuestStates
  BY DEF WellFormed
<1>2. /\ q \in GuestStates /\ q.seen = r.seen /\ q.arm = NoArm /\ q.kept = r.kept /\ q.cap = r.cap
      /\ q.dropped = r.dropped
  BY <1>1, ArmTypes DEF GuestStates
<1> QED
  BY <1>2 DEF Keeps, WellFormed, Holds, Has, Proper

\* Only the open capture is discarded.
LEMMA DiscardLoses ==
  ASSUME NEW r, WellFormed(r), NEW q \in Discard(r)
  PROVE  /\ WellFormed(q) /\ q.seen = r.seen /\ q.arm \in {NoArm, r.arm}
         /\ Has(r) \ {NoTake, r.cap} \subseteq Has(q)
         /\ q.dropped \subseteq r.dropped \cup ({r.cap} \ {NoTake})
<1>0. r \in GuestStates
  BY DEF WellFormed
<1>1. CASE r.stuck
  BY <1>1 DEF Discard
<1>2. CASE ~r.stuck
  <2>1. q = [Idled(r) EXCEPT !.dropped = @ \cup ({r.cap} \ {NoTake})]
    BY <1>2 DEF Discard
  <2>2. q = [r EXCEPT !.cap = NoTake, !.arm = NoArm, !.bound = NoArm,
                      !.dropped = r.dropped \cup ({r.cap} \ {NoTake})]
    BY <1>0, <2>1 DEF Idled, GuestStates
  <2>3. /\ q \in GuestStates /\ q.seen = r.seen /\ q.arm = NoArm /\ q.kept = r.kept
        /\ q.dropped = r.dropped \cup ({r.cap} \ {NoTake})
    BY <1>0, <2>2, ArmTypes DEF GuestStates
  <2> QED
    BY <2>3 DEF WellFormed, Holds, Has, Proper
<1> QED
  BY <1>1, <1>2

LEMMA KeepsFollows ==
  ASSUME NEW r, NEW s, NEW q, Keeps(r, q)
  PROVE  Follows(r, s, q)
  BY DEF Keeps, Follows

\* The audio that a guest with an arm loses is that of the exact arm the host
\* says it has canceled.
LEMMA LeaveFollows ==
  ASSUME NEW r, WellFormed(r), r.arm # NoArm, NEW s, NEW whenCommitted,
         \A q \in whenCommitted : Keeps(r, q), NEW q \in Leave(r, s, whenCommitted)
  PROVE  Follows(r, s, q)
<1>1. CASE HostCommitted(r, s)
  <2>1. Leave(r, s, whenCommitted) = whenCommitted
    BY <1>1 DEF Leave
  <2> QED
    BY <2>1, KeepsFollows
<1>2. CASE ~HostCommitted(r, s) /\ ExactCancel(r, s)
  <2>1. Leave(r, s, whenCommitted) = Discard(r)
    BY <1>2 DEF Leave
  <2>2. s.cancel = r.arm /\ r.cap = r.arm.take
    BY <1>2 DEF ExactCancel, WellFormed, Holds
  <2> QED
    BY <2>1, <2>2, DiscardLoses DEF Follows
<1>3. CASE ~HostCommitted(r, s) /\ ~ExactCancel(r, s)
  <2>1. Leave(r, s, whenCommitted) = Finalize(r)
    BY <1>3 DEF Leave
  <2> QED
    BY <2>1, FinalizeKeeps, KeepsFollows
<1> QED
  BY <1>1, <1>2, <1>3

\* An arm is held only with its capture open.
LEMMA OpenedFollows ==
  ASSUME NEW r, NEW s \in Snapshots, Proper(s.arm), NEW p, Follows(r, s, p), NEW q \in Opened(p, s.arm)
  PROVE  Follows(r, s, q)
<1>0. p \in GuestStates /\ s.arm \in Arms
  BY DEF Follows, WellFormed, Snapshots
<1>1. CASE p.cap # s.arm.take
  <2>1. q = [p EXCEPT !.pc = "idle"]
    BY <1>1 DEF Opened
  <2>2. /\ q \in GuestStates /\ q.seen = p.seen /\ q.arm = p.arm /\ q.cap = p.cap /\ q.kept = p.kept
        /\ q.dropped = p.dropped
    BY <1>0, <2>1 DEF GuestStates
  <2> QED
    BY <2>2 DEF Follows, WellFormed, Holds, Has, Proper
<1>2. CASE p.cap = s.arm.take
  <2>1. q = [p EXCEPT !.arm = s.arm, !.pc = IF p.bound = s.arm THEN "idle" ELSE "ack"]
    BY <1>2 DEF Opened
  <2>2. /\ q \in GuestStates /\ q.seen = p.seen /\ q.arm = s.arm /\ q.cap = p.cap /\ q.kept = p.kept
        /\ q.dropped = p.dropped
    BY <1>0, <2>1 DEF GuestStates
  <2> QED
    BY <1>2, <2>2 DEF Follows, WellFormed, Holds, Has, Proper
<1> QED
  BY <1>1, <1>2

LEMMA FollowsKeeps ==
  ASSUME NEW r, NEW s, NEW p, NEW q, Follows(r, s, p), Keeps(p, q)
  PROVE  Follows(r, s, q)
  BY DEF Follows, Keeps

LEMMA ArmFollows ==
  ASSUME NEW r, WellFormed(r), NEW s \in Snapshots, Proper(s.arm), NEW q \in ApplyArm(r, s)
  PROVE  Follows(r, s, q)
<1>1. CASE s.arm = NoArm /\ r.arm = NoArm
  BY <1>1, KeepsSelf, KeepsFollows DEF ApplyArm
<1>2. CASE s.arm = NoArm /\ r.arm # NoArm
  <2>1. q \in Leave(r, s, {[r EXCEPT !.arm = NoArm, !.bound = NoArm]})
    BY <1>2 DEF ApplyArm
  <2>2. \A p \in {[r EXCEPT !.arm = NoArm, !.bound = NoArm]} : Keeps(r, p)
    BY Forgotten
  <2> QED
    BY <1>2, <2>1, <2>2, LeaveFollows
<1>3. CASE s.arm # NoArm
  <2> DEFINE left == IF r.arm \in {NoArm, s.arm} THEN {r} ELSE Leave(r, s, Finalize(r))
  <2>1. q \in left \cup UNION {UNION {Opened(u, s.arm) : u \in Start(p, s.arm.take)} : p \in left}
    BY <1>3 DEF ApplyArm
  <2>2. ASSUME NEW p \in left PROVE Follows(r, s, p)
    <3>1. CASE r.arm \in {NoArm, s.arm}
      BY <3>1, KeepsSelf, KeepsFollows
    <3>2. CASE r.arm \notin {NoArm, s.arm}
      <4>1. p \in Leave(r, s, Finalize(r)) /\ \A u \in Finalize(r) : Keeps(r, u)
        BY <3>2, FinalizeKeeps
      <4> QED
        BY <3>2, <4>1, LeaveFollows
    <3> QED
      BY <3>1, <3>2
  <2> HIDE DEF left
  <2>3. CASE q \in left
    BY <2>2, <2>3
  <2>4. ASSUME NEW p \in left, NEW u \in Start(p, s.arm.take), q \in Opened(u, s.arm)
        PROVE  Follows(r, s, q)
    <3>1. Follows(r, s, p) /\ WellFormed(p)
      BY <2>2 DEF Follows
    <3>2. s.arm.take \in Takes
      BY <1>3, ArmTypes DEF Snapshots, Proper
    <3>3. Keeps(p, u)
      BY <2>4, <3>1, <3>2, StartKeeps
    <3>4. Follows(r, s, u)
      BY <3>1, <3>3, FollowsKeeps
    <3> QED
      BY <2>4, <3>4, OpenedFollows
  <2> QED
    BY <2>1, <2>3, <2>4
<1> QED
  BY <1>1, <1>2, <1>3

\* The whole of poll_once.
LEMMA ApplyFollows ==
  ASSUME NEW r, WellFormed(r), NEW s \in Snapshots, Proper(s.arm), NEW q \in Apply(r, s)
  PROVE  /\ WellFormed(q) /\ q.seen = NewGuest.seen
         /\ Has(r) \ {NoTake, s.cancel.take} \subseteq Has(q)
         /\ q.dropped \subseteq r.dropped \cup ({s.cancel.take} \ {NoTake})
         /\ q.arm \in {NoArm, r.arm, s.arm}
<1> DEFINE r0 == [r EXCEPT !.pc = "idle", !.seen = NewGuest.seen]
<1>1. r \in GuestStates /\ NewGuest.seen \in Snapshots
  BY ArmTypes DEF WellFormed, NewGuest, Snapshots, Signals, Stopped
<1>2. /\ r0 \in GuestStates /\ r0.seen = NewGuest.seen /\ r0.arm = r.arm /\ r0.cap = r.cap
      /\ r0.kept = r.kept /\ r0.dropped = r.dropped
  BY <1>1 DEF GuestStates
<1>3. WellFormed(r0)
  BY <1>2 DEF WellFormed, Holds, Proper
<1>4. PICK p \in ApplyArm(r0, s) : q \in ApplySignal(p, s)
  BY DEF Apply
<1> HIDE DEF r0
<1>5. Follows(r0, s, p)
  BY <1>3, <1>4, ArmFollows
<1>6. Keeps(p, q)
  <2>1. WellFormed(p)
    BY <1>5 DEF Follows
  <2> QED
    BY <1>4, <2>1, FinalizeKeeps, KeepsSelf DEF ApplySignal
<1>7. Follows(r0, s, q)
  BY <1>5, <1>6, FollowsKeeps
<1> QED
  BY <1>2, <1>7 DEF Follows, Has

LEMMA LeavingKeeps ==
  ASSUME NEW r, WellFormed(r), NEW q \in Leaving(r)
  PROVE  Keeps(r, q)
  BY FinalizeKeeps DEF Leaving

\* A new process is a guest in its right state, and so is a guest whose kept and
\* discarded takes are replaced.
LEMMA NewGuestTyped ==
  NewGuest \in GuestStates
<1>1. PICK s : s = [signal |-> "idle", take |-> NoTake, cancel |-> NoArm, arm |-> NoArm]
  OBVIOUS
<1>2. s \in Snapshots /\ NoArm \in Arms
  BY <1>1, ArmTypes DEF Snapshots, Signals, Stopped
<1>3. NewGuest = [pc |-> "idle", seen |-> s, cap |-> NoTake, arm |-> NoArm, bound |-> NoArm,
                  stuck |-> FALSE, kept |-> {}, dropped |-> {}]
  BY <1>1, Zenon DEF NewGuest
<1> QED
  BY ONLY <1>2, <1>3 DEF GuestStates

LEMMA WithAudio ==
  ASSUME NEW q \in GuestStates, NEW k \in SUBSET Takes, NEW d \in SUBSET Takes
  PROVE  [q EXCEPT !.kept = k, !.dropped = d] \in GuestStates
  BY DEF GuestStates

\* A new process has what the old one had, its open capture set aside.
LEMMA RestartedHas ==
  ASSUME NEW r, WellFormed(r)
  PROVE  /\ WellFormed(Restarted(r)) /\ Restarted(r).arm = NoArm
         /\ Restarted(r).seen = NewGuest.seen /\ Restarted(r).dropped = r.dropped
         /\ Has(r) \ {NoTake} \subseteq Has(Restarted(r))
<1>1. /\ NewGuest.seen \in Snapshots
      /\ r.kept \in SUBSET Takes /\ r.cap \in {NoTake} \cup Takes /\ r.dropped \in SUBSET Takes
  <2>1. NewGuest.seen \in Snapshots
    BY ArmTypes DEF NewGuest, Snapshots, Signals, Stopped
  <2> QED
    BY <2>1, GuestFields DEF WellFormed
<1>2. /\ Restarted(r).kept = r.kept \cup ({r.cap} \ {NoTake}) /\ Restarted(r).arm = NoArm
      /\ Restarted(r).seen = NewGuest.seen /\ Restarted(r).dropped = r.dropped
  BY DEF Restarted, NewGuest
<1>3. Restarted(r) \in GuestStates
  <2>1. PICK k \in SUBSET Takes : k = r.kept \cup ({r.cap} \ {NoTake})
    BY <1>1
  <2>2. [NewGuest EXCEPT !.kept = k, !.dropped = r.dropped] \in GuestStates
    BY <1>1, NewGuestTyped, WithAudio, Zenon
  <2>3. PICK q : q = [NewGuest EXCEPT !.kept = k, !.dropped = r.dropped]
    OBVIOUS
  <2>4. q \in GuestStates
    BY ONLY <2>2, <2>3, Zenon
  <2>5. Restarted(r) = q
    BY ONLY <2>1, <2>3, Zenon DEF Restarted
  <2> QED
    BY <2>4, <2>5, Zenon
<1> QED
  BY <1>2, <1>3 DEF WellFormed, Holds, Has, Proper
-----------------------------------------------------------------------------
(* The room and the host.                                                  *)

Controls ==
  [signal : Signals, take : {NoTake} \cup Takes, arm : Arms, cancel : Arms,
   gen : 0..MaxTakes, required : SUBSET Guests, acks : SUBSET Guests]

\* After n takes; c is a control state, q a guest, a an acknowledgement.
Known(arm, n) == arm.take <= n /\ Proper(arm)

ControlOK(c, n) ==
  /\ c \in Controls /\ c.take <= n /\ c.gen <= n /\ Known(c.arm, n) /\ Known(c.cancel, n)
  /\ c.arm # NoArm => c.take < c.arm.take
  /\ c.cancel # NoArm => c.arm.take # c.cancel.take
  /\ c.arm = NoArm => c.acks = {}

GuestOK(c, q, n) ==
  /\ WellFormed(q) /\ Known(q.arm, n) /\ Known(q.seen.arm, n) /\ Known(q.seen.cancel, n)
  /\ q.seen.cancel # NoArm => c.arm.take # q.seen.cancel.take

AckOK(c, a, gs, n) ==
  /\ a \in [guest : Guests, arm : Arms] /\ Known(a.arm, n)
  /\ a.arm # NoArm => a.arm.take \in Has(gs[a.guest]) \/ c.arm.take # a.arm.take

RoomOK(c, as, gs, ws, n) ==
  /\ n \in Nat /\ n <= MaxTakes
  /\ ControlOK(c, n)
  /\ gs \in [Guests -> GuestStates] /\ \A g \in Guests : GuestOK(c, gs[g], n)
  /\ \A a \in as : AckOK(c, a, gs, n)
  /\ \A w \in ws : w \in Arms /\ Known(w, n) /\ w # NoArm
  /\ \A g \in c.acks : c.arm.take \in Has(gs[g])

\* What a publication may do to the control state c, while the takes go from
\* n to m.
Forward(c, d) == d.take > c.take \/ (d.take = c.take /\ Rank[d.signal] >= Rank[c.signal])

Told(c, d, n, m) ==
  /\ ControlOK(d, m) /\ Forward(c, d)
  /\ d.acks # {} => d.acks \subseteq c.acks /\ d.arm = c.arm
  /\ d.arm \in {c.arm, NoArm} \/ d.arm.take > n

LEMMA ControlFields ==
  ASSUME NEW c \in Controls
  PROVE  /\ c.signal \in Signals /\ c.take \in {NoTake} \cup Takes /\ c.take \in Nat
         /\ c.arm \in Arms /\ c.cancel \in Arms /\ c.gen \in Nat /\ c.gen <= MaxTakes
         /\ c.required \subseteq Guests /\ c.acks \subseteq Guests
<1>1. MaxTakes \in Nat
  BY RecordingAssumption DEF RecordingAssumption
<1>2. /\ c.signal \in Signals /\ c.take \in {NoTake} \cup Takes /\ c.arm \in Arms /\ c.cancel \in Arms
      /\ c.gen \in 0..MaxTakes /\ c.required \in SUBSET Guests /\ c.acks \in SUBSET Guests
  BY DEF Controls
<1>3. c.take \in Nat
  BY <1>2, ArmTypes
<1>4. c.gen \in Nat /\ c.gen <= MaxTakes
  BY <1>1, <1>2
<1> QED
  BY <1>2, <1>3, <1>4

LEMMA RoomTold ==
  ASSUME NEW c, NEW d, NEW as, NEW gs, NEW ws, NEW vs, NEW n, NEW m \in Nat,
         RoomOK(c, as, gs, ws, n), Told(c, d, n, m), n <= m, m <= MaxTakes,
         \A v \in vs : v \in ws \/ (v = d.arm /\ v # NoArm)
  PROVE  RoomOK(d, as, gs, vs, m)
<1>1. n \in Nat /\ MaxTakes \in Nat /\ c \in Controls /\ d \in Controls /\ ControlOK(d, m)
  BY RecordingAssumption DEF RoomOK, Told, ControlOK, RecordingAssumption
<1>2. ASSUME NEW arm \in Arms, Known(arm, n) PROVE Known(arm, m)
  BY <1>1, <1>2, ArmTypes DEF Known
<1>3. ASSUME NEW arm \in Arms, Known(arm, n), arm # NoArm, c.arm.take # arm.take
      PROVE  d.arm.take # arm.take
  <2>1. CASE d.arm = c.arm
    BY <1>3, <2>1
  <2>2. CASE d.arm = NoArm
    BY <1>3, <2>2, ArmTypes DEF Known, Proper
  <2>3. CASE d.arm.take > n
    BY <1>1, <1>3, <2>3, ArmTypes, ControlFields DEF Known
  <2> QED
    BY <2>1, <2>2, <2>3 DEF Told
<1>4. ASSUME NEW arm \in Arms, Known(arm, n), arm # NoArm, arm.take > n
      PROVE  FALSE
  BY <1>1, <1>4, ArmTypes DEF Known
<1>5. ASSUME NEW g \in Guests PROVE GuestOK(d, gs[g], m)
  <2>1. GuestOK(c, gs[g], n) /\ gs[g] \in GuestStates
    BY DEF RoomOK
  <2>2. gs[g].arm \in Arms /\ gs[g].seen.arm \in Arms /\ gs[g].seen.cancel \in Arms
    BY <2>1 DEF GuestStates, Snapshots
  <2> QED
    BY <1>2, <1>3, <2>1, <2>2 DEF GuestOK
<1>6. ASSUME NEW a \in as PROVE AckOK(d, a, gs, m)
  <2>1. AckOK(c, a, gs, n)
    BY DEF RoomOK
  <2>2. a.arm \in Arms
    BY <2>1 DEF AckOK
  <2> QED
    BY <1>2, <1>3, <2>1, <2>2 DEF AckOK
<1>7. ASSUME NEW w \in vs PROVE w \in Arms /\ Known(w, m) /\ w # NoArm
  <2>1. CASE w \in ws
    BY <1>2, <2>1 DEF RoomOK
  <2>2. CASE w = d.arm /\ w # NoArm
    BY <1>1, <2>2, ControlFields DEF ControlOK
  <2> QED
    BY <2>1, <2>2
<1>8. ASSUME NEW g \in d.acks PROVE d.arm.take \in Has(gs[g])
  BY <1>8 DEF RoomOK, Told
<1> QED
  BY <1>1, <1>5, <1>6, <1>7, <1>8 DEF RoomOK

\* A guest that only loses the audio of a take that is not armed.
LEMMA RoomGuest ==
  ASSUME NEW c, NEW as, NEW gs, NEW ws, NEW n, RoomOK(c, as, gs, ws, n),
         NEW g \in Guests, NEW q, GuestOK(c, q, n), NEW x,
         Has(gs[g]) \ {NoTake, x} \subseteq Has(q), x = NoTake \/ x # c.arm.take,
         NEW bs, \A b \in bs : b \in as \/ b = [guest |-> g, arm |-> q.arm]
  PROVE  RoomOK(c, bs, [gs EXCEPT ![g] = q], ws, n)
<1> DEFINE hs == [gs EXCEPT ![g] = q]
<1>1. q \in GuestStates /\ gs \in [Guests -> GuestStates] /\ c \in Controls
  BY DEF GuestOK, WellFormed, RoomOK, ControlOK
<1>2. hs \in [Guests -> GuestStates] /\ hs[g] = q /\ \A h \in Guests \ {g} : hs[h] = gs[h]
  BY <1>1
<1> HIDE DEF hs
<1>3. ASSUME NEW h \in Guests, NEW t, t # NoTake, t # x, t \in Has(gs[h]) PROVE t \in Has(hs[h])
  BY <1>2, <1>3
<1>4. ASSUME NEW a \in as PROVE AckOK(c, a, hs, n)
  <2>1. AckOK(c, a, gs, n)
    BY DEF RoomOK
  <2>2. a.guest \in Guests /\ a.arm \in Arms /\ (a.arm # NoArm => a.arm.take # NoTake)
    BY <2>1 DEF AckOK, Known, Proper
  <2> QED
    BY <1>3, <2>1, <2>2 DEF AckOK
<1>5. ASSUME NEW a, a = [guest |-> g, arm |-> q.arm] PROVE AckOK(c, a, hs, n)
  <2>1. a.guest = g /\ a.arm = q.arm /\ a \in [guest : Guests, arm : Arms]
    BY <1>1, <1>5, GuestFields
  <2> QED
    BY <1>2, <2>1 DEF AckOK, GuestOK, WellFormed, Holds, Has
<1>6. ASSUME NEW h \in c.acks PROVE c.arm.take \in Has(hs[h])
  <2>1. h \in Guests /\ c.arm.take \in Has(gs[h])
    BY <1>1, ControlFields DEF RoomOK
  <2>2. c.arm # NoArm /\ c.arm.take # NoTake
    BY DEF RoomOK, ControlOK, Known, Proper
  <2> QED
    BY <1>3, <2>1, <2>2
<1>7. \A h \in Guests : GuestOK(c, hs[h], n)
  BY <1>2 DEF RoomOK
<1> QED
  BY <1>2, <1>4, <1>5, <1>6, <1>7 DEF RoomOK, hs
-----------------------------------------------------------------------------
(* What is published goes forward.                                         *)

LEMMA ToldSame ==
  ASSUME NEW c, NEW n \in Nat, NEW m \in Nat, n <= m, ControlOK(c, n)
  PROVE  Told(c, c, n, m)
<1>1. c \in Controls /\ Rank[c.signal] \in Nat
  BY ControlFields DEF ControlOK, Rank, Signals, Stopped
<1> QED
  BY <1>1, ControlFields, ArmTypes DEF ControlOK, Known, Told, Forward

LEMMA Same ==
  ASSUME NEW c \in Controls, NEW d, d.take = c.take, d.signal = c.signal
  PROVE  Forward(c, d)
  BY ControlFields DEF Forward, Rank, Signals, Stopped

LEMMA ToldCancel ==
  ASSUME NEW c, NEW n \in Nat, ControlOK(c, n), c.arm # NoArm
  PROVE  Told(c, Cancelled(c), n, n) /\ Told(c, CancelUnwritten(c), n, n)
<1>1. c \in Controls
  BY DEF ControlOK
<1> DEFINE u == CancelUnwritten(c)
           d == Cancelled(c)
<1>2. /\ u \in Controls /\ u.take = c.take /\ u.signal = c.signal /\ u.arm = c.arm
      /\ u.cancel = c.cancel /\ u.gen = c.gen /\ u.acks = {}
  BY <1>1 DEF CancelUnwritten, Controls
<1>3. d = [u EXCEPT !.arm = NoArm, !.cancel = c.arm]
  BY DEF Cancelled
<1>4. /\ d \in Controls /\ d.take = c.take /\ d.signal = c.signal /\ d.arm = NoArm
      /\ d.cancel = c.arm /\ d.gen = c.gen /\ d.acks = {}
  <2> HIDE DEF u, d
  <2> QED
    BY <1>1, <1>2, <1>3, ArmTypes DEF Controls
<1> HIDE DEF u, d
<1>5. Forward(c, u) /\ Forward(c, d)
  BY <1>1, <1>2, <1>4, Same
<1>6. Told(c, u, n, n)
  BY <1>2, <1>5 DEF Told, ControlOK
<1>7. Told(c, d, n, n)
  BY <1>4, <1>5, ArmTypes DEF Told, ControlOK, Known, Proper
<1> QED
  BY <1>6, <1>7 DEF u, d

\* begin and begin_armed_finalizing, for the newest take.
LEMMA ToldCommitted ==
  ASSUME NEW c, NEW n \in Nat, ControlOK(c, n), n \in Takes, NEW signal \in {"recording", "finalizing"},
         c.take = n => Rank[signal] >= Rank[c.signal]
  PROVE  Told(c, Committed(c, signal, n), n, n)
<1>1. c \in Controls
  BY DEF ControlOK
<1> DEFINE u == CancelUnwritten(c)
           d == Committed(c, signal, n)
<1>2. /\ u \in Controls /\ u.acks = {} /\ u.gen = c.gen
  BY <1>1 DEF CancelUnwritten, Controls
<1>3. d = [u EXCEPT !.signal = signal, !.take = n, !.arm = NoArm, !.cancel = NoArm]
  BY DEF Committed
<1>4. /\ d \in Controls /\ d.take = n /\ d.signal = signal /\ d.arm = NoArm
      /\ d.cancel = NoArm /\ d.gen = c.gen /\ d.acks = {}
  <2> HIDE DEF u, d
  <2>1. signal \in Signals
    BY DEF Signals, Stopped
  <2> QED
    BY <1>1, <1>2, <1>3, <2>1, ArmTypes DEF Controls
<1> HIDE DEF u, d
<1>5. Forward(c, d)
  BY <1>1, <1>4, ControlFields DEF Forward, ControlOK
<1>6. Told(c, d, n, n)
  BY <1>4, <1>5, ArmTypes DEF Told, ControlOK, Known, Proper
<1> QED
  BY <1>6 DEF d

LEMMA ToldSignal ==
  ASSUME NEW c, NEW n \in Nat, ControlOK(c, n), NEW signal \in Signals, Rank[signal] >= Rank[c.signal]
  PROVE  Told(c, [c EXCEPT !.signal = signal], n, n)
<1>1. c \in Controls
  BY DEF ControlOK
<1> DEFINE d == [c EXCEPT !.signal = signal]
<1>2. /\ d \in Controls /\ d.take = c.take /\ d.signal = signal /\ d.arm = c.arm
      /\ d.cancel = c.cancel /\ d.gen = c.gen /\ d.acks = c.acks
  BY <1>1 DEF Controls
<1> HIDE DEF d
<1>3. Told(c, d, n, n)
  BY <1>1, <1>2 DEF Told, ControlOK, Forward
<1> QED
  BY <1>3 DEF d

LEMMA ToldArmed ==
  ASSUME NEW c, NEW n \in Nat, ControlOK(c, n), n < MaxTakes, CanArm(c, n + 1), NEW guests \in SUBSET Guests
  PROVE  /\ Told(c, Armed(c, n + 1, guests), n, n + 1)
         /\ Told(c, ArmUnwritten(c, guests), n, n + 1)
         /\ Armed(c, n + 1, guests).arm.take = n + 1 /\ ArmUnwritten(c, guests).arm = NoArm
<1>1. c \in Controls /\ c.arm = NoArm /\ c.gen \in Nat /\ c.gen <= n /\ MaxTakes \in Nat
  BY ControlFields, RecordingAssumption DEF ControlOK, CanArm, RecordingAssumption
<1> DEFINE u == ArmUnwritten(c, guests)
           d == Armed(c, n + 1, guests)
           arm == [take |-> n + 1, gen |-> c.gen + 1]
<1>2. arm \in Arms /\ arm.take = n + 1 /\ arm # NoArm
  BY <1>1 DEF Arms, Takes, NoArm, NoTake
<1>3. /\ u \in Controls /\ u.take = c.take /\ u.signal = c.signal /\ u.arm = NoArm
      /\ u.cancel = c.cancel /\ u.gen = c.gen + 1 /\ u.acks = {}
  <2>1. u = [c EXCEPT !.gen = c.gen + 1, !.required = guests, !.acks = {}]
    BY <1>1 DEF ArmUnwritten, Controls
  <2>2. c.gen + 1 \in 0..MaxTakes
    BY <1>1
  <2> HIDE DEF u
  <2> QED
    BY <1>1, <2>1, <2>2 DEF Controls
<1>4. d = [u EXCEPT !.arm = arm]
  BY DEF Armed
<1> HIDE DEF u, d, arm
<1>5. /\ d \in Controls /\ d.take = c.take /\ d.signal = c.signal /\ d.arm = arm
      /\ d.cancel = c.cancel /\ d.gen = c.gen + 1 /\ d.acks = {}
  BY <1>2, <1>3, <1>4 DEF Controls
<1>6. Forward(c, u) /\ Forward(c, d)
  BY <1>1, <1>3, <1>5, Same
<1>7. c.take \in Nat /\ c.take <= n /\ c.cancel \in Arms /\ Known(c.cancel, n) /\ c.cancel.take \in Nat
      /\ (c.cancel # NoArm => c.cancel.take # 0)
  BY <1>1, ControlFields, ArmTypes DEF ControlOK, Known, Proper
<1>8. Told(c, u, n, n + 1)
  BY <1>1, <1>3, <1>6, <1>7, ArmTypes DEF Told, ControlOK, Known, Proper
<1>9. Told(c, d, n, n + 1)
  BY <1>1, <1>2, <1>5, <1>6, <1>7, ArmTypes DEF Told, ControlOK, Known, Proper
<1> QED
  BY <1>2, <1>3, <1>5, <1>8, <1>9 DEF u, d

\* The host's answer to an acknowledgement.
LEMMA RoomAcked ==
  ASSUME NEW c, NEW as, NEW gs, NEW ws, NEW n, RoomOK(c, as, gs, ws, n),
         NEW g \in Guests, c.arm # NoArm, c.arm.take \in Has(gs[g])
  PROVE  /\ RoomOK(Acked(c, g), as, gs, ws, n) /\ Forward(c, Acked(c, g))
<1> DEFINE d == Acked(c, g)
<1>1. c \in Controls /\ ControlOK(c, n)
  BY DEF RoomOK, ControlOK
<1>2. /\ d \in Controls /\ d.take = c.take /\ d.signal = c.signal /\ d.arm = c.arm
      /\ d.cancel = c.cancel /\ d.gen = c.gen /\ d.acks = c.acks \cup {g}
  BY <1>1 DEF Acked, Controls
<1> HIDE DEF d
<1>3. ControlOK(d, n)
  BY <1>1, <1>2 DEF ControlOK
<1>4. Forward(c, d)
  BY <1>1, <1>2, Same
<1>5. RoomOK(d, as, gs, ws, n)
  BY <1>2, <1>3 DEF RoomOK, GuestOK, AckOK
<1> QED
  BY <1>4, <1>5 DEF d
-----------------------------------------------------------------------------
(* The host's own half of the invariant.                                   *)

Coordinators ==
  [phase : Phases, take : {NoTake} \cup Takes, validating : {NoTake} \cup Takes,
   armed : BOOLEAN, seen : BOOLEAN, started : BOOLEAN, ended : BOOLEAN,
   arm : Arms, observed : BOOLEAN, attempt : BOOLEAN]

Stories == [takes : 0..MaxTakes, recorded : SUBSET Takes, launched : [Takes -> Nat]]

Traffic ==
  /\ workers \subseteq [take : {NoTake} \cup Takes, target : BOOLEAN, attempt : BOOLEAN, sent : BOOLEAN]
  /\ replies \subseteq [take : {NoTake} \cup Takes, target : BOOLEAN, attempt : BOOLEAN, ok : BOOLEAN]
  /\ recording \in BOOLEAN /\ notices \in Seq(BOOLEAN)
  /\ wire \subseteq [take : {NoTake} \cup Takes, target : BOOLEAN]
  /\ faults \subseteq Faults
  /\ \A m \in workers \cup wire : m.target => m.take # NoTake

Books ==
  /\ co \in Coordinators /\ readiness \in BOOLEAN /\ validating \subseteq Takes /\ story \in Stories
  /\ co.take \in {NoTake, story.takes} /\ co.validating <= story.takes
  /\ readiness => story.takes < MaxTakes
  /\ Validations

Host == Traffic /\ Books /\ BusyOwned /\ Unignored

Room == RoomOK(ctl, acks, guest, waits, story.takes)

LEMMA StoryFields ==
  ASSUME NEW s \in Stories
  PROVE  /\ s.takes \in Nat /\ s.takes <= MaxTakes /\ s.recorded \subseteq Takes
         /\ s.launched \in [Takes -> Nat] /\ \A t \in Takes : s.launched[t] \in Nat
<1>1. MaxTakes \in Nat
  BY RecordingAssumption DEF RecordingAssumption
<1>2. s.takes \in 0..MaxTakes /\ s.recorded \in SUBSET Takes /\ s.launched \in [Takes -> Nat]
  BY DEF Stories
<1> QED
  BY <1>1, <1>2

LEMMA Parts == Coherent <=> Host /\ Room
<1>1. ASSUME Host, Room PROVE Coherent
  <2>1. ctl \in Controls /\ acks \subseteq [guest : Guests, arm : Arms] /\ waits \subseteq Arms
        /\ guest \in [Guests -> GuestStates]
    BY <1>1 DEF Room, RoomOK, ControlOK, AckOK
  <2>2. TypeOK
    BY <1>1, <2>1 DEF TypeOK, Host, Books, Traffic, Coordinators, Controls, Stories
  <2>3. ASSUME NEW arm \in ArmsKnown PROVE Known(arm, story.takes)
    BY <1>1, <2>3 DEF ArmsKnown, Room, RoomOK, ControlOK, GuestOK, AckOK
  <2>4. Numbered
    BY <1>1, <2>3 DEF Numbered, Known, Proper, Host, Books, Traffic, Room, RoomOK, ControlOK
  <2>5. ArmAhead
    BY <1>1 DEF ArmAhead, Room, RoomOK, ControlOK, GuestOK
  <2>6. AcksBacked
    BY <1>1 DEF AcksBacked, Room, RoomOK, ControlOK, GuestOK, AckOK, WellFormed
  <2>7. AckedCaptures
    BY <1>1 DEF AckedCaptures, Room, RoomOK, Has
  <2> QED
    BY <1>1, <2>2, <2>4, <2>5, <2>6, <2>7 DEF Coherent, Host, Books
<1>2. ASSUME Coherent PROVE Host /\ Room
  <2>1. Host
    BY <1>2 DEF Coherent, TypeOK, Numbered, Host, Books, Traffic, Coordinators, Stories
  <2>2. /\ ctl \in Controls /\ acks \subseteq [guest : Guests, arm : Arms] /\ waits \subseteq Arms
        /\ guest \in [Guests -> GuestStates] /\ story.takes \in Nat /\ story.takes <= MaxTakes
    BY <1>2, <2>1, StoryFields DEF Coherent, TypeOK, Controls, Host, Books
  <2>3. ASSUME NEW arm \in ArmsKnown PROVE Known(arm, story.takes)
    BY <1>2, <2>3 DEF Coherent, Numbered, Known, Proper
  <2>4. ControlOK(ctl, story.takes)
    BY <1>2, <2>2, <2>3 DEF Coherent, ControlOK, ArmsKnown, Numbered, ArmAhead, AcksBacked
  <2>5. ASSUME NEW g \in Guests PROVE GuestOK(ctl, guest[g], story.takes)
    BY <1>2, <2>2, <2>3 DEF Coherent, GuestOK, ArmsKnown, WellFormed, Known, ArmAhead, AcksBacked
  <2>6. ASSUME NEW a \in acks PROVE AckOK(ctl, a, guest, story.takes)
    BY <1>2, <2>2, <2>3 DEF Coherent, AckOK, ArmsKnown, AcksBacked
  <2>7. ASSUME NEW w \in waits PROVE w \in Arms /\ Known(w, story.takes) /\ w # NoArm
    BY <1>2, <2>2, <2>3 DEF Coherent, ArmsKnown, Numbered
  <2>8. \A g \in ctl.acks : ctl.arm.take \in Has(guest[g])
    BY <1>2 DEF Coherent, AckedCaptures, Has
  <2> QED
    BY <2>1, <2>2, <2>4, <2>5, <2>6, <2>7, <2>8 DEF Room, RoomOK
<1> QED
  BY <1>1, <1>2

LEMMA Initial == Init => Coherent
<1> SUFFICES ASSUME Init PROVE Host /\ Room
  BY Parts
<1>0. MaxTakes \in Nat
  BY RecordingAssumption DEF RecordingAssumption
<1>1. co \in Coordinators
  BY ArmTypes DEF Init, NewCoordinator, Coordinators, Phases
<1>2. story \in Stories /\ story.takes = 0 /\ \A t \in Takes : story.launched[t] = 0
  BY <1>0 DEF Init, Stories, Takes
<1>3. Traffic
  <2>1. /\ workers = {} /\ replies = {} /\ recording = FALSE /\ notices = <<>> /\ wire = {}
        /\ faults = {}
    BY DEF Init
  <2>2. <<>> \in Seq(BOOLEAN)
    OBVIOUS
  <2> QED
    BY <2>1, <2>2 DEF Traffic
<1>4. Host
  <2>1. /\ co.phase = "idle" /\ co.take = NoTake /\ co.validating = NoTake
        /\ ~co.observed /\ ~co.attempt /\ validating = {}
        /\ readiness \in BOOLEAN /\ ~readiness
    BY DEF Init, NewCoordinator
  <2>2. Validations
    BY <1>2, <2>1 DEF Validations
  <2>3. Books
    BY <1>1, <1>2, <2>1, <2>2, ArmTypes DEF Books
  <2>4. BusyOwned /\ Unignored
    BY <2>1 DEF BusyOwned, Unignored
  <2> QED
    BY <1>3, <2>3, <2>4 DEF Host
<1>5. ctl \in Controls
  BY <1>0, ArmTypes DEF Init, NewControl, Controls, Signals
<1>6. ControlOK(ctl, 0)
  BY <1>5, ArmTypes DEF Init, NewControl, ControlOK, Known, Proper
<1>7. NewGuest \in GuestStates
  BY ArmTypes DEF NewGuest, GuestStates, Snapshots, Signals
<1>8. GuestOK(ctl, NewGuest, 0)
  BY <1>7, ArmTypes DEF NewGuest, GuestOK, WellFormed, Known, Proper, Holds
<1>9. Room
  <2>1. /\ guest = [g \in Guests |-> NewGuest] /\ waits = {} /\ acks = {} /\ ctl.acks = {}
    BY DEF Init, NewControl
  <2>2. guest \in [Guests -> GuestStates] /\ \A g \in Guests : guest[g] = NewGuest
    BY <1>7, <2>1
  <2> QED
    BY <1>0, <1>2, <1>6, <1>8, <2>1, <2>2 DEF Room, RoomOK
<1> QED
  BY <1>4, <1>9
-----------------------------------------------------------------------------
(* What the host may do to its own half.                                   *)

\* Requests and replies on their way, as the phases see them.
Calls == workers \cup replies

Carried(m) == \E k \in Calls' : k.take = m.take /\ k.target = m.target /\ k.attempt = m.attempt

\* The coordinator is not concerned: no worker and no callback is lost.
LEMMA HostQuiet ==
  ASSUME Host, Traffic', UNCHANGED <<co, readiness, waits, validating>>,
         story' \in Stories, story'.takes = story.takes, story'.launched = story.launched,
         \A m \in Calls : Carried(m)
  PROVE  Host'
<1>1. Books'
  BY DEF Host, Books, Validations
<1>2. ASSUME NEW target, Asked(target) PROVE Asked(target)'
  BY <1>2 DEF Asked, Calls, Carried
<1>3. BusyOwned'
  BY <1>2 DEF Host, BusyOwned
<1>4. Unignored'
  BY DEF Host, Unignored, Calls, Carried
<1> QED
  BY <1>1, <1>3, <1>4 DEF Host

\* A phase in which the Record button works.
LEMMA HostSettled ==
  ASSUME Host, Traffic', readiness' \in BOOLEAN, readiness' => readiness, UNCHANGED <<validating, story>>,
         co' \in Coordinators, co'.take = co.take, co'.validating = co.validating,
         co'.phase \notin Busy, co'.observed \/ co'.attempt => co'.seen
  PROVE  Host'
<1>1. Books'
  BY DEF Host, Books, Validations
<1>2. BusyOwned' /\ Unignored'
  BY DEF BusyOwned, Unignored, Busy
<1> QED
  BY <1>1, <1>2 DEF Host

\* The take is over.
LEMMA HostRetired ==
  ASSUME Host, Traffic', readiness' \in BOOLEAN, readiness' => story'.takes < MaxTakes,
         validating' \subseteq validating,
         story' \in Stories, story'.takes >= story.takes, story'.launched = story.launched,
         co' \in Coordinators, co'.take = NoTake, co'.validating \in {co.validating, NoTake},
         co'.phase \notin Busy, co'.observed \/ co'.attempt => co'.seen
  PROVE  Host'
<1>0. /\ story.takes \in Nat /\ story'.takes \in Nat /\ co.validating \in Nat
      /\ co.validating <= story.takes
  BY StoryFields, ArmTypes DEF Host, Books, Coordinators
<1>1. co'.validating <= story'.takes
  BY <1>0, ArmTypes
<1>2. ASSUME NEW t \in Takes PROVE t # co'.take /\ t \in Nat
  BY ArmTypes
<1>3. Validations'
  BY <1>0, <1>2 DEF Host, Books, Validations
<1>4. Books'
  BY <1>1, <1>3 DEF Host, Books
<1>5. BusyOwned' /\ Unignored'
  BY DEF BusyOwned, Unignored, Busy
<1> QED
  BY <1>4, <1>5 DEF Host

\* The stop of the active take is seen, for the first time or again.
LEMMA HostStopped ==
  ASSUME Host, Traffic', UNCHANGED readiness, co.take # NoTake,
         IF Launches(co)
         THEN /\ validating' = validating \cup {co.take}
              /\ story' = [story EXCEPT !.launched[co.take] = @ + 1]
         ELSE UNCHANGED <<validating, story>>,
         co' \in Coordinators, co'.take = co.take, co'.validating = co.take,
         co'.phase = "finalizing", co'.observed \/ co'.attempt => co'.seen
  PROVE  Host'
<1>1. co.take \in Takes /\ co.take = story.takes /\ story \in Stories
  BY DEF Host, Books, Coordinators
<1>2. CASE co.validating # co.take
  <2>1. /\ validating' = validating \cup {co.take}
        /\ story' = [story EXCEPT !.launched[co.take] = @ + 1]
    BY <1>2 DEF Launches
  <2>2. story.launched[co.take] # 1 /\ story.launched[co.take] <= 1 /\ story.launched[co.take] \in Nat
    BY <1>1, <1>2, StoryFields DEF Host, Books, Validations
  <2>3. story' = [story EXCEPT !.launched = [story.launched EXCEPT ![co.take] = 1]]
    BY <1>1, <2>1, <2>2 DEF Stories
  <2>4. story' \in Stories /\ story'.takes = story.takes /\ story'.launched = [story.launched EXCEPT ![co.take] = 1]
    BY <1>1, <2>3 DEF Stories
  <2>5. /\ story'.launched[co.take] = 1
        /\ \A t \in Takes \ {co.take} : story'.launched[t] = story.launched[t]
    BY <1>1, <2>4, StoryFields
  <2>6. \A t \in Takes : t \in Nat /\ (t = co.take => t <= story.takes)
    BY <1>1, ArmTypes
  <2>7. Validations'
    BY <1>1, <2>1, <2>4, <2>5, <2>6 DEF Host, Books, Validations
  <2>8. Books' /\ co'.take \in validating'
    BY <1>1, <2>1, <2>4, <2>6, <2>7 DEF Host, Books
  <2> QED
    BY <2>8 DEF Host, BusyOwned, Unignored
<1>3. CASE co.validating = co.take
  <2>1. UNCHANGED <<validating, story>>
    BY <1>3 DEF Launches
  <2>2. co.take \in validating
    BY <1>3 DEF Host, Books, Validations
  <2>3. Books'
    BY <1>3, <2>1 DEF Host, Books, Validations
  <2> QED
    BY <2>1, <2>2, <2>3 DEF Host, BusyOwned, Unignored
<1> QED
  BY <1>2, <1>3
-----------------------------------------------------------------------------
(* The steps that do not concern the coordinator's handlers.               *)

LEMMA SpendTyped ==
  ASSUME faults \subseteq Faults, NEW kind, Spend(kind)
  PROVE  faults' \subseteq Faults
  BY DEF Spend

LEMMA RoomQuiet ==
  ASSUME Room, UNCHANGED <<ctl, acks, guest, waits>>, story'.takes = story.takes
  PROVE  Room' /\ Forward(ctl, ctl')
<1>1. ctl \in Controls
  BY DEF Room, RoomOK, ControlOK
<1> QED
  BY <1>1, Same DEF Room

LEMMA WorkerStep ==
  ASSUME Host, Room, NEW w \in workers,
         WorkerSends(w) \/ WorkerUnbound(w) \/ WorkerConfirms(w) \/ WorkerGivesUp(w)
  PROVE  Host' /\ Room' /\ Forward(ctl, ctl')
<1>1. /\ UNCHANGED <<co, readiness, waits, validating, recording, notices, ctl, acks, guest, story>>
      /\ faults' \subseteq Faults
  BY SpendTyped DEF WorkerSends, WorkerUnbound, WorkerConfirms, WorkerGivesUp, Host, Traffic, server, room
<1>2. w \in [take : {NoTake} \cup Takes, target : BOOLEAN, attempt : BOOLEAN, sent : BOOLEAN]
  BY DEF Host, Traffic
<1>3. /\ Reply(w, TRUE).take = w.take /\ Reply(w, TRUE).target = w.target /\ Reply(w, TRUE).attempt = w.attempt
      /\ Reply(w, FALSE).take = w.take /\ Reply(w, FALSE).target = w.target /\ Reply(w, FALSE).attempt = w.attempt
      /\ \A ok \in BOOLEAN : Reply(w, ok) \in [take : {NoTake} \cup Takes, target : BOOLEAN, attempt : BOOLEAN, ok : BOOLEAN]
      /\ Request(w) \in [take : {NoTake} \cup Takes, target : BOOLEAN]
  BY <1>2 DEF Reply, Request
<1>4. CASE WorkerSends(w)
  <2> DEFINE v == [w EXCEPT !.sent = TRUE]
  <2>1. /\ v \in [take : {NoTake} \cup Takes, target : BOOLEAN, attempt : BOOLEAN, sent : BOOLEAN]
        /\ v.take = w.take /\ v.target = w.target /\ v.attempt = w.attempt
    BY <1>2
  <2>2. /\ workers' = (workers \ {w}) \cup {v} /\ replies' = replies
        /\ wire' = wire \cup {Request(w)}
    BY <1>4 DEF WorkerSends
  <2> HIDE DEF v
  <2>3. Traffic'
    <3>1. \A m \in {v, Request(w)} : m.target => m.take # NoTake
      BY <1>3, <2>1 DEF Host, Traffic, Request
    <3>2. \A m \in workers' \cup wire' : m \in workers \cup wire \/ m \in {v, Request(w)}
      BY <2>2
    <3>3. \A m \in workers' \cup wire' : m.target => m.take # NoTake
      BY <3>1, <3>2 DEF Host, Traffic
    <3> QED
      BY <1>1, <1>3, <2>1, <2>2, <3>3 DEF Host, Traffic
  <2>4. \A m \in Calls : Carried(m)
    BY <2>1, <2>2 DEF Calls, Carried
  <2> QED
    BY <1>1, <2>3, <2>4, HostQuiet, RoomQuiet DEF Host, Books
<1>5. CASE WorkerUnbound(w) \/ WorkerConfirms(w) \/ WorkerGivesUp(w)
  <2>1. PICK ok \in BOOLEAN : /\ workers' = workers \ {w} /\ replies' = replies \cup {Reply(w, ok)}
                              /\ wire' = wire
    BY <1>5 DEF WorkerUnbound, WorkerConfirms, WorkerGivesUp, server
  <2>2. Reply(w, ok).take = w.take /\ Reply(w, ok).target = w.target /\ Reply(w, ok).attempt = w.attempt
    BY DEF Reply
  <2>3. Traffic'
    BY <1>1, <1>3, <2>1 DEF Host, Traffic
  <2>4. \A m \in Calls : Carried(m)
    BY <2>1, <2>2 DEF Calls, Carried
  <2> QED
    BY <1>1, <2>3, <2>4, HostQuiet, RoomQuiet DEF Host, Books
<1> QED
  BY <1>4, <1>5

LEMMA Switched ==
  ASSUME Traffic, NEW on \in BOOLEAN, Switch(on)
  PROVE  recording' \in BOOLEAN /\ notices' \in Seq(BOOLEAN)
<1>1. recording' \in BOOLEAN
  BY DEF Switch
<1>2. notices \in Seq(BOOLEAN) /\ Append(notices, on) \in Seq(BOOLEAN)
  BY AppendProperties DEF Traffic
<1> QED
  BY <1>1, <1>2 DEF Switch

LEMMA RecorderStep ==
  ASSUME Host, Room,
         \/ \E r \in wire : Executes(r) \/ Dropped(r)
         \/ Foreign \/ NoticeLost
  PROVE  Host' /\ Room' /\ Forward(ctl, ctl')
<1>1. UNCHANGED <<co, readiness, waits, workers, replies, validating, ctl, acks, guest>>
  BY DEF Executes, Dropped, Foreign, NoticeLost, host, room
<1>2. faults' \subseteq Faults /\ wire' \subseteq wire
  BY SpendTyped DEF Executes, Dropped, Foreign, NoticeLost, Host, Traffic
<1>3. recording' \in BOOLEAN /\ notices' \in Seq(BOOLEAN)
  <2>1. ASSUME NEW r \in wire, Executes(r) PROVE recording' \in BOOLEAN /\ notices' \in Seq(BOOLEAN)
    BY <2>1, Switched DEF Executes, Host, Traffic
  <2>2. CASE \E r \in wire : Dropped(r)
    BY <2>2 DEF Dropped, Host, Traffic
  <2>3. CASE Foreign
    BY <2>3, Switched DEF Foreign, Host, Traffic
  <2>4. CASE NoticeLost
    BY <2>4 DEF NoticeLost, Host, Traffic
  <2> QED
    BY <2>1, <2>2, <2>3, <2>4
<1>4. story' \in Stories /\ story'.takes = story.takes /\ story'.launched = story.launched
  <2>0. story \in Stories
    BY DEF Host, Books
  <2>1. ASSUME NEW r \in wire, r.target
        PROVE  r.take \in Takes
    BY <2>1 DEF Host, Traffic
  <2>2. CASE UNCHANGED story
    BY <2>0, <2>2
  <2>3. CASE \E r \in wire : r.target /\ story' = [story EXCEPT !.recorded = @ \cup {r.take}]
    BY <2>0, <2>1, <2>3 DEF Stories
  <2> QED
    BY <2>2, <2>3 DEF Executes, Dropped, Foreign, NoticeLost
<1>5. Traffic'
  BY <1>1, <1>2, <1>3 DEF Host, Traffic
<1>6. \A m \in Calls : Carried(m)
  BY <1>1 DEF Calls, Carried
<1> QED
  BY <1>1, <1>4, <1>5, <1>6, HostQuiet, RoomQuiet
-----------------------------------------------------------------------------
(* The guests' steps.                                                      *)

LEMMA HostAside ==
  ASSUME Host, UNCHANGED <<host, server, story>>, faults' \subseteq Faults
  PROVE  Host'
<1>1. UNCHANGED <<co, readiness, waits, workers, replies, validating, recording, wire, notices, story>>
  BY DEF host, server
<1>2. Traffic' /\ \A m \in Calls : Carried(m)
  BY <1>1 DEF Host, Traffic, Calls, Carried
<1> QED
  BY <1>1, <1>2, HostQuiet DEF Host, Books

LEMMA RoomFacts ==
  ASSUME Room
  PROVE  /\ story.takes \in Nat /\ ctl \in Controls /\ ControlOK(ctl, story.takes)
         /\ guest \in [Guests -> GuestStates]
         /\ \A g \in Guests : GuestOK(ctl, guest[g], story.takes) /\ WellFormed(guest[g])
         /\ Forward(ctl, ctl) /\ Known(NoArm, story.takes)
<1>1. /\ story.takes \in Nat /\ ctl \in Controls /\ ControlOK(ctl, story.takes)
      /\ guest \in [Guests -> GuestStates] /\ \A g \in Guests : GuestOK(ctl, guest[g], story.takes)
  BY DEF Room, RoomOK, ControlOK
<1>2. Forward(ctl, ctl)
  BY <1>1, Same
<1> QED
  BY <1>1, <1>2, ArmTypes DEF GuestOK, Known, Proper

\* A guest's own step, which leaves the control state alone.
LEMMA RoomBecome ==
  ASSUME Room, UNCHANGED <<ctl, waits, story>>, NEW g \in Guests, NEW q, Become(g, q),
         GuestOK(ctl, q, story.takes), NEW x,
         Has(guest[g]) \ {NoTake, x} \subseteq Has(q), x = NoTake \/ x # ctl.arm.take,
         \A b \in acks' : b \in acks \/ b = [guest |-> g, arm |-> q.arm]
  PROVE  Room' /\ Forward(ctl, ctl')
<1>1. RoomOK(ctl, acks', [guest EXCEPT ![g] = q], waits, story.takes)
  BY RoomGuest DEF Room
<1> QED
  BY <1>1, RoomFacts DEF Become, Room

LEMMA GuestMoves ==
  ASSUME Room, NEW g \in Guests, NEW s \in Snapshots, Known(s.arm, story.takes),
         s.cancel # NoArm => ctl.arm.take # s.cancel.take,
         NEW q \in Apply(guest[g], s), Answers(g, q)
  PROVE  Room' /\ Forward(ctl, ctl')
<1>1. /\ WellFormed(q) /\ q.seen = NewGuest.seen
      /\ Has(guest[g]) \ {NoTake, s.cancel.take} \subseteq Has(q)
      /\ q.arm \in {NoArm, guest[g].arm, s.arm}
  BY RoomFacts, ApplyFollows DEF Known
<1>2. NewGuest.seen.arm = NoArm /\ NewGuest.seen.cancel = NoArm
  BY DEF NewGuest
<1>3. GuestOK(ctl, q, story.takes)
  BY <1>1, <1>2, RoomFacts DEF GuestOK
<1>4. s.cancel.take = NoTake \/ s.cancel.take # ctl.arm.take
  BY ArmTypes
<1>5. /\ UNCHANGED <<ctl, waits, story>> /\ Become(g, q)
      /\ \A b \in acks' : b \in acks \/ b = [guest |-> g, arm |-> q.arm]
  BY DEF Answers, host
<1> QED
  BY <1>1, <1>3, <1>4, <1>5, RoomBecome

LEMMA ViewFacts ==
  ASSUME Room, NEW g \in Guests, NEW s, s = ViewOf(ctl, g)
  PROVE  /\ s \in Snapshots /\ Known(s.arm, story.takes) /\ Known(s.cancel, story.takes)
         /\ s.cancel # NoArm => ctl.arm.take # s.cancel.take
<1>1. ctl \in Controls /\ ControlOK(ctl, story.takes) /\ Known(NoArm, story.takes)
  BY RoomFacts
<1>2. /\ s.signal = ctl.signal /\ s.take = ctl.take /\ s.cancel = ctl.cancel
      /\ s.arm \in {ctl.arm, NoArm} /\ s \in Snapshots
  BY <1>1, ControlFields, ArmTypes DEF ViewOf, Snapshots
<1> QED
  BY <1>1, <1>2 DEF ControlOK

LEMMA GuestStepped ==
  ASSUME Host, Room, NEW g \in Guests, GuestStep(g)
  PROVE  Host' /\ Room' /\ Forward(ctl, ctl')
<1>1. Host'
  <2>1. UNCHANGED <<host, server, story>>
    BY DEF GuestStep, GuestPolls, GuestReads, GuestApplies, AckTimesOut, GuestLeaves, GuestRestarts, Answers
  <2>2. faults' \subseteq Faults
    BY SpendTyped DEF GuestStep, GuestPolls, GuestReads, GuestApplies, AckTimesOut, GuestLeaves,
                      GuestRestarts, Host, Traffic
  <2> QED
    BY <2>1, <2>2, HostAside
<1> SUFFICES Room' /\ Forward(ctl, ctl')
  BY <1>1
<1>2. guest[g] \in GuestStates /\ GuestOK(ctl, guest[g], story.takes) /\ WellFormed(guest[g])
  BY RoomFacts DEF WellFormed
<1>3. CASE GuestPolls(g)
  BY <1>3, ViewFacts, GuestMoves DEF GuestPolls
<1>4. CASE GuestApplies(g)
  <2>1. guest[g].seen \in Snapshots
    BY <1>2, GuestFields
  <2> QED
    BY <1>2, <1>4, <2>1, GuestMoves DEF GuestApplies, GuestOK
<1>5. CASE GuestReads(g)
  <2> DEFINE s == ViewOf(ctl, g)
             q == [guest[g] EXCEPT !.pc = "apply", !.seen = s]
  <2>1. /\ s \in Snapshots /\ Known(s.arm, story.takes) /\ Known(s.cancel, story.takes)
        /\ s.cancel # NoArm => ctl.arm.take # s.cancel.take
    BY ViewFacts
  <2>2. Become(g, q) /\ UNCHANGED <<ctl, waits, story, acks>>
    BY <1>5 DEF GuestReads, host
  <2> HIDE DEF s
  <2>3. /\ q \in GuestStates /\ q.seen = s /\ q.cap = guest[g].cap /\ q.arm = guest[g].arm
        /\ q.kept = guest[g].kept
    BY <1>2, <2>1 DEF GuestStates
  <2> HIDE DEF q
  <2>4. GuestOK(ctl, q, story.takes) /\ Has(q) = Has(guest[g])
    BY <1>2, <2>1, <2>3 DEF GuestOK, WellFormed, Holds, Has
  <2> QED
    BY <2>2, <2>4, RoomBecome
<1>6. CASE AckTimesOut(g)
  <2> DEFINE q == [guest[g] EXCEPT !.pc = "idle"]
  <2>2. Become(g, q) /\ UNCHANGED <<ctl, waits, story>> /\ \A b \in acks' : b \in acks
    BY <1>6 DEF AckTimesOut, host
  <2>3. /\ q \in GuestStates /\ q.seen = guest[g].seen /\ q.cap = guest[g].cap
        /\ q.arm = guest[g].arm /\ q.kept = guest[g].kept
    BY <1>2 DEF GuestStates
  <2> HIDE DEF q
  <2>4. GuestOK(ctl, q, story.takes) /\ Has(q) = Has(guest[g])
    BY <1>2, <2>3 DEF GuestOK, WellFormed, Holds, Has
  <2> QED
    BY <2>2, <2>4, RoomBecome
<1>7. CASE GuestLeaves(g)
  <2>1. PICK q \in Leaving(guest[g]) : Become(g, q)
    BY <1>7 DEF GuestLeaves
  <2>2. UNCHANGED <<ctl, waits, story, acks>>
    BY <1>7 DEF GuestLeaves, host
  <2>3. Keeps(guest[g], q)
    BY <1>2, LeavingKeeps
  <2>4. GuestOK(ctl, q, story.takes)
    BY <1>2, <2>3, RoomFacts DEF GuestOK, Keeps
  <2>5. Has(guest[g]) \ {NoTake, NoTake} \subseteq Has(q)
    BY <2>3 DEF Keeps
  <2> QED
    BY <2>1, <2>2, <2>4, <2>5, RoomBecome
<1>8. CASE GuestRestarts(g)
  <2> DEFINE q == Restarted(guest[g])
  <2>1. Become(g, q) /\ UNCHANGED <<ctl, waits, story, acks>>
    BY <1>8 DEF GuestRestarts, host
  <2>2. /\ WellFormed(q) /\ q.arm = NoArm /\ q.seen = NewGuest.seen
        /\ Has(guest[g]) \ {NoTake, NoTake} \subseteq Has(q)
    BY <1>2, RestartedHas
  <2> HIDE DEF q
  <2>3. NewGuest.seen.arm = NoArm /\ NewGuest.seen.cancel = NoArm
    BY DEF NewGuest
  <2>4. GuestOK(ctl, q, story.takes)
    BY <2>2, <2>3, RoomFacts DEF GuestOK
  <2> QED
    BY <2>1, <2>2, <2>4, RoomBecome
<1> QED
  BY <1>3, <1>4, <1>5, <1>6, <1>7, <1>8 DEF GuestStep

LEMMA AckStep ==
  ASSUME Host, Room, NEW a \in acks, AckArrives(a)
  PROVE  Host' /\ Room' /\ Forward(ctl, ctl')
<1> DEFINE ok == AckAccepted(ctl, a.guest, a.arm)
<1>1. UNCHANGED <<host, server, faults, story, waits>> /\ acks' \subseteq acks
  BY DEF AckArrives, host
<1>2. Host'
  BY <1>1, HostAside DEF Host, Traffic
<1>3. /\ a.guest \in Guests /\ a.arm \in Arms /\ AckOK(ctl, a, guest, story.takes)
      /\ guest[a.guest] \in GuestStates /\ GuestOK(ctl, guest[a.guest], story.takes)
  BY RoomFacts DEF Room, RoomOK, AckOK
<1>4. RoomOK(ctl', acks, guest, waits, story.takes) /\ Forward(ctl, ctl')
  <2>1. CASE ok
    <3>1. ctl' = Acked(ctl, a.guest) /\ ctl.arm # NoArm /\ ctl.arm.take \in Has(guest[a.guest])
      BY <1>3, <2>1 DEF AckArrives, AckAccepted, AckOK
    <3> QED
      BY <1>3, <3>1, RoomAcked DEF Room
  <2>2. CASE ~ok
    BY <2>2, RoomFacts DEF AckArrives, Room
  <2> QED
    BY <2>1, <2>2
<1>5. ctl'.arm = ctl.arm
  BY <1>3, RoomFacts DEF AckArrives, Acked, Controls
<1>6. CASE UNCHANGED guest
  <2>1. RoomOK(ctl', acks', guest, waits, story.takes)
    BY <1>1, <1>4 DEF RoomOK
  <2> QED
    BY <1>1, <1>2, <1>4, <1>6, <2>1 DEF Room
<1>7. CASE ~UNCHANGED guest
  <2> DEFINE q == [guest[a.guest] EXCEPT !.pc = "idle", !.bound = IF ok THEN a.arm ELSE @]
  <2>1. guest' = [guest EXCEPT ![a.guest] = q]
    BY <1>7 DEF AckArrives, Become
  <2>2. /\ q \in GuestStates /\ q.seen = guest[a.guest].seen /\ q.cap = guest[a.guest].cap
        /\ q.arm = guest[a.guest].arm /\ q.kept = guest[a.guest].kept
    BY <1>3 DEF GuestStates
  <2> HIDE DEF q
  <2>3. GuestOK(ctl', q, story.takes) /\ Has(q) = Has(guest[a.guest])
    BY <1>3, <1>5, <2>2 DEF GuestOK, WellFormed, Holds, Has
  <2>4. RoomOK(ctl', acks', [guest EXCEPT ![a.guest] = q], waits, story.takes)
    BY <1>1, <1>3, <1>4, <2>3, RoomGuest
  <2> QED
    BY <1>1, <1>2, <1>4, <2>1, <2>4 DEF Room
<1> QED
  BY <1>6, <1>7
-----------------------------------------------------------------------------
(* The coordinator's publications.                                         *)

LEMMA ToldLater ==
  ASSUME NEW c, NEW d, NEW n \in Nat, NEW m \in Nat, n <= m, Told(c, d, n, n)
  PROVE  Told(c, d, n, m)
<1>1. d \in Controls /\ ControlOK(d, n)
  BY DEF Told, ControlOK
<1>2. ControlOK(d, m)
  BY <1>1, ControlFields, ArmTypes DEF ControlOK, Known
<1> QED
  BY <1>2 DEF Told

LEMMA RoomPublished ==
  ASSUME Room, UNCHANGED <<acks, guest>>, Told(ctl, ctl', story.takes, story'.takes),
         story' \in Stories, story.takes <= story'.takes,
         \A w \in waits' : w \in waits \/ (w = ctl'.arm /\ w # NoArm)
  PROVE  Room' /\ Forward(ctl, ctl')
<1>1. story'.takes \in Nat /\ story'.takes <= MaxTakes
  BY StoryFields
<1>2. RoomOK(ctl', acks, guest, waits', story'.takes)
  BY <1>1, RoomTold DEF Room
<1> QED
  BY <1>2 DEF Room, Told

LEMMA HostFacts ==
  ASSUME Host
  PROVE  /\ co \in Coordinators /\ story \in Stories /\ story.takes \in Nat /\ story.takes <= MaxTakes
         /\ co.take # NoTake => co.take = story.takes /\ co.take \in Takes
         /\ co.validating \in Nat /\ co.validating <= story.takes
         /\ faults \subseteq Faults
         /\ co.observed \/ co.attempt => co.seen
  BY StoryFields, ArmTypes DEF Host, Books, Coordinators, Traffic, Unignored

LEMMA StartTold ==
  ASSUME Host, Room, co.take # NoTake, PublishStart(co.take)
  PROVE  Told(ctl, ctl', story.takes, story.takes) /\ faults' \subseteq Faults
<1>1. /\ story.takes \in Takes /\ co.take = story.takes /\ story.takes \in Nat
      /\ ControlOK(ctl, story.takes) /\ ctl \in Controls
  BY HostFacts, RoomFacts
<1>2. faults' \subseteq Faults
  BY HostFacts, SpendTyped DEF PublishStart, Publish
<1>3. CASE ctl' = ctl
  BY <1>1, <1>2, <1>3, ToldSame
<1>4. CASE CanBegin(ctl, co.take) /\ ctl' = Begun(ctl, co.take)
  <2>1. ctl.take = co.take => Rank["recording"] >= Rank[ctl.signal]
    BY <1>1, <1>4, ControlFields DEF CanBegin, Rank, Signals, Stopped
  <2> QED
    BY <1>1, <1>2, <1>4, <2>1, ToldCommitted DEF Begun
<1> QED
  BY <1>3, <1>4 DEF PublishStart, Publish

LEMMA StopTold ==
  ASSUME Host, Room, co.take # NoTake, PublishStop(co.take)
  PROVE  Told(ctl, ctl', story.takes, story.takes) /\ faults' \subseteq Faults
<1>1. /\ story.takes \in Takes /\ co.take = story.takes /\ story.takes \in Nat
      /\ ControlOK(ctl, story.takes) /\ ctl \in Controls
  BY HostFacts, RoomFacts
<1>2. faults' \subseteq Faults
  BY HostFacts, SpendTyped DEF PublishStop, Publish
<1>3. CASE ctl' = ctl
  BY <1>1, <1>2, <1>3, ToldSame
<1>4. CASE CanFinalize(ctl, co.take) /\ ctl' = Finalized(ctl)
  <2>1. "finalizing" \in Signals /\ Rank["finalizing"] >= Rank[ctl.signal]
    BY <1>4 DEF CanFinalize, Rank, Signals, Stopped
  <2> QED
    BY <1>1, <1>2, <1>4, <2>1, ToldSignal DEF Finalized
<1>5. CASE CanFinalizeArmed(ctl, co.arm) /\ co.arm.take = co.take /\ ctl' = ArmFinalized(ctl, co.take)
  <2>1. ctl.take # co.take
    BY <1>1, <1>5, ControlFields DEF CanFinalizeArmed, ControlOK
  <2> QED
    BY <1>1, <1>2, <1>5, <2>1, ToldCommitted DEF ArmFinalized
<1> QED
  BY <1>3, <1>4, <1>5 DEF PublishStop, Publish

LEMMA CancelTold ==
  ASSUME Host, Room, NEW accepted, accepted => ctl.arm # NoArm,
         ctl' \in {ctl, Cancelled(ctl), CancelUnwritten(ctl)}, accepted \/ ctl' = ctl
  PROVE  Told(ctl, ctl', story.takes, story.takes)
  BY RoomFacts, ToldSame, ToldCancel

LEMMA CancelEffects ==
  ASSUME Host, NEW accepted, CancelArm(accepted)
  PROVE  /\ faults' \subseteq Faults /\ ctl' \in {ctl, Cancelled(ctl), CancelUnwritten(ctl)}
         /\ accepted \/ ctl' = ctl
  BY HostFacts, SpendTyped DEF CancelArm, Publish

LEMMA CanCancelArm ==
  /\ \A t : CanCancel(ctl, t) => ctl.arm # NoArm
  /\ \A arm : CanCancelExact(ctl, arm) => ctl.arm # NoArm
  BY DEF CanCancel, CanCancelExact, NoArm

LEMMA QuietPhases == {"error", "complete", "needs_attention"} \subseteq Phases \ Busy
  BY DEF Phases, Busy

LEMMA RetiredFields ==
  ASSUME NEW c \in Coordinators, NEW p \in Phases
  PROVE  /\ [Retired(c) EXCEPT !.phase = p] \in Coordinators
         /\ [Retired(c) EXCEPT !.phase = p].take = NoTake
         /\ [Retired(c) EXCEPT !.phase = p].phase = p
         /\ [Retired(c) EXCEPT !.phase = p].validating \in {c.validating, NoTake}
         /\ [Retired(c) EXCEPT !.phase = p].seen = c.seen
         /\ [Retired(c) EXCEPT !.phase = p].observed = c.observed
         /\ [Retired(c) EXCEPT !.phase = p].attempt = c.attempt
  BY ArmTypes DEF Retired, Coordinators

\* The next take is the active one; its number is new.
LEMMA BooksStarted ==
  ASSUME Host, readiness' \in BOOLEAN, readiness' => story'.takes < MaxTakes,
         UNCHANGED validating, story' \in Stories, story'.takes >= story.takes,
         story'.launched = story.launched,
         co' \in Coordinators, co'.take \in Takes, co'.take = story'.takes,
         co'.validating = co.validating, co'.take = co.take \/ story'.takes > story.takes
  PROVE  Books'
<1>1. /\ story.takes \in Nat /\ story'.takes \in Nat /\ co.validating \in Nat
      /\ co.validating <= story.takes
  BY HostFacts, StoryFields
<1>2. \A t \in Takes : t \in Nat
  BY ArmTypes
<1>3. Validations'
  <2>1. CASE co'.take = co.take
    BY <1>1, <1>2, <2>1 DEF Host, Books, Validations
  <2>2. CASE story'.takes > story.takes
    BY <1>1, <1>2, <2>2 DEF Host, Books, Validations
  <2> QED
    BY <2>1, <2>2
<1> QED
  BY <1>1, <1>3 DEF Host, Books
-----------------------------------------------------------------------------
(* From the Record button to the recorder's request.                       *)

LEMMA RecordStep ==
  ASSUME Host, Room, RecordPressed
  PROVE  Host' /\ Room' /\ Forward(ctl, ctl')
<1>1. /\ UNCHANGED <<waits, workers, replies, validating, recording, wire, notices, ctl, acks, guest, faults, story>>
      /\ co' = [co EXCEPT !.phase = "preflight"] /\ readiness' \in BOOLEAN /\ readiness'
  BY DEF RecordPressed, server, room
<1>2. story.takes < MaxTakes
  <2>1. Cardinality(faults \cap {"foreign"}) \in Nat
    BY FS_Singleton, FS_Intersection, FS_CardinalityType
  <2>2. MaxTakes \in Nat
    BY RecordingAssumption DEF RecordingAssumption
  <2> QED
    BY <2>1, <2>2, HostFacts DEF RecordPressed
<1>3. /\ co' \in Coordinators /\ co'.take = co.take /\ co'.validating = co.validating
      /\ co'.phase = "preflight" /\ co'.seen = co.seen /\ co'.observed = co.observed
      /\ co'.attempt = co.attempt
  BY <1>1, HostFacts DEF Coordinators, Phases, Busy
<1>4. Traffic' /\ Books'
  BY <1>1, <1>2, <1>3 DEF Host, Traffic, Books, Validations
<1>5. BusyOwned' /\ Unignored'
  BY <1>1, <1>3 DEF Host, BusyOwned, Unignored
<1> QED
  BY <1>1, <1>4, <1>5, RoomQuiet DEF Host

LEMMA GoStep ==
  ASSUME Host, Room, NEW c \in Coordinators, Go(c),
         UNCHANGED <<replies, validating, recording, wire, notices>>,
         readiness' \in BOOLEAN, readiness' => story'.takes < MaxTakes,
         story' \in Stories, story'.takes >= story.takes, story'.launched = story.launched,
         c.take \in Takes, c.take = story'.takes, c.take = co.take \/ story'.takes > story.takes,
         c.validating = co.validating, c.seen = co.seen, c.observed = co.observed, c.attempt = co.attempt
  PROVE  Host' /\ Told(ctl, ctl', story.takes, story'.takes)
<1>1. /\ story.takes \in Nat /\ story'.takes \in Nat /\ ControlOK(ctl, story.takes)
      /\ c.take # NoTake /\ (co.observed \/ co.attempt => co.seen)
  BY HostFacts, RoomFacts, StoryFields, ArmTypes
<1>2. CASE /\ co' = [c EXCEPT !.phase = "starting"] /\ UNCHANGED <<ctl, faults>>
           /\ workers' = workers \cup {[take |-> c.take, target |-> TRUE, attempt |-> FALSE, sent |-> FALSE]}
  <2> DEFINE w == [take |-> c.take, target |-> TRUE, attempt |-> FALSE, sent |-> FALSE]
  <2>1. /\ w \in [take : {NoTake} \cup Takes, target : BOOLEAN, attempt : BOOLEAN, sent : BOOLEAN]
        /\ w.take = c.take /\ w.target = TRUE
    OBVIOUS
  <2>2. workers' = workers \cup {w}
    BY <1>2
  <2>3. /\ co' \in Coordinators /\ co'.phase = "starting" /\ co'.take = c.take /\ co'.validating = co.validating
        /\ co'.seen = co.seen /\ co'.observed = co.observed /\ co'.attempt = co.attempt
    BY <1>2 DEF Coordinators, Phases, Busy
  <2> HIDE DEF w
  <2>4. Traffic'
    BY <1>1, <1>2, <2>1, <2>2 DEF Host, Traffic
  <2>5. Books'
    BY <2>3, BooksStarted
  <2>6. BusyOwned' /\ Unignored'
    BY <1>1, <2>1, <2>2, <2>3 DEF BusyOwned, Unignored, Asked
  <2> QED
    BY <1>1, <1>2, <2>4, <2>5, <2>6, ToldSame DEF Host
<1>3. CASE /\ co' = [Retired(c) EXCEPT !.phase = "error"]
           /\ CancelArm(CanCancel(ctl, c.take)) /\ UNCHANGED workers
  <2>1. "error" \in Phases /\ "error" \notin Busy
    BY QuietPhases
  <2>2. /\ co' \in Coordinators /\ co'.take = NoTake /\ co'.validating \in {co.validating, NoTake}
        /\ co'.phase \notin Busy /\ (co'.observed \/ co'.attempt => co'.seen)
    BY <1>1, <1>3, <2>1, RetiredFields
  <2>3. /\ faults' \subseteq Faults /\ ctl' \in {ctl, Cancelled(ctl), CancelUnwritten(ctl)}
        /\ CanCancel(ctl, c.take) \/ ctl' = ctl
    BY <1>3, CancelEffects
  <2>4. Traffic'
    BY <1>3, <2>3 DEF Host, Traffic
  <2>5. Host'
    BY <2>2, <2>4, HostRetired
  <2>6. Told(ctl, ctl', story.takes, story.takes)
    BY <2>3, CanCancelArm, CancelTold
  <2> QED
    BY <1>1, <2>5, <2>6, ToldLater
<1> QED
  BY <1>2, <1>3 DEF Go

LEMMA ArmWaitedStep ==
  ASSUME Host, Room, NEW arm \in waits, ArmWaited(arm)
  PROVE  Host' /\ Room' /\ Forward(ctl, ctl')
<1>1. /\ waits' = waits \ {arm}
      /\ UNCHANGED <<readiness, replies, validating, recording, wire, notices, acks, guest, story>>
  BY DEF ArmWaited, server
<1>2. arm \in Arms /\ arm.take \in Takes /\ arm # NoArm
  BY ArmTypes DEF Room, RoomOK, Known, Proper
<1>3. /\ story \in Stories /\ story.takes \in Nat /\ readiness \in BOOLEAN
      /\ (readiness => story.takes < MaxTakes) /\ (co.observed \/ co.attempt => co.seen)
      /\ co \in Coordinators /\ (co.take # NoTake => co.take = story.takes /\ co.take \in Takes)
  BY HostFacts DEF Host, Books
<1>4. Host' /\ Told(ctl, ctl', story.takes, story.takes)
  <2>1. CASE co.phase # "preflight" \/ co.take # arm.take
    <3>1. CancelArm(CanCancelExact(ctl, arm)) /\ UNCHANGED <<co, workers>>
      BY <2>1 DEF ArmWaited
    <3>2. /\ faults' \subseteq Faults /\ ctl' \in {ctl, Cancelled(ctl), CancelUnwritten(ctl)}
          /\ CanCancelExact(ctl, arm) \/ ctl' = ctl
      BY <3>1, CancelEffects
    <3>3. Traffic' /\ Books' /\ Unignored'
      BY <1>1, <3>1, <3>2 DEF Host, Traffic, Books, Validations, Unignored
    <3>4. BusyOwned'
      BY <1>1, <2>1, <3>1 DEF Host, BusyOwned, Asked
    <3> QED
      BY <3>2, <3>3, <3>4, CanCancelArm, CancelTold DEF Host
  <2>2. CASE FailArm
    <3>1. /\ faults' \subseteq Faults /\ ctl' \in {ctl, Cancelled(ctl), CancelUnwritten(ctl)}
          /\ CanCancel(ctl, co.take) \/ ctl' = ctl
      BY <2>2, CancelEffects DEF FailArm
    <3>2. /\ co' \in Coordinators /\ co'.take = NoTake /\ co'.validating \in {co.validating, NoTake}
          /\ co'.phase \notin Busy /\ (co'.observed \/ co'.attempt => co'.seen)
      BY <1>3, <2>2, QuietPhases, RetiredFields DEF FailArm
    <3>3. Traffic'
      BY <1>1, <2>2, <3>1 DEF Host, Traffic, FailArm
    <3>4. Host'
      BY <1>1, <1>3, <3>2, <3>3, HostRetired
    <3> QED
      BY <3>1, <3>4, CanCancelArm, CancelTold
  <2>3. CASE co.take = arm.take /\ Go(co)
    <3>1. co.take # NoTake
      BY <1>2, <2>3, ArmTypes
    <3> QED
      BY <1>1, <1>3, <2>3, <3>1, GoStep
  <2> QED
    BY <2>1, <2>2, <2>3 DEF ArmWaited
<1> QED
  BY <1>1, <1>3, <1>4, RoomPublished

LEMMA ReadinessStep ==
  ASSUME Host, Room, NEW guests \in SUBSET Guests, ReadinessDone(guests)
  PROVE  Host' /\ Room' /\ Forward(ctl, ctl')
<1> DEFINE t == story.takes + 1
           c == [co EXCEPT !.take = t, !.started = FALSE, !.ended = FALSE, !.arm = NoArm]
           told == [story EXCEPT !.takes = t]
<1>1. /\ readiness' \in BOOLEAN /\ ~readiness' /\ story.takes < MaxTakes
      /\ UNCHANGED <<replies, validating, recording, wire, notices, acks, guest>>
  BY DEF ReadinessDone, Host, Books, server
<1>2. /\ story \in Stories /\ story.takes \in Nat /\ co \in Coordinators /\ MaxTakes \in Nat
      /\ (co.observed \/ co.attempt => co.seen) /\ ControlOK(ctl, story.takes) /\ ctl \in Controls
  BY HostFacts, RoomFacts, RecordingAssumption DEF RecordingAssumption
<1>3. t \in Takes /\ t \in Nat /\ t > story.takes
  BY <1>1, <1>2 DEF Takes
<1>4. /\ c \in Coordinators /\ c.take = t /\ c.validating = co.validating /\ c.seen = co.seen
      /\ c.observed = co.observed /\ c.attempt = co.attempt /\ c.phase = co.phase
  BY <1>2, <1>3, ArmTypes DEF Coordinators
<1>5. told \in Stories /\ told.takes = t /\ told.launched = story.launched
  BY <1>1, <1>2, <1>3 DEF Stories
<1>6. \/ co.phase # "preflight" /\ UNCHANGED <<co, waits, workers, ctl, faults, story>>
      \/ /\ co' = [co EXCEPT !.phase = "error"]
         /\ UNCHANGED <<waits, workers, ctl, faults, story>>
      \/ Go(c) /\ story' = told /\ UNCHANGED waits
      \/ /\ co.phase = "preflight" /\ story' = told
         /\ Publish(CanArm(ctl, t), Armed(ctl, t, guests), ArmUnwritten(ctl, guests))
         /\ LET arm == ctl'.arm
            IN IF arm.take = t
               THEN /\ co' = [c EXCEPT !.arm = arm]
                    /\ waits' = waits \cup {arm}
               ELSE co' = [Retired(c) EXCEPT !.phase = "error"] /\ UNCHANGED waits
         /\ UNCHANGED workers
  BY DEF ReadinessDone
<1> HIDE DEF c, t, told
<1>7. CASE co.phase # "preflight" /\ UNCHANGED <<co, waits, workers, ctl, faults, story>>
  <2>1. Traffic' /\ Books' /\ Unignored'
    BY <1>1, <1>7 DEF Host, Traffic, Books, Validations, Unignored
  <2>2. BusyOwned'
    BY <1>1, <1>7 DEF Host, BusyOwned, Asked
  <2> QED
    BY <1>1, <1>7, <2>1, <2>2, RoomQuiet DEF Host
<1>8. CASE /\ co' = [co EXCEPT !.phase = "error"]
           /\ UNCHANGED <<waits, workers, ctl, faults, story>>
  <2>1. /\ co' \in Coordinators /\ co'.take = co.take /\ co'.validating = co.validating
        /\ co'.phase \notin Busy /\ (co'.observed \/ co'.attempt => co'.seen)
    BY <1>2, <1>8 DEF Coordinators, Phases, Busy
  <2>2. Traffic'
    BY <1>1, <1>8 DEF Host, Traffic
  <2> QED
    BY <1>1, <1>8, <2>1, <2>2, HostSettled, RoomQuiet
<1>9. CASE Go(c) /\ story' = told /\ UNCHANGED waits
  <2>1. Host' /\ Told(ctl, ctl', story.takes, story'.takes)
    BY <1>1, <1>2, <1>3, <1>4, <1>5, <1>9, GoStep
  <2> QED
    BY <1>1, <1>2, <1>3, <1>5, <1>9, <2>1, RoomPublished
<1>10. CASE /\ co.phase = "preflight" /\ story' = told
            /\ Publish(CanArm(ctl, t), Armed(ctl, t, guests), ArmUnwritten(ctl, guests))
            /\ LET arm == ctl'.arm
               IN IF arm.take = t
                  THEN /\ co' = [c EXCEPT !.arm = arm]
                       /\ waits' = waits \cup {arm}
                  ELSE co' = [Retired(c) EXCEPT !.phase = "error"] /\ UNCHANGED waits
            /\ UNCHANGED workers
  <2>1. /\ Told(ctl, ctl', story.takes, t) /\ faults' \subseteq Faults /\ ctl'.arm \in Arms
    <3>1. faults' \subseteq Faults
      BY <1>10, HostFacts, SpendTyped DEF Publish
    <3>2. CASE ctl' = ctl
      BY <1>2, <1>3, <3>1, <3>2, ToldSame, ControlFields
    <3>3. CASE CanArm(ctl, t) /\ ctl' \in {Armed(ctl, t, guests), ArmUnwritten(ctl, guests)}
      <4>1. Told(ctl, ctl', story.takes, t)
        BY <1>1, <1>2, <3>3, ToldArmed DEF t
      <4> QED
        BY <3>1, <4>1, ControlFields DEF Told, ControlOK
    <3> QED
      BY <1>10, <3>2, <3>3 DEF Publish
  <2>2. Traffic'
    BY <1>1, <1>10, <2>1 DEF Host, Traffic
  <2>3. CASE ctl'.arm.take = t
    <3>1. co' = [c EXCEPT !.arm = ctl'.arm] /\ waits' = waits \cup {ctl'.arm} /\ ctl'.arm # NoArm
      BY <1>3, <1>10, <2>3, ArmTypes
    <3>2. /\ co' \in Coordinators /\ co'.take = t /\ co'.validating = co.validating /\ co'.seen = co.seen
          /\ co'.observed = co.observed /\ co'.attempt = co.attempt /\ co'.phase = "preflight"
      BY <1>4, <1>10, <2>1, <3>1 DEF Coordinators
    <3>3. Books'
      BY <1>1, <1>2, <1>3, <1>5, <1>10, <3>2, BooksStarted
    <3>4. BusyOwned' /\ Unignored'
      BY <1>2, <2>3, <3>1, <3>2 DEF BusyOwned, Unignored
    <3>5. Room' /\ Forward(ctl, ctl')
      BY <1>1, <1>2, <1>3, <1>5, <1>10, <2>1, <3>1, RoomPublished
    <3> QED
      BY <2>2, <3>3, <3>4, <3>5 DEF Host
  <2>4. CASE ctl'.arm.take # t
    <3>1. co' = [Retired(c) EXCEPT !.phase = "error"] /\ UNCHANGED waits
      BY <1>10, <2>4
    <3>2. /\ co' \in Coordinators /\ co'.take = NoTake /\ co'.validating \in {co.validating, NoTake}
          /\ co'.phase \notin Busy /\ (co'.observed \/ co'.attempt => co'.seen)
      BY <1>2, <1>4, <3>1, QuietPhases, RetiredFields
    <3>3. Host'
      BY <1>1, <1>2, <1>3, <1>5, <1>10, <2>2, <3>2, HostRetired
    <3>4. Room' /\ Forward(ctl, ctl')
      BY <1>1, <1>2, <1>3, <1>5, <1>10, <2>1, <3>1, RoomPublished
    <3> QED
      BY <3>3, <3>4
  <2> QED
    BY <2>3, <2>4
<1> QED
  BY <1>6, <1>7, <1>8, <1>9, <1>10
-----------------------------------------------------------------------------
(* What is made of replies and notifications.                              *)

LEMMA StopStep ==
  ASSUME Host, Room, StopPressed
  PROVE  Host' /\ Room' /\ Forward(ctl, ctl')
<1>1. PICK attempt \in BOOLEAN :
        /\ attempt => co.observed
        /\ co' = [co EXCEPT !.phase = "stopping", !.attempt = @ \/ attempt]
        /\ workers' = workers \cup {[take |-> co.take, target |-> FALSE, attempt |-> attempt, sent |-> FALSE]}
  BY DEF StopPressed
<1>2. UNCHANGED <<readiness, waits, replies, validating, recording, wire, notices, ctl, acks, guest, faults, story>>
  BY DEF StopPressed, server, room
<1>3. co \in Coordinators /\ (co.observed \/ co.attempt => co.seen)
  BY HostFacts
<1>4. /\ co' \in Coordinators /\ co'.phase = "stopping" /\ co'.take = co.take /\ co'.validating = co.validating
      /\ co'.seen = co.seen /\ co'.observed = co.observed
  BY <1>1, <1>3 DEF Coordinators, Phases, Busy
<1>5. co'.attempt <=> co.attempt \/ attempt
  BY <1>1, <1>3 DEF Coordinators
<1> DEFINE w == [take |-> co.take, target |-> FALSE, attempt |-> attempt, sent |-> FALSE]
<1>6. /\ w \in [take : {NoTake} \cup Takes, target : BOOLEAN, attempt : BOOLEAN, sent : BOOLEAN]
      /\ w.take = co.take /\ w.target = FALSE /\ ~w.target /\ (w.attempt => attempt)
  BY <1>3 DEF Coordinators
<1>7. workers' = workers \cup {w}
  BY <1>1
<1> HIDE DEF w
<1>8. Traffic'
  BY <1>2, <1>6, <1>7 DEF Host, Traffic
<1>9. Books'
  BY <1>2, <1>4 DEF Host, Books, Validations
<1>10. BusyOwned'
  BY <1>4, <1>6, <1>7 DEF BusyOwned, Asked
<1>11. Unignored'
  <2>1. w \in (workers \cup replies)' /\ (w.attempt => co'.attempt)
    BY <1>5, <1>6, <1>7
  <2>2. co'.observed \/ co'.attempt => co'.seen
    BY <1>1, <1>3, <1>4, <1>5
  <2> QED
    BY <1>4, <1>6, <2>1, <2>2 DEF Unignored
<1> QED
  BY <1>2, <1>8, <1>9, <1>10, <1>11, RoomQuiet DEF Host

\* What a handler of the coordinator leaves, apart from the messages under way.
Handled ==
  /\ Host' /\ faults' \subseteq Faults
  /\ Told(ctl, ctl', story.takes, story'.takes) /\ story' \in Stories /\ story.takes <= story'.takes

LEMMA Unpublished ==
  ASSUME Host, Room, UNCHANGED <<ctl, story, faults>>, Host'
  PROVE  Handled
  BY HostFacts, RoomFacts, ToldSame DEF Handled

LEMMA StopHandled ==
  ASSUME Host, Room, NEW c \in Coordinators, StopConfirmed(c), co.take # NoTake, c.take = co.take,
         c.observed \/ c.attempt => c.seen,
         UNCHANGED readiness, faults' \subseteq Faults => Traffic'
  PROVE  Handled
<1>1. story.takes \in Nat /\ ControlOK(ctl, story.takes) /\ story \in Stories
  BY HostFacts, RoomFacts
<1>2. Told(ctl, ctl', story.takes, story.takes) /\ faults' \subseteq Faults
  <2>1. CASE UNCHANGED <<ctl, faults>>
    BY <1>1, <2>1, HostFacts, ToldSame
  <2>2. CASE PublishStop(co.take)
    BY <2>2, StopTold
  <2> QED
    BY <2>1, <2>2 DEF StopConfirmed
<1>3. /\ co' \in Coordinators /\ co'.take = co.take /\ co'.validating = co.take /\ co'.phase = "finalizing"
      /\ co'.seen = c.seen /\ co'.observed = c.observed /\ co'.attempt = c.attempt
  BY HostFacts DEF StopConfirmed, Coordinators, Phases, Busy
<1>4. Host'
  BY <1>2, <1>3, HostStopped DEF StopConfirmed
<1>5. story'.takes = story.takes /\ story' \in Stories
  BY <1>1, <1>4 DEF StopConfirmed, Stories, Host, Books
<1> QED
  BY <1>1, <1>2, <1>4, <1>5 DEF Handled

LEMMA ServerHandled ==
  ASSUME Host, Room, NEW on \in BOOLEAN, ServerState(on), ~Duplicate(on),
         UNCHANGED <<readiness, waits>>, faults' \subseteq Faults => Traffic'
  PROVE  Handled
<1> DEFINE c == [co EXCEPT !.seen = on, !.observed = on /\ co.take = NoTake, !.attempt = FALSE]
<1>1. co \in Coordinators /\ story.takes \in Nat /\ ControlOK(ctl, story.takes) /\ story \in Stories
  BY HostFacts, RoomFacts
<1>2. /\ c \in Coordinators /\ c.take = co.take /\ c.validating = co.validating /\ c.phase = co.phase
      /\ c.seen = on /\ c.observed = (on /\ co.take = NoTake) /\ c.attempt = FALSE
  BY <1>1 DEF Coordinators
<1>3. c.observed \/ c.attempt => c.seen
  BY <1>2
<1>4. IF on
      THEN /\ co' = [c EXCEPT !.armed = TRUE, !.phase = "recording", !.started = @ \/ co.take # NoTake]
           /\ IF co.take = NoTake \/ co.started THEN UNCHANGED <<ctl, faults>>
              ELSE PublishStart(co.take)
           /\ UNCHANGED <<validating, story>>
      ELSE IF co.take # NoTake THEN StopConfirmed([c EXCEPT !.armed = FALSE])
      ELSE /\ co' = [c EXCEPT !.armed = FALSE,
                              !.phase = IF @ \in {"starting", "recording", "stopping", "stop_failed"}
                                        THEN "idle" ELSE @]
           /\ UNCHANGED <<ctl, faults, validating, story>>
  BY DEF ServerState
<1> HIDE DEF c
<1>5. CASE on
  <2>1. /\ co' \in Coordinators /\ co'.take = co.take /\ co'.validating = co.validating
        /\ co'.phase = "recording" /\ co'.seen = c.seen /\ co'.observed = c.observed /\ co'.attempt = c.attempt
    BY <1>2, <1>4, <1>5 DEF Coordinators, Phases
  <2>2. Told(ctl, ctl', story.takes, story.takes) /\ faults' \subseteq Faults
    BY <1>1, <1>4, <1>5, HostFacts, StartTold, ToldSame
  <2>3. Host'
    BY <1>3, <1>4, <1>5, <2>1, <2>2, HostSettled DEF Host, Books, Busy
  <2> QED
    BY <1>1, <1>4, <1>5, <2>2, <2>3 DEF Handled
<1>6. CASE ~on /\ co.take # NoTake
  <2>1. PICK d : d = [c EXCEPT !.armed = FALSE]
    OBVIOUS
  <2>2. /\ d \in Coordinators /\ d.take = co.take /\ d.seen = c.seen /\ d.observed = c.observed
        /\ d.attempt = c.attempt
    BY <1>2, <2>1 DEF Coordinators
  <2>3. StopConfirmed(d)
    BY <1>4, <1>6, <2>1
  <2> QED
    BY <1>3, <1>6, <2>2, <2>3, StopHandled
<1>7. CASE ~on /\ co.take = NoTake
  <2>1. /\ co' = [c EXCEPT !.armed = FALSE,
                           !.phase = IF @ \in {"starting", "recording", "stopping", "stop_failed"}
                                     THEN "idle" ELSE @]
        /\ UNCHANGED <<ctl, faults, validating, story>>
    BY <1>4, <1>7
  <2>2. /\ co' \in Coordinators /\ co'.take = co.take /\ co'.validating = co.validating
        /\ co'.seen = c.seen /\ co'.observed = c.observed /\ co'.attempt = c.attempt
        /\ co'.phase \notin {"starting", "stopping"}
        /\ co'.phase = co.phase \/ co'.phase = "idle"
    BY <1>2, <2>1 DEF Coordinators, Phases, Busy
  <2>3. Traffic'
    BY <2>1, HostFacts
  <2>4. Books'
    BY <2>1, <2>2 DEF Host, Books, Validations
  <2>5. BusyOwned'
    <3>1. CASE co'.phase = "idle"
      BY <3>1 DEF BusyOwned
    <3>2. CASE co'.phase = co.phase
      <4>1. co'.phase = "preflight" => readiness' \/ \E arm \in waits' : arm.take = co'.take
        BY <2>2, <3>2 DEF Host, BusyOwned
      <4>2. co'.phase = "finalizing" => co'.take \in validating'
        BY <2>1, <2>2, <3>2 DEF Host, BusyOwned
      <4> QED
        BY <2>2, <4>1, <4>2 DEF BusyOwned
    <3> QED
      BY <2>2, <3>1, <3>2
  <2>6. Unignored'
    BY <1>3, <2>2 DEF Unignored
  <2> QED
    BY <2>1, <2>3, <2>4, <2>5, <2>6, Unpublished DEF Host
<1> QED
  BY <1>5, <1>6, <1>7

LEMMA FailHandled ==
  ASSUME Host, Room, NEW c \in Coordinators, Failed(c), c.take = co.take, c.validating = co.validating,
         c.observed \/ c.attempt => c.seen,
         UNCHANGED readiness, faults' \subseteq Faults => Traffic'
  PROVE  Handled
<1>1. UNCHANGED <<ctl, faults, validating, story>>
  BY DEF Failed
<1>2. /\ co' \in Coordinators /\ co'.take = co.take /\ co'.validating = co.validating
      /\ co'.phase \in {"stop_failed", "error"}
      /\ co'.seen = c.seen /\ co'.observed = c.observed /\ co'.attempt = c.attempt
  <2> DEFINE armed == co.armed \/ co.phase = "starting"
             phase == IF armed \/ co.seen THEN "stop_failed" ELSE "error"
  <2>1. armed \in BOOLEAN /\ phase \in {"stop_failed", "error"}
    OBVIOUS
  <2>2. co' = [c EXCEPT !.armed = armed, !.phase = phase]
    BY DEF Failed
  <2> HIDE DEF armed, phase
  <2>3. phase \in Phases
    BY <2>1 DEF Phases
  <2> QED
    BY <2>1, <2>2, <2>3 DEF Coordinators
<1>3. Traffic'
  BY <1>1, HostFacts
<1>4. Host'
  BY <1>1, <1>2, <1>3, HostSettled DEF Host, Books, Busy
<1> QED
  BY <1>1, <1>4, Unpublished

LEMMA NoticeStep ==
  ASSUME Host, Room, NoticeRead
  PROVE  Host' /\ Room' /\ Forward(ctl, ctl')
<1>1. /\ UNCHANGED <<readiness, waits, workers, replies, recording, wire, acks, guest>>
      /\ notices # <<>> /\ notices' = Tail(notices) /\ ServerState(Head(notices))
  BY DEF NoticeRead
<1>2. notices \in Seq(BOOLEAN) /\ Tail(notices) \in Seq(BOOLEAN) /\ Head(notices) \in BOOLEAN
  BY <1>1, HeadTailProperties DEF Host, Traffic
<1>3. PICK on \in BOOLEAN : ServerState(on)
  BY <1>1, <1>2
<1>4. ASSUME faults' \subseteq Faults PROVE Traffic'
  BY <1>1, <1>2, <1>4 DEF Host, Traffic
<1>5. Handled
  <2>1. CASE Duplicate(on)
    <3>1. UNCHANGED <<co, ctl, faults, validating, story>>
      BY <1>3, <2>1 DEF ServerState
    <3>2. Traffic'
      BY <1>4, <3>1, HostFacts
    <3>3. \A m \in Calls : Carried(m)
      BY <1>1 DEF Calls, Carried
    <3>4. Host'
      BY <1>1, <3>1, <3>2, <3>3, HostFacts, HostQuiet
    <3> QED
      BY <3>1, <3>4, Unpublished
  <2>2. CASE ~Duplicate(on)
    BY <1>1, <1>3, <1>4, <2>2, ServerHandled
  <2> QED
    BY <2>1, <2>2
<1> QED
  BY <1>1, <1>5, RoomPublished DEF Handled

\* A reply that changes nothing was not the one that its phase waits for.
LEMMA ReplyDropped ==
  ASSUME Host, NEW r \in replies, replies' = replies \ {r}, UNCHANGED workers,
         UNCHANGED <<readiness, waits, validating, story>>, Traffic',
         co' \in Coordinators, co'.phase = co.phase, co'.take = co.take, co'.validating = co.validating,
         co'.seen = co.seen, co'.observed = co.observed, co'.attempt = co.attempt,
         co.phase = "starting" => r.take # co.take \/ ~r.target \/ co.take \in validating,
         co.phase = "stopping" => r.take # co.take \/ r.target \/ co.take \in validating
                                  \/ (co.take = NoTake /\ r.attempt /\ ~co.attempt)
  PROVE  Host'
<1>1. Books'
  BY DEF Host, Books, Validations
<1>2. ASSUME NEW m \in workers \cup replies, m # r
      PROVE  m \in (workers \cup replies)'
  BY <1>2
<1>3. co.phase = "starting" => Asked(TRUE)' \/ co.take \in validating
  BY <1>2 DEF Host, BusyOwned, Asked
<1>4. ASSUME co.phase = "stopping", co.take = NoTake
      PROVE  \E m \in (workers \cup replies)' : m.take = NoTake /\ ~m.target /\ (m.attempt => co.attempt)
  <2>1. PICK m \in workers \cup replies : m.take = NoTake /\ ~m.target /\ (m.attempt => co.attempt)
    BY <1>4 DEF Host, Unignored
  <2>2. NoTake \notin validating
    BY ArmTypes DEF Host, Books
  <2> QED
    BY <1>2, <1>4, <2>1, <2>2
<1>5. ASSUME co.phase = "stopping" PROVE Asked(FALSE)' \/ co.take \in validating
  <2>1. CASE co.take = NoTake
    <3>1. PICK m \in (workers \cup replies)' : m.take = NoTake /\ ~m.target
      BY <1>4, <1>5, <2>1
    <3>2. m.target \in BOOLEAN
      BY <3>1 DEF Traffic
    <3> QED
      BY <2>1, <3>1, <3>2 DEF Asked
  <2>2. CASE co.take # NoTake /\ co.take \notin validating
    <3>1. PICK m \in workers \cup replies : m.take = co.take /\ m.target = FALSE
      BY <1>5, <2>2 DEF Host, BusyOwned, Asked
    <3>2. CASE m # r
      BY <1>2, <3>1, <3>2 DEF Asked
    <3>3. CASE m = r
      BY <1>5, <2>2, <3>1, <3>3
    <3> QED
      BY <3>2, <3>3
  <2> QED
    BY <2>1, <2>2
<1>6. BusyOwned'
  BY <1>3, <1>5 DEF Host, BusyOwned
<1>7. Unignored'
  BY <1>4 DEF Host, Unignored
<1> QED
  BY <1>1, <1>6, <1>7 DEF Host

LEMMA ReplyStep ==
  ASSUME Host, Room, NEW r \in replies, ReplyRead(r)
  PROVE  Host' /\ Room' /\ Forward(ctl, ctl')
<1>1. /\ UNCHANGED <<readiness, waits, workers, recording, wire, notices, acks, guest>>
      /\ replies' = replies \ {r}
  BY DEF ReplyRead, server
<1> SUFFICES Handled
  BY <1>1, RoomPublished DEF Handled
<1>2. ASSUME faults' \subseteq Faults PROVE Traffic'
  BY <1>1, <1>2 DEF Host, Traffic
<1>3. /\ co \in Coordinators /\ (co.observed \/ co.attempt => co.seen) /\ faults \subseteq Faults
      /\ r.target \in BOOLEAN /\ r.attempt \in BOOLEAN
  BY HostFacts DEF Host, Traffic
<1>4. ASSUME Ignored,
             co.phase = "starting" => r.take # co.take \/ ~r.target \/ co.take \in validating,
             co.phase = "stopping" => r.take # co.take \/ r.target \/ co.take \in validating
                                      \/ (co.take = NoTake /\ r.attempt /\ ~co.attempt)
      PROVE  Handled
  <2>1. UNCHANGED <<co, ctl, faults, validating, story>>
    BY <1>4 DEF Ignored
  <2>2. Traffic'
    BY <1>2, <1>3, <2>1
  <2>3. Host'
    BY <1>1, <1>3, <1>4, <2>1, <2>2, ReplyDropped
  <2> QED
    BY <2>1, <2>3, Unpublished
<1>5. CASE r.take # NoTake
  <2>1. TakeReply(r)
    BY <1>5 DEF ReplyRead
  <2>2. CASE ~Current(r) \/ (~r.ok /\ LateStart(r))
    <3>1. Ignored
      BY <2>1, <2>2 DEF TakeReply
    <3>2. CASE r.take # co.take
      BY <1>4, <3>1, <3>2
    <3>3. CASE r.take = co.take /\ co.take = co.validating
      <4>1. co.take \in validating
        BY <1>5, <3>3 DEF Host, Books, Validations
      <4> QED
        BY <1>4, <3>1, <4>1
    <3>4. CASE LateStart(r)
      <4>1. r.target /\ co.phase # "starting"
        BY <3>4 DEF LateStart
      <4> QED
        BY <1>4, <3>1, <4>1
    <3> QED
      BY <2>2, <3>2, <3>3, <3>4 DEF Current
  <2>3. CASE Current(r) /\ r.ok
    <3>1. Confirmed(r) /\ r.take = co.take
      BY <2>1, <2>3 DEF TakeReply, Current
    <3>2. CASE r.target /\ LateStart(r)
      <4>1. co' = [co EXCEPT !.started = TRUE] /\ UNCHANGED <<ctl, faults, validating, story>>
        BY <3>1, <3>2 DEF Confirmed
      <4>2. /\ co' \in Coordinators /\ co'.phase = co.phase /\ co'.take = co.take
            /\ co'.validating = co.validating
            /\ co'.seen = co.seen /\ co'.observed = co.observed /\ co'.attempt = co.attempt
        BY <1>3, <4>1 DEF Coordinators
      <4>3. Traffic' /\ co.phase # "starting"
        BY <1>2, <1>3, <3>2, <4>1 DEF LateStart
      <4>4. Host'
        BY <1>1, <3>2, <4>1, <4>2, <4>3, ReplyDropped
      <4> QED
        BY <4>1, <4>4, Unpublished
    <3>3. CASE r.target /\ ~LateStart(r)
      <4>1. /\ co' = [co EXCEPT !.armed = TRUE, !.phase = "recording", !.started = TRUE]
            /\ IF co.started THEN UNCHANGED <<ctl, faults>> ELSE PublishStart(r.take)
            /\ UNCHANGED <<validating, story>>
        BY <3>1, <3>3 DEF Confirmed
      <4>2. /\ co' \in Coordinators /\ co'.phase = "recording" /\ co'.take = co.take
            /\ co'.validating = co.validating
            /\ co'.seen = co.seen /\ co'.observed = co.observed /\ co'.attempt = co.attempt
        BY <1>3, <4>1 DEF Coordinators, Phases
      <4>3. Told(ctl, ctl', story.takes, story.takes) /\ faults' \subseteq Faults
        BY <1>3, <1>5, <3>1, <4>1, HostFacts, RoomFacts, StartTold, ToldSame
      <4>4. Traffic'
        BY <1>2, <4>3
      <4>5. Host'
        BY <1>1, <1>3, <4>1, <4>2, <4>4, HostSettled DEF Host, Books, Busy
      <4> QED
        BY <4>1, <4>3, <4>5, HostFacts DEF Handled
    <3>4. CASE ~r.target
      <4>1. PICK c : c = [co EXCEPT !.armed = FALSE]
        OBVIOUS
      <4>2. StopConfirmed(c)
        BY <3>1, <3>4, <4>1 DEF Confirmed
      <4>3. /\ c \in Coordinators /\ c.take = co.take
            /\ c.seen = co.seen /\ c.observed = co.observed /\ c.attempt = co.attempt
        BY <1>3, <4>1 DEF Coordinators
      <4> QED
        BY <1>1, <1>2, <1>3, <1>5, <3>1, <4>2, <4>3, StopHandled
    <3> QED
      BY <3>2, <3>3, <3>4
  <2>4. CASE Current(r) /\ ~r.ok /\ ~LateStart(r)
    <3>1. Failed(co)
      BY <2>1, <2>4 DEF TakeReply
    <3> QED
      BY <1>1, <1>2, <1>3, <3>1, FailHandled
  <2> QED
    BY <2>2, <2>3, <2>4
<1>6. CASE r.take = NoTake /\ r.attempt
  <2>1. ObservedReply(r)
    BY <1>6 DEF ReplyRead
  <2>2. CASE co.take # NoTake \/ ~co.attempt
    <3>1. Ignored
      BY <2>1, <2>2 DEF ObservedReply
    <3>2. co.phase = "starting" => co.take # NoTake
      BY DEF Host, Unignored
    <3> QED
      BY <1>4, <1>6, <2>2, <3>1, <3>2
  <2>3. CASE co.take = NoTake /\ co.attempt /\ r.ok
    <3>1. ServerState(FALSE)
      BY <2>1, <2>3 DEF ObservedReply
    <3>2. ~Duplicate(FALSE)
      BY <1>3, <2>3 DEF Duplicate
    <3> QED
      BY <1>1, <1>2, <3>1, <3>2, ServerHandled
  <2>4. CASE co.take = NoTake /\ co.attempt /\ ~r.ok
    <3>1. PICK c : c = [co EXCEPT !.attempt = FALSE]
      OBVIOUS
    <3>2. Failed(c)
      BY <2>1, <2>4, <3>1 DEF ObservedReply
    <3>3. /\ c \in Coordinators /\ c.take = co.take /\ c.validating = co.validating
          /\ c.seen = co.seen /\ c.observed = co.observed /\ ~c.attempt
      BY <1>3, <3>1 DEF Coordinators
    <3> QED
      BY <1>1, <1>2, <1>3, <3>2, <3>3, FailHandled
  <2> QED
    BY <2>2, <2>3, <2>4
<1>7. CASE r.take = NoTake /\ ~r.attempt
  <2>1. Failed(co)
    BY <1>7 DEF ReplyRead
  <2> QED
    BY <1>1, <1>2, <1>3, <2>1, FailHandled
<1> QED
  BY <1>5, <1>6, <1>7

LEMMA ValidatedStep ==
  ASSUME Host, Room, NEW t \in validating, NEW needs \in BOOLEAN, Validated(t, needs)
  PROVE  Host' /\ Room' /\ Forward(ctl, ctl')
<1>1. /\ UNCHANGED <<readiness, waits, workers, replies, recording, wire, notices, acks, guest, story>>
      /\ validating' = validating \ {t}
  BY DEF Validated, server
<1>2. ASSUME faults' \subseteq Faults PROVE Traffic'
  BY <1>1, <1>2 DEF Host, Traffic
<1>3. /\ story \in Stories /\ story.takes \in Nat /\ co \in Coordinators /\ ControlOK(ctl, story.takes)
      /\ (co.observed \/ co.attempt => co.seen) /\ ctl \in Controls /\ t \in Takes
      /\ faults \subseteq Faults /\ readiness \in BOOLEAN /\ (readiness => story.takes < MaxTakes)
  BY HostFacts, RoomFacts DEF Host, Books
<1>4. CASE t # co.take
  <2>1. UNCHANGED <<co, ctl, faults>>
    BY <1>4 DEF Validated
  <2>2. Traffic'
    BY <1>2, <1>3, <2>1
  <2>3. Books' /\ Unignored'
    BY <1>1, <1>4, <2>1 DEF Host, Books, Validations, Unignored
  <2>4. BusyOwned'
    BY <1>1, <1>4, <2>1 DEF Host, BusyOwned, Asked
  <2> QED
    BY <1>1, <2>1, <2>2, <2>3, <2>4, RoomQuiet DEF Host
<1>5. CASE t = co.take
  <2>1. /\ co' = [Retired(co) EXCEPT !.phase = IF needs THEN "needs_attention" ELSE "complete"]
        /\ IF CanFinish(ctl, t) THEN Publish(TRUE, Finished(ctl, needs), ctl)
           ELSE CancelArm(CanCancel(ctl, t))
    BY <1>5 DEF Validated
  <2>2. PICK p \in {"needs_attention", "complete"} :
          p = IF needs THEN "needs_attention" ELSE "complete"
    OBVIOUS
  <2>3. /\ co' \in Coordinators /\ co'.take = NoTake /\ co'.validating \in {co.validating, NoTake}
        /\ co'.phase \notin Busy /\ (co'.observed \/ co'.attempt => co'.seen)
    BY <1>3, <2>1, <2>2, QuietPhases, RetiredFields
  <2>4. Told(ctl, ctl', story.takes, story.takes) /\ faults' \subseteq Faults
    <3>1. CASE CanFinish(ctl, t) /\ ctl' = Finished(ctl, needs) /\ UNCHANGED faults
      <4>1. p \in Signals /\ Rank[p] >= Rank[ctl.signal]
        BY <1>3, ControlFields DEF Rank, Signals, Stopped
      <4>2. ctl' = [ctl EXCEPT !.signal = p]
        BY <2>2, <3>1 DEF Finished
      <4> QED
        BY <1>3, <3>1, <4>1, <4>2, ToldSignal
    <3>2. CASE CanFinish(ctl, t) /\ ctl' = ctl /\ (Spend("write") \/ UNCHANGED faults)
      BY <1>3, <3>2, SpendTyped, ToldSame
    <3>3. CASE ~CanFinish(ctl, t) /\ CancelArm(CanCancel(ctl, t))
      BY <3>3, CancelEffects, CanCancelArm, CancelTold
    <3> QED
      BY <2>1, <3>1, <3>2, <3>3 DEF Publish
  <2>5. Host'
    BY <1>1, <1>2, <1>3, <2>3, <2>4, HostRetired
  <2> QED
    BY <1>1, <1>3, <2>4, <2>5, RoomPublished
<1> QED
  BY <1>4, <1>5
-----------------------------------------------------------------------------
(* The invariant, and what it shows.                                       *)

LEMMA Step ==
  ASSUME Host, Room, [Next]_vars
  PROVE  Host' /\ Room' /\ Forward(ctl, ctl')
<1>1. CASE UNCHANGED vars
  <2>1. UNCHANGED <<host, server, story, faults, ctl, acks, guest, waits>>
    BY <1>1 DEF vars, host, server, room
  <2> QED
    BY <2>1, HostAside, HostFacts, RoomQuiet
<1>2. CASE Coordinator
  BY <1>2, ReadinessStep, ArmWaitedStep, WorkerStep, NoticeStep, ReplyStep, ValidatedStep DEF Coordinator
<1>3. CASE Recorder \/ Foreign \/ NoticeLost
  BY <1>3, RecorderStep DEF Recorder
<1> QED
  BY <1>1, <1>2, <1>3, RecordStep, StopStep, GuestStepped, AckStep DEF Next

\* In every reachable state, for any guests, takes, late callbacks and faults,
\* no callback, snapshot or acknowledgement under way can be taken for one of
\* a later take (recording_coordinator.py:982).
THEOREM Coherence == Spec => []Coherent
<1>1. Init => Host /\ Room
  BY Initial, Parts
<1>2. Host /\ Room /\ [Next]_vars => (Host /\ Room)'
  BY Step
<1>3. Spec => [](Host /\ Room)
  BY <1>1, <1>2, PTL DEF Spec
<1>4. Host /\ Room => Coherent
  BY Parts
<1> QED
  BY <1>3, <1>4, PTL

\* Every variable has its type, in every reachable state.
THEOREM TypeCorrect == Spec => []TypeOK
<1>1. Coherent => TypeOK
  BY DEF Coherent
<1> QED
  BY <1>1, Coherence, PTL

\* An acknowledgement that counts stands for audio: its guest is capturing the
\* armed take or keeps what it has captured, whatever the host and the guest
\* did while it was on its way (session_transfer.py:3405).
THEOREM Acknowledged == Spec => []AckedCaptures
<1>1. Coherent => AckedCaptures
  BY DEF Coherent
<1> QED
  BY <1>1, Coherence, PTL

\* No interleaving of notifications, RPC replies and validations launches the
\* validation of a take twice (recording_coordinator.py:845).
THEOREM Validates == Spec => []ValidatedOnce
<1>1. Coherent => ValidatedOnce
  BY DEF Coherent, Validations, ValidatedOnce
<1> QED
  BY <1>1, Coherence, PTL

\* A phase that ignores the Record button has a worker, a callback or a
\* validation under way that ends it (recording_coordinator.py:5518).
THEOREM Returns == Spec => []BusyOwned
<1>1. Coherent => BusyOwned
  BY DEF Coherent
<1> QED
  BY <1>1, Coherence, PTL

\* What the guests are told only goes forward, from take to take and from a
\* take's start to its end (session_transfer.py:3505).
THEOREM Advances == Spec => HistoryAdvances
<1>1. Coherent /\ [Next]_vars => Forward(ctl, ctl')
  BY Parts, Step
<1>2. Forward(ctl, ctl') => \/ ctl'.take > ctl.take
                            \/ ctl'.take = ctl.take /\ Rank[ctl'.signal] >= Rank[ctl.signal]
  BY DEF Forward
<1> QED
  BY <1>1, <1>2, Coherence, PTL DEF Spec, HistoryAdvances
-----------------------------------------------------------------------------
(* The audio of a take that the recorder was started for.                  *)

Kept == Asks /\ Spared

\* What a request, an arm or a discarded capture names is a take.
LEMMA LaunchedTyped ==
  ASSUME Host
  PROVE  Launched \subseteq Takes /\ NoTake \notin Launched /\ NoTake \notin validating
<1>1. \A m \in workers \cup wire : m.target => m.take \in Takes
  BY DEF Host, Traffic
<1>2. story.recorded \subseteq Takes /\ validating \subseteq Takes
  BY StoryFields DEF Host, Books
<1> QED
  BY <1>1, <1>2, ArmTypes DEF Launched

LEMMA ArmsFacts ==
  ASSUME Room
  PROVE  /\ ctl.arm \in Arms /\ ctl.cancel \in Arms
         /\ Known(ctl.arm, story.takes) /\ Known(ctl.cancel, story.takes)
         /\ ctl.arm # NoArm => ctl.take < ctl.arm.take
         /\ ctl.cancel.take # NoTake => ctl.arm.take # ctl.cancel.take
         /\ \A w \in waits : w \in Arms /\ Known(w, story.takes) /\ w.take # NoTake
         /\ \A g \in Guests :
              /\ guest[g].seen.cancel \in Arms /\ Known(guest[g].seen.cancel, story.takes)
              /\ guest[g].seen.cancel.take # NoTake => ctl.arm.take # guest[g].seen.cancel.take
              /\ guest[g].dropped \subseteq Takes
<1>1. ControlOK(ctl, story.takes) /\ ctl \in Controls /\ NoArm.take = NoTake
  BY RoomFacts DEF NoArm
<1>2. \A w \in waits : w \in Arms /\ Known(w, story.takes) /\ w.take # NoTake
  BY DEF Room, RoomOK, Known, Proper
<1>3. ASSUME NEW g \in Guests
      PROVE  /\ guest[g].seen.cancel \in Arms /\ Known(guest[g].seen.cancel, story.takes)
             /\ guest[g].seen.cancel.take # NoTake => ctl.arm.take # guest[g].seen.cancel.take
             /\ guest[g].dropped \subseteq Takes
  <2>1. guest[g] \in GuestStates /\ GuestOK(ctl, guest[g], story.takes)
    BY RoomFacts DEF WellFormed
  <2>2. guest[g].seen \in Snapshots /\ guest[g].dropped \subseteq Takes
    BY <2>1, GuestFields
  <2> QED
    BY <1>1, <2>1, <2>2 DEF GuestOK, Snapshots
<1> QED
  BY <1>1, <1>2, <1>3, ControlFields DEF ControlOK

\* A guest discards, or is told of, only what the host has canceled.
LEMMA KeptGuest ==
  ASSUME Host, Room, Kept, NEW g \in Guests, NEW q,
         UNCHANGED <<host, server, story, ctl>>, faults \subseteq faults',
         Become(g, q), NEW x \in {NoTake, ctl.cancel.take, guest[g].seen.cancel.take},
         q.dropped \subseteq guest[g].dropped \cup ({x} \ {NoTake}),
         q.seen.cancel \in {NoArm, ctl.cancel, guest[g].seen.cancel}
  PROVE  Kept'
<1>1. UNCHANGED <<co, waits, workers, validating, wire, Launched>>
  BY DEF host, server, Launched
<1>2. /\ guest'[g] = q /\ \A h \in Guests : h # g => guest'[h] = guest[h]
  BY RoomFacts DEF Become
<1>3. ASSUME NEW h \in Guests, NEW t \in guest'[h].dropped
      PROVE  t \in guest[h].dropped \/ (t # NoTake /\ t \in {ctl.cancel.take, guest[h].seen.cancel.take})
  BY <1>2, <1>3
<1>4. x <= story.takes /\ (x # NoTake => ctl.arm.take # x)
  BY ArmsFacts, ArmTypes, RoomFacts DEF Known
<1>5. Asks'
  <2>1. \A t \in Launched' \cup validating' \cup UNION {guest'[h].dropped : h \in Guests} : t <= story'.takes
    <3>1. ASSUME NEW h \in Guests, NEW t \in guest'[h].dropped PROVE t <= story.takes
      BY <1>3, <3>1, ArmsFacts DEF Known, Kept, Asks
    <3> QED
      BY <1>1, <3>1 DEF Kept, Asks
  <2>2. \A h \in Guests : ctl'.arm.take \notin guest'[h].dropped
    BY <1>3, ArmsFacts DEF Kept, Asks
  <2> QED
    BY <1>1, <2>1, <2>2 DEF Kept, Asks
<1>6. Spared'
  <2>1. ASSUME NEW t \in Launched, Clean(t) PROVE Clean(t)'
    <3>1. ASSUME NEW h \in Guests PROVE guest'[h].seen.cancel.take # t /\ t \notin guest'[h].dropped
      <4>1. t # NoTake /\ NoArm.take = NoTake /\ ctl.cancel.take # t /\ guest[h].seen.cancel.take # t
            /\ t \notin guest[h].dropped
        BY <2>1, LaunchedTyped DEF Clean, NoArm
      <4>2. guest'[h].seen.cancel \in {NoArm, ctl.cancel, guest[h].seen.cancel}
        BY <1>2
      <4> QED
        BY <1>3, <4>1, <4>2
    <3> QED
      BY <2>1, <3>1 DEF Clean
  <2> QED
    BY <1>1, <2>1 DEF Kept, Spared
<1> QED
  BY <1>5, <1>6 DEF Kept

\* The steps that ask for no start and arm nothing: what they cancel, if they
\* do, is no take that the recorder was started for.
LEMMA KeptMoved ==
  ASSUME Host, Room, Kept, faults \subseteq faults',
         \A g \in Guests : guest'[g].seen = guest[g].seen /\ guest'[g].dropped = guest[g].dropped,
         waits' \subseteq waits, validating' \subseteq validating, Launched' \subseteq Launched,
         story.takes <= story'.takes, story'.takes \in Nat,
         \A t \in story'.recorded : t \in story.recorded \/ (t = co.take /\ ~co.ended),
         \/ co'.take = NoTake
         \/ co'.take = co.take /\ co'.arm = co.arm /\ co'.ended = co.ended,
         \/ ctl'.arm = NoArm
         \/ ctl'.arm = ctl.arm /\ (ctl.arm # NoArm /\ FullyAcked(ctl) => FullyAcked(ctl')),
         \/ "write" \in faults'
         \/ ctl'.cancel \in {NoArm, ctl.cancel}
         \/ \A t \in Launched : t = ctl'.cancel.take => t \notin story'.recorded /\ t # co'.take
  PROVE  Kept'
<1>1. /\ NoArm.take = NoTake /\ NoTake \notin Launched /\ NoTake \notin validating /\ Launched \subseteq Takes
      /\ story.takes \in Nat /\ Takes \subseteq Nat
  BY LaunchedTyped, RoomFacts, ArmTypes DEF NoArm
<1>2. Asks'
  <2>1. \A t \in Launched' \cup validating' \cup UNION {guest'[g].dropped : g \in Guests} : t <= story'.takes
    <3>1. ASSUME NEW t \in Takes, t <= story.takes PROVE t <= story'.takes
      BY <1>1, <3>1
    <3>2. \A t \in Launched' \cup validating' \cup UNION {guest'[g].dropped : g \in Guests} :
            t \in Takes /\ t <= story.takes
      BY <1>1, ArmsFacts DEF Kept, Asks, Host, Books
    <3> QED
      BY <3>1, <3>2
  <2>2. \A w \in waits' : w.take \notin Launched' /\ (w.take = co'.take => w = co'.arm)
    BY ArmsFacts DEF Kept, Asks
  <2>3. co'.take \in validating' => co'.ended
    BY <1>1 DEF Kept, Asks
  <2>4. \A g \in Guests : ctl'.arm.take \notin guest'[g].dropped
    BY <1>1, ArmsFacts, ArmTypes DEF Kept, Asks
  <2>5. ASSUME co'.take \in Launched', ctl'.arm.take = co'.take
        PROVE  FullyAcked(ctl') /\ co'.arm = ctl'.arm
    <3>1. co.take \in Launched /\ co.take # NoTake /\ co'.take = co.take /\ co'.arm = co.arm
      BY <1>1, <2>5
    <3>2. ctl'.arm # NoArm /\ ctl'.arm = ctl.arm /\ (FullyAcked(ctl) => FullyAcked(ctl'))
      BY <1>1, <2>5, <3>1
    <3>3. FullyAcked(ctl) /\ co.arm = ctl.arm
      BY <2>5, <3>1, <3>2 DEF Kept, Asks
    <3> QED
      BY ONLY <3>1, <3>2, <3>3
  <2> QED
    BY <2>1, <2>2, <2>3, <2>4, <2>5 DEF Asks, FullyAcked
<1>3. ASSUME "write" \notin faults' PROVE Spared'
  <2>1. ASSUME NEW t \in Launched', t \in story'.recorded \/ (t = co'.take /\ ~co'.ended)
        PROVE  Clean(t)'
    <3>1. t \in Launched /\ t # NoTake /\ (t \in story.recorded \/ (t = co.take /\ ~co.ended))
      BY <1>1, <2>1
    <3>2. Clean(t)
      BY <1>3, <3>1 DEF Kept, Spared
    <3>3. ctl'.cancel.take # t
      BY <1>1, <1>3, <2>1, <3>1, <3>2 DEF Clean
    <3> QED
      BY <3>2, <3>3 DEF Clean
  <2>2. co'.ended /\ co'.take \in story'.recorded => ctl'.arm.take # co'.take
    <3>1. story.recorded \subseteq Launched
      BY DEF Launched
    <3>2. story'.recorded \subseteq Launched'
      BY DEF Launched
    <3> QED
      BY <1>1, <1>3, <3>1, <3>2 DEF Kept, Spared
  <2> QED
    BY <2>1, <2>2 DEF Spared
<1> QED
  BY <1>2, <1>3 DEF Kept, Spared

\* Seeing the stop commits the arm of the take, or finds it committed.
LEMMA KeptStopped ==
  ASSUME Host, Room, Kept, NEW c, StopConfirmed(c), co.take # NoTake, co \in Coordinators,
         co'.take = co.take, co'.arm = co.arm, co'.ended,
         UNCHANGED <<workers, wire, waits, guest>>
  PROVE  Kept'
<1>1. /\ co.take \in Takes /\ co.take = story.takes /\ story \in Stories /\ story.takes \in Nat
      /\ NoArm.take = NoTake /\ ctl \in Controls
  BY HostFacts, RoomFacts DEF NoArm
<1>2. /\ story'.takes = story.takes /\ story'.recorded = story.recorded
      /\ validating' \subseteq validating \cup {co.take}
  BY <1>1 DEF StopConfirmed, Stories
<1>3. UNCHANGED Launched
  BY <1>2 DEF Launched
<1>4. \/ UNCHANGED <<ctl, faults>> /\ co.ended
      \/ PublishStop(co.take) /\ ~co.ended
  BY <1>1 DEF StopConfirmed, Coordinators
<1>5. faults \subseteq faults'
  BY <1>4 DEF PublishStop, Publish, Spend
<1>6. /\ ctl'.arm \in {ctl.arm, NoArm} /\ ctl'.cancel \in {ctl.cancel, NoArm}
      /\ ctl'.arm = ctl.arm /\ ctl.arm # NoArm => ctl'.acks = ctl.acks /\ ctl'.required = ctl.required
  <2>1. CASE ctl' = ctl
    BY <2>1
  <2>2. CASE ctl' = Finalized(ctl)
    BY <1>1, <2>2 DEF Finalized, Controls
  <2>3. CASE ctl' = ArmFinalized(ctl, co.take)
    BY <1>1, <2>3 DEF ArmFinalized, Committed, CancelUnwritten, Controls
  <2> QED
    BY <1>4, <2>1, <2>2, <2>3 DEF PublishStop, Publish
<1>7. Asks'
  <2>1. \A t \in Launched \cup validating' \cup UNION {guest[g].dropped : g \in Guests} : t <= story.takes
    BY <1>1, <1>2 DEF Kept, Asks
  <2>2. \A w \in waits : w.take \notin Launched /\ (w.take = co'.take => w = co'.arm)
    BY DEF Kept, Asks
  <2>3. \A g \in Guests : ctl'.arm.take \notin guest[g].dropped
    BY <1>1, <1>6, ArmsFacts, ArmTypes DEF Kept, Asks
  <2>4. co'.take \in Launched /\ ctl'.arm.take = co'.take => FullyAcked(ctl') /\ co'.arm = ctl'.arm
    BY <1>1, <1>6 DEF Kept, Asks, FullyAcked
  <2> QED
    BY <1>2, <1>3, <2>1, <2>2, <2>3, <2>4 DEF Asks, FullyAcked
<1>8. ASSUME "write" \notin faults' PROVE Spared'
  <2>1. ASSUME NEW t \in Launched, t \in story.recorded \/ (t = co'.take /\ ~co'.ended)
        PROVE  Clean(t)'
    BY <1>1, <1>5, <1>6, <1>8, <2>1, LaunchedTyped DEF Kept, Spared, Clean
  <2>2. ASSUME co.take \in story.recorded PROVE ctl'.arm.take # co.take
    <3>1. CASE UNCHANGED <<ctl, faults>> /\ co.ended
      BY <1>8, <2>2, <3>1 DEF Kept, Spared
    <3>2. CASE CanFinalize(ctl, co.take) /\ ctl'.arm \in {ctl.arm, NoArm}
      BY <1>1, <3>2, ArmsFacts, ArmTypes DEF CanFinalize
    <3>3. CASE ctl' = ArmFinalized(ctl, co.take)
      <4>1. ctl'.arm = NoArm
        BY <1>1, <3>3 DEF ArmFinalized, Committed, CancelUnwritten, Controls
      <4> QED
        BY <1>1, <4>1
    <3>4. CASE ctl' = ctl /\ ~(CanFinalizeArmed(ctl, co.arm) /\ co.arm.take = co.take)
      <4>1. co.take \in Launched
        BY <2>2 DEF Launched
      <4> QED
        BY <1>1, <3>4, <4>1 DEF Kept, Asks, CanFinalizeArmed
    <3> QED
      BY <1>4, <1>6, <1>8, <3>1, <3>2, <3>3, <3>4 DEF PublishStop, Publish, Spend
  <2> QED
    BY <1>2, <1>3, <2>1, <2>2 DEF Spared
<1> QED
  BY <1>7, <1>8 DEF Kept, Spared

\* The request to start adds the take to those the recorder may be started for.
LEMMA LaunchedMore ==
  ASSUME NEW t, UNCHANGED wire, story'.recorded = story.recorded,
         workers' = workers \cup {[take |-> t, target |-> TRUE, attempt |-> FALSE, sent |-> FALSE]}
  PROVE  Launched' = Launched \cup {t}
<1> DEFINE w == [take |-> t, target |-> TRUE, attempt |-> FALSE, sent |-> FALSE]
<1>1. workers' = workers \cup {w} /\ w.take = t /\ w.target
  OBVIOUS
<1> HIDE DEF w
<1> QED
  BY <1>1 DEF Launched

\* A new take is not known to any guest: it is armed, or the recorder is asked
\* at once, no guest being required.
LEMMA KeptStarted ==
  ASSUME Host, Room, Kept, faults \subseteq faults', UNCHANGED <<validating, guest>>,
         story'.takes = story.takes + 1, story'.recorded = story.recorded,
         co'.take = story.takes + 1, co'.ended \in BOOLEAN, ~co'.ended,
         ctl'.cancel = ctl.cancel,
         \/ Launched' = Launched \cup {co'.take} /\ waits' = waits /\ ctl' = ctl
         \/ /\ Launched' = Launched
            /\ ctl'.arm.take = co'.take /\ co'.arm = ctl'.arm /\ waits' = waits \cup {ctl'.arm}
  PROVE  Kept'
<1> DEFINE t == story.takes + 1
<1>1. /\ story.takes \in Nat /\ Launched \subseteq Takes /\ validating \subseteq Takes /\ Takes \subseteq Nat
      /\ NoTake = 0
  BY LaunchedTyped, RoomFacts, ArmTypes DEF Host, Books
<1>2. \A u \in Launched \cup validating \cup UNION {guest[g].dropped : g \in Guests} : u <= story.takes /\ u \in Nat
  <2>1. \A g \in Guests : guest[g].dropped \subseteq Takes
    BY ArmsFacts
  <2>2. \A u \in Launched \cup validating \cup UNION {guest[g].dropped : g \in Guests} : u \in Takes
    BY <1>1, <2>1
  <2> QED
    BY <1>1, <2>2 DEF Kept, Asks
<1>3. t \in Nat /\ t # NoTake /\ t > story.takes /\ \A u \in Nat : u <= story.takes => u # t /\ u <= t
  BY <1>1
<1>4. \A arm \in {ctl.arm, ctl.cancel} \cup waits \cup {guest[g].seen.cancel : g \in Guests} : arm.take # t
  BY <1>3, ArmsFacts, ArmTypes DEF Known
<1> HIDE DEF t
<1>5. \A g \in Guests : t \notin guest[g].dropped
  BY <1>2, <1>3
<1>6. t \notin Launched /\ t \notin validating
  BY <1>2, <1>3
<1>7. co'.take = t /\ story'.takes = t
  BY DEF t
<1>8. Asks'
  <2>1. \A u \in Launched' \cup validating \cup UNION {guest[g].dropped : g \in Guests} : u <= t
    BY <1>2, <1>3, <1>7
  <2>2. \A w \in waits' : w.take \notin Launched' /\ (w.take = t => w = co'.arm)
    BY <1>4, <1>6, <1>7 DEF Kept, Asks
  <2>3. \A g \in Guests : ctl'.arm.take \notin guest[g].dropped
    BY <1>5, <1>7 DEF Kept, Asks
  <2>4. t \in Launched' /\ ctl'.arm.take = t => FALSE
    BY <1>4, <1>6, <1>7
  <2> QED
    BY <1>6, <1>7, <2>1, <2>2, <2>3, <2>4 DEF Asks
<1>9. ASSUME "write" \notin faults' PROVE Spared'
  <2>1. ASSUME NEW u \in Launched', u \in story.recorded \/ (u = t /\ ~co'.ended)
        PROVE  Clean(u)'
    <3>1. CASE u = t
      BY <1>4, <1>5, <3>1 DEF Clean
    <3>2. CASE u # t
      <4>1. u \in Launched /\ u \in story.recorded
        BY <1>7, <2>1, <3>2
      <4> QED
        BY <1>9, <4>1 DEF Kept, Spared, Clean
    <3> QED
      BY <3>1, <3>2
  <2> QED
    BY <1>7, <2>1 DEF Spared
<1> QED
  BY <1>8, <1>9 DEF Kept, Spared

\* The recorder is asked once every required guest has confirmed the arm.
LEMMA KeptReady ==
  ASSUME Host, Room, Kept, NEW arm \in waits, waits' = waits \ {arm},
         UNCHANGED <<ctl, guest, validating, faults>>, story'.takes = story.takes, story'.recorded = story.recorded,
         Ready(arm), co.take = arm.take,
         co'.take = co.take, co'.arm = co.arm, co'.ended = co.ended,
         Launched' = Launched \cup {co.take}
  PROVE  Kept'
<1>1. /\ co.arm = arm /\ ctl.arm = arm /\ FullyAcked(ctl) /\ arm.take # NoTake
      /\ \A w \in waits' : w.take # co.take
  BY ArmsFacts DEF Kept, Asks, Ready
<1>2. co.take <= story.takes
  BY <1>1, ArmsFacts DEF Known
<1>3. Clean(co.take)
  BY <1>1, ArmsFacts DEF Clean, Kept, Asks
<1>4. Asks'
  BY <1>1, <1>2 DEF Kept, Asks, FullyAcked
<1>5. Spared'
  BY <1>3 DEF Kept, Spared, Clean
<1> QED
  BY <1>4, <1>5 DEF Kept

LEMMA KeptQuiet ==
  ASSUME Host, Room, Kept, UNCHANGED <<ctl, guest>>, faults \subseteq faults',
         waits' \subseteq waits, validating' \subseteq validating, Launched' \subseteq Launched,
         story'.takes = story.takes,
         \A t \in story'.recorded : t \in story.recorded \/ (t = co.take /\ ~co.ended),
         co'.take = co.take, co'.arm = co.arm, co'.ended = co.ended
  PROVE  Kept'
  BY KeptMoved, RoomFacts

LEMMA SpendGrows ==
  ASSUME NEW kind, Spend(kind)
  PROVE  faults \subseteq faults' /\ kind \in faults'
  BY DEF Spend

\* What a cancellation does, or does not do.
LEMMA CancelKeeps ==
  ASSUME Host, Room, NEW accepted, CancelArm(accepted)
  PROVE  /\ faults \subseteq faults'
         /\ \/ ctl'.arm = NoArm
            \/ ctl'.arm = ctl.arm /\ (ctl.arm # NoArm /\ FullyAcked(ctl) => FullyAcked(ctl'))
         /\ \/ "write" \in faults'
            \/ ctl'.cancel = ctl.cancel
            \/ accepted /\ ctl'.cancel = ctl.arm
<1>1. ctl \in Controls
  BY RoomFacts
<1>2. CASE ctl' = ctl /\ UNCHANGED faults
  BY <1>2
<1>3. CASE accepted /\ ctl' = Cancelled(ctl) /\ UNCHANGED faults
  <2>1. ctl'.arm = NoArm /\ ctl'.cancel = ctl.arm
    BY <1>1, <1>3 DEF Cancelled, CancelUnwritten, Controls
  <2> QED
    BY <1>3, <2>1
<1>4. CASE accepted /\ ctl' = CancelUnwritten(ctl) /\ Spend("write")
  <2>1. ctl'.arm = ctl.arm /\ ctl'.cancel = ctl.cancel /\ ctl'.acks = {} /\ ctl'.required = {}
    BY <1>1, <1>4 DEF CancelUnwritten, Controls
  <2> QED
    BY <1>4, <2>1, SpendGrows DEF FullyAcked
<1> QED
  BY <1>2, <1>3, <1>4 DEF CancelArm, Publish

LEMMA RetiredParts ==
  ASSUME NEW c \in Coordinators, NEW p
  PROVE  [Retired(c) EXCEPT !.phase = p].take = NoTake
  BY DEF Retired, Coordinators

\* The publication of a start settles the arm of the take.
LEMMA StartKeepsArms ==
  ASSUME Room, NEW t, PublishStart(t)
  PROVE  /\ faults \subseteq faults' /\ ctl'.cancel \in {NoArm, ctl.cancel}
         /\ ctl'.arm = NoArm \/ ctl' = ctl
<1>1. ctl \in Controls
  BY RoomFacts
<1>2. Begun(ctl, t).arm = NoArm /\ Begun(ctl, t).cancel = NoArm
  BY <1>1 DEF Begun, Committed, CancelUnwritten, Controls
<1> QED
  BY <1>2, SpendGrows DEF PublishStart, Publish

LEMMA KeptWorker ==
  ASSUME Host, Room, Kept, NEW w \in workers,
         WorkerSends(w) \/ WorkerUnbound(w) \/ WorkerConfirms(w) \/ WorkerGivesUp(w)
  PROVE  Kept'
<1>1. UNCHANGED <<co, waits, validating, ctl, guest, story>> /\ faults \subseteq faults'
  BY SpendGrows DEF WorkerSends, WorkerUnbound, WorkerConfirms, WorkerGivesUp, room
<1>2. Launched' \subseteq Launched
  <2>1. CASE WorkerSends(w)
    <3>1. PICK v : v = [w EXCEPT !.sent = TRUE]
      OBVIOUS
    <3>2. w \in [take : {NoTake} \cup Takes, target : BOOLEAN, attempt : BOOLEAN, sent : BOOLEAN]
      BY DEF Host, Traffic
    <3>3. v.take = w.take /\ v.target = w.target
      BY <3>1, <3>2
    <3>4. Request(w).take = w.take /\ Request(w).target = w.target
      BY DEF Request
    <3>5. workers' = (workers \ {w}) \cup {v} /\ wire' = wire \cup {Request(w)}
      BY <2>1, <3>1 DEF WorkerSends
    <3>6. ASSUME NEW m \in workers' \cup wire', m.target PROVE m.take \in Launched
      BY <3>3, <3>4, <3>5, <3>6 DEF Launched
    <3> QED
      BY <1>1, <3>6 DEF Launched
  <2>2. CASE WorkerUnbound(w) \/ WorkerConfirms(w) \/ WorkerGivesUp(w)
    <3>1. workers' \subseteq workers /\ wire' = wire
      BY <2>2 DEF WorkerUnbound, WorkerConfirms, WorkerGivesUp, server
    <3> QED
      BY <1>1, <3>1 DEF Launched
  <2> QED
    BY <2>1, <2>2
<1> QED
  BY <1>1, <1>2, KeptQuiet

LEMMA KeptRecorder ==
  ASSUME Host, Room, Kept,
         \/ \E r \in wire : Executes(r) \/ Dropped(r)
         \/ Foreign \/ NoticeLost
  PROVE  Kept'
<1>1. UNCHANGED <<co, waits, workers, validating, ctl, guest>> /\ faults \subseteq faults'
  BY SpendGrows DEF Executes, Dropped, Foreign, NoticeLost, host, room
<1>2. story'.takes = story.takes /\ wire' \subseteq wire
  BY HostFacts DEF Executes, Dropped, Foreign, NoticeLost, Stories
<1>3. CASE UNCHANGED story
  <2>1. Launched' \subseteq Launched
    BY <1>1, <1>2, <1>3 DEF Launched
  <2> QED
    BY <1>1, <1>2, <1>3, <2>1, KeptQuiet
<1>4. CASE \E r \in wire : Executes(r) /\ r.target /\ r.take = co.take /\ ~co.ended
  <2>1. PICK r \in wire : Executes(r) /\ r.target /\ r.take = co.take /\ ~co.ended
    BY <1>4
  <2>2. story' = [story EXCEPT !.recorded = story.recorded \cup {r.take}]
    BY <2>1 DEF Executes
  <2>3. story'.recorded = story.recorded \cup {r.take} /\ r.take \in Launched
    BY <2>1, <2>2, HostFacts DEF Stories, Launched
  <2>4. Launched' \subseteq Launched
    BY <1>1, <1>2, <2>3 DEF Launched
  <2> QED
    BY <1>1, <1>2, <2>1, <2>3, <2>4, KeptQuiet
<1> QED
  BY <1>3, <1>4 DEF Executes, Dropped, Foreign, NoticeLost

LEMMA KeptPressed ==
  ASSUME Host, Room, Kept, RecordPressed \/ StopPressed
  PROVE  Kept'
<1>1. UNCHANGED <<waits, validating, wire, ctl, guest, faults, story>>
  BY DEF RecordPressed, StopPressed, server, room
<1>2. co'.take = co.take /\ co'.arm = co.arm /\ co'.ended = co.ended
  BY HostFacts DEF RecordPressed, StopPressed, Coordinators
<1>3. \A m \in workers' : m \in workers \/ m.target = FALSE
  BY DEF RecordPressed, StopPressed
<1>4. Launched' \subseteq Launched
  BY <1>1, <1>3 DEF Launched
<1> QED
  BY <1>1, <1>2, <1>4, KeptQuiet

LEMMA KeptWaited ==
  ASSUME Host, Room, Kept, NEW arm \in waits, ArmWaited(arm)
  PROVE  Kept'
<1>1. waits' = waits \ {arm} /\ UNCHANGED <<validating, wire, guest, story>>
  BY DEF ArmWaited, server
<1>2. arm.take \notin Launched /\ co \in Coordinators /\ story.takes \in Nat
  BY HostFacts DEF Kept, Asks
<1>3. story.recorded \subseteq Launched
  BY DEF Launched
<1>4. ASSUME NEW accepted, CancelArm(accepted), UNCHANGED workers,
             accepted => ctl.arm.take = arm.take,
             co'.take = NoTake \/ UNCHANGED co
      PROVE  Kept'
  <2>1. UNCHANGED Launched
    BY <1>1, <1>4 DEF Launched
  <2> QED
    BY <1>1, <1>2, <1>3, <1>4, <2>1, CancelKeeps, KeptMoved
<1>5. CASE co.phase # "preflight" \/ co.take # arm.take
  <2>1. CancelArm(CanCancelExact(ctl, arm)) /\ UNCHANGED <<co, workers>>
    BY <1>5 DEF ArmWaited
  <2> QED
    BY <1>4, <2>1 DEF CanCancelExact
<1>6. CASE co.take = arm.take /\ co' = [Retired(co) EXCEPT !.phase = "error"]
           /\ CancelArm(CanCancel(ctl, co.take)) /\ UNCHANGED workers
  BY <1>2, <1>4, <1>6, RetiredParts DEF CanCancel
<1>7. CASE /\ co.take = arm.take /\ Ready(arm) /\ co' = [co EXCEPT !.phase = "starting"]
           /\ workers' = workers \cup {[take |-> co.take, target |-> TRUE, attempt |-> FALSE, sent |-> FALSE]}
           /\ UNCHANGED <<ctl, faults>>
  <2>1. co'.take = co.take /\ co'.arm = co.arm /\ co'.ended = co.ended
    BY <1>2, <1>7 DEF Coordinators
  <2>2. Launched' = Launched \cup {co.take}
    BY <1>1, <1>7, LaunchedMore
  <2> QED
    BY <1>1, <1>7, <2>1, <2>2, KeptReady
<1> QED
  BY <1>5, <1>6, <1>7 DEF ArmWaited, FailArm, Go

LEMMA KeptReadiness ==
  ASSUME Host, Room, Kept, NEW guests \in SUBSET Guests, ReadinessDone(guests)
  PROVE  Kept'
<1> DEFINE t == story.takes + 1
           c == [co EXCEPT !.take = t, !.started = FALSE, !.ended = FALSE, !.arm = NoArm]
<1>1. UNCHANGED <<validating, wire, guest>> /\ story.takes < MaxTakes
  BY DEF ReadinessDone, Host, Books, server
<1>2. /\ co \in Coordinators /\ story \in Stories /\ story.takes \in Nat /\ MaxTakes \in Nat
      /\ ctl \in Controls
  BY HostFacts, RoomFacts, RecordingAssumption DEF RecordingAssumption
<1>3. t \in Takes /\ t \in Nat /\ t # NoTake /\ t > story.takes
  BY <1>1, <1>2 DEF Takes, NoTake
<1>4. c \in Coordinators /\ c.take = t /\ ~c.ended /\ c.ended \in BOOLEAN
  BY <1>2, <1>3, ArmTypes DEF Coordinators
<1>5. \/ /\ UNCHANGED <<waits, workers, ctl, faults, story>>
         /\ co' = co \/ co' = [co EXCEPT !.phase = "error"]
      \/ Go(c) /\ story' = [story EXCEPT !.takes = t] /\ UNCHANGED waits
      \/ /\ story' = [story EXCEPT !.takes = t]
         /\ Publish(CanArm(ctl, t), Armed(ctl, t, guests), ArmUnwritten(ctl, guests))
         /\ IF ctl'.arm.take = t
            THEN co' = [c EXCEPT !.arm = ctl'.arm] /\ waits' = waits \cup {ctl'.arm}
            ELSE co' = [Retired(c) EXCEPT !.phase = "error"] /\ UNCHANGED waits
         /\ UNCHANGED workers
  BY DEF ReadinessDone
<1> HIDE DEF c, t
<1>6. ctl.arm.take # t
  BY <1>2, <1>3, ArmsFacts, ArmTypes DEF Known
<1>7. CASE /\ UNCHANGED <<waits, workers, ctl, faults, story>>
           /\ co' = co \/ co' = [co EXCEPT !.phase = "error"]
  <2>1. UNCHANGED Launched
    BY <1>1, <1>7 DEF Launched
  <2>2. co'.take = co.take /\ co'.arm = co.arm /\ co'.ended = co.ended
    BY <1>2, <1>7 DEF Coordinators
  <2> QED
    BY <1>1, <1>7, <2>1, <2>2, KeptQuiet
<1>8. ASSUME story' = [story EXCEPT !.takes = t]
      PROVE  story'.takes = t /\ story'.recorded = story.recorded
  BY <1>2, <1>8 DEF Stories
<1>9. ASSUME story' = [story EXCEPT !.takes = t], UNCHANGED <<workers, waits>>, co'.take = NoTake,
             faults \subseteq faults', ctl'.cancel = ctl.cancel,
             \/ ctl'.arm = NoArm
             \/ ctl'.arm = ctl.arm /\ (ctl.arm # NoArm /\ FullyAcked(ctl) => FullyAcked(ctl'))
      PROVE  Kept'
  <2>1. UNCHANGED Launched
    BY <1>1, <1>8, <1>9 DEF Launched
  <2> QED
    BY <1>1, <1>2, <1>3, <1>8, <1>9, <2>1, KeptMoved
<1>10. CASE Go(c) /\ story' = [story EXCEPT !.takes = t] /\ UNCHANGED waits
  <2>1. CASE /\ co' = [c EXCEPT !.phase = "starting"] /\ UNCHANGED <<ctl, faults>>
             /\ workers' = workers \cup {[take |-> c.take, target |-> TRUE, attempt |-> FALSE, sent |-> FALSE]}
    <3>1. co'.take = t /\ ~co'.ended /\ co'.ended \in BOOLEAN
      BY <1>4, <2>1 DEF Coordinators
    <3>2. Launched' = Launched \cup {t}
      BY <1>1, <1>4, <1>8, <1>10, <2>1, LaunchedMore
    <3> QED
      BY <1>1, <1>8, <1>10, <2>1, <3>1, <3>2, KeptStarted DEF t
  <2>2. CASE /\ co' = [Retired(c) EXCEPT !.phase = "error"]
             /\ CancelArm(CanCancel(ctl, c.take)) /\ UNCHANGED workers
    <3>1. ~CanCancel(ctl, c.take)
      BY <1>4, <1>6 DEF CanCancel
    <3>2. UNCHANGED <<ctl, faults>>
      BY <2>2, <3>1 DEF CancelArm, Publish
    <3> QED
      BY <1>4, <1>9, <1>10, <2>2, <3>2, RetiredParts
  <2> QED
    BY <1>10, <2>1, <2>2 DEF Go
<1>11. CASE /\ story' = [story EXCEPT !.takes = t]
            /\ Publish(CanArm(ctl, t), Armed(ctl, t, guests), ArmUnwritten(ctl, guests))
            /\ IF ctl'.arm.take = t
               THEN co' = [c EXCEPT !.arm = ctl'.arm] /\ waits' = waits \cup {ctl'.arm}
               ELSE co' = [Retired(c) EXCEPT !.phase = "error"] /\ UNCHANGED waits
            /\ UNCHANGED workers
  <2>1. /\ faults \subseteq faults' /\ ctl'.cancel = ctl.cancel
        /\ \/ ctl' = ctl
           \/ CanArm(ctl, t) /\ ctl'.arm = NoArm
           \/ ctl'.arm.take = t /\ ctl'.arm \in Arms
    <3>1. PICK u : u = ArmUnwritten(ctl, guests)
      OBVIOUS
    <3>2. u.cancel = ctl.cancel /\ u.arm = ctl.arm
      BY <1>2, <3>1 DEF ArmUnwritten, Controls
    <3>3. CASE ctl' = u /\ CanArm(ctl, t) /\ Spend("write")
      BY <3>2, <3>3, SpendGrows DEF CanArm
    <3>4. CASE CanArm(ctl, t) /\ ctl' = Armed(ctl, t, guests) /\ UNCHANGED faults
      <4>0. Told(ctl, Armed(ctl, t, guests), story.takes, t) /\ Armed(ctl, t, guests).arm.take = t
        BY <1>1, <1>2, <3>4, ToldArmed, RoomFacts DEF t
      <4>1. Armed(ctl, t, guests).arm.take = t /\ Armed(ctl, t, guests).arm \in Arms
        <5>1. PICK d : d = Armed(ctl, t, guests)
          OBVIOUS
        <5>2. d \in Controls
          BY <4>0, <5>1 DEF Told, ControlOK
        <5> QED
          BY ONLY <4>0, <5>1, <5>2, ControlFields
      <4>2. Armed(ctl, t, guests).cancel = ctl.cancel
        BY <1>2 DEF Armed, ArmUnwritten, Controls
      <4> QED
        BY ONLY <3>4, <4>1, <4>2
    <3> QED
      BY <1>11, <3>1, <3>3, <3>4 DEF Publish
  <2>2. CASE ctl'.arm.take = t
    <3>1. co' = [c EXCEPT !.arm = ctl'.arm] /\ waits' = waits \cup {ctl'.arm}
      BY <1>11, <2>2
    <3>2. ctl'.arm \in Arms
      BY <1>3, <1>6, <2>1, <2>2, ArmTypes
    <3>3. co'.take = t /\ co'.arm = ctl'.arm /\ ~co'.ended /\ co'.ended \in BOOLEAN
      BY <1>4, <3>1 DEF Coordinators
    <3>4. UNCHANGED Launched
      BY <1>1, <1>8, <1>11 DEF Launched
    <3> QED
      BY <1>1, <1>8, <1>11, <2>1, <2>2, <3>1, <3>3, <3>4, KeptStarted DEF t
  <2>3. CASE ctl'.arm.take # t
    <3>1. co' = [Retired(c) EXCEPT !.phase = "error"] /\ UNCHANGED waits
      BY <1>11, <2>3
    <3>2. co'.take = NoTake
      BY <1>4, <3>1, RetiredParts
    <3> QED
      BY <1>9, <1>11, <2>1, <2>3, <3>1, <3>2
  <2> QED
    BY <2>2, <2>3
<1> QED
  BY <1>5, <1>7, <1>10, <1>11

\* A notification, or the answer to an observed stop.
LEMMA KeptServer ==
  ASSUME Host, Room, Kept, NEW on \in BOOLEAN, ServerState(on),
         UNCHANGED <<workers, wire, waits, guest>>
  PROVE  Kept'
<1> DEFINE c == [co EXCEPT !.seen = on, !.observed = on /\ co.take = NoTake, !.attempt = FALSE]
<1>1. co \in Coordinators /\ story.takes \in Nat
  BY HostFacts
<1>2. c \in Coordinators /\ c.take = co.take /\ c.arm = co.arm /\ c.ended = co.ended /\ c.phase = co.phase
  BY <1>1 DEF Coordinators
<1>3. \/ UNCHANGED <<co, ctl, faults, validating, story>>
      \/ /\ co' = [c EXCEPT !.armed = TRUE, !.phase = "recording", !.started = @ \/ co.take # NoTake]
         /\ UNCHANGED <<ctl, faults>> \/ PublishStart(co.take)
         /\ UNCHANGED <<validating, story>>
      \/ co.take # NoTake /\ StopConfirmed([c EXCEPT !.armed = FALSE])
      \/ /\ co' = [c EXCEPT !.armed = FALSE,
                            !.phase = IF @ \in {"starting", "recording", "stopping", "stop_failed"}
                                      THEN "idle" ELSE @]
         /\ UNCHANGED <<ctl, faults, validating, story>>
  BY DEF ServerState
<1> HIDE DEF c
<1>4. CASE co.take # NoTake /\ StopConfirmed([c EXCEPT !.armed = FALSE])
  <2>1. PICK d : d = [c EXCEPT !.armed = FALSE]
    OBVIOUS
  <2>2. d \in Coordinators /\ d.take = co.take /\ d.arm = co.arm
    BY <1>2, <2>1 DEF Coordinators
  <2>3. StopConfirmed(d)
    BY <1>4, <2>1
  <2>4. co'.take = co.take /\ co'.arm = co.arm /\ co'.ended
    BY <2>2, <2>3 DEF StopConfirmed, Coordinators
  <2> QED
    BY <1>1, <1>4, <2>3, <2>4, KeptStopped
<1>5. CASE UNCHANGED <<validating, story>> /\ (UNCHANGED <<ctl, faults>> \/ PublishStart(co.take))
           /\ co'.take = co.take /\ co'.arm = co.arm /\ co'.ended = co.ended
  <2>1. UNCHANGED Launched
    BY <1>5 DEF Launched
  <2>2. CASE UNCHANGED <<ctl, faults>>
    BY <1>5, <2>1, <2>2, KeptQuiet
  <2>3. CASE PublishStart(co.take)
    BY <1>1, <1>5, <2>1, <2>3, StartKeepsArms, KeptMoved
  <2> QED
    BY <1>5, <2>2, <2>3
<1>6. ASSUME \/ co' = [c EXCEPT !.armed = TRUE, !.phase = "recording", !.started = @ \/ co.take # NoTake]
             \/ co' = [c EXCEPT !.armed = FALSE,
                                !.phase = IF @ \in {"starting", "recording", "stopping", "stop_failed"}
                                          THEN "idle" ELSE @]
      PROVE  co'.take = co.take /\ co'.arm = co.arm /\ co'.ended = co.ended
  BY <1>2, <1>6 DEF Coordinators
<1> QED
  BY <1>3, <1>4, <1>5, <1>6

LEMMA KeptReply ==
  ASSUME Host, Room, Kept, NEW r \in replies, ReplyRead(r)
  PROVE  Kept'
<1>1. UNCHANGED <<workers, wire, waits, guest>>
  BY DEF ReplyRead, server
<1>2. co \in Coordinators /\ story.takes \in Nat
  BY HostFacts
<1>3. ASSUME UNCHANGED <<validating, story>>, UNCHANGED <<ctl, faults>> \/ PublishStart(r.take),
             co'.take = co.take, co'.arm = co.arm, co'.ended = co.ended
      PROVE  Kept'
  <2>1. UNCHANGED Launched
    BY <1>1, <1>3 DEF Launched
  <2>2. CASE UNCHANGED <<ctl, faults>>
    BY <1>1, <1>3, <2>1, <2>2, KeptQuiet
  <2>3. CASE PublishStart(r.take)
    BY <1>1, <1>2, <1>3, <2>1, <2>3, StartKeepsArms, KeptMoved
  <2> QED
    BY <1>3, <2>2, <2>3
<1>4. CASE Ignored
  BY <1>3, <1>4 DEF Ignored
<1>5. ASSUME NEW c \in Coordinators, c.take = co.take, c.arm = co.arm, c.ended = co.ended, Failed(c)
      PROVE  Kept'
  <2>1. co'.take = co.take /\ co'.arm = co.arm /\ co'.ended = co.ended
    BY <1>5 DEF Failed, Coordinators
  <2> QED
    BY <1>3, <1>5, <2>1 DEF Failed
<1>6. CASE r.take # NoTake /\ Confirmed(r) /\ r.take = co.take
  <2>1. CASE r.target
    <3>1. co'.take = co.take /\ co'.arm = co.arm /\ co'.ended = co.ended
      BY <1>2, <1>6, <2>1 DEF Confirmed, Coordinators
    <3> QED
      BY <1>3, <1>6, <2>1, <3>1 DEF Confirmed
  <2>2. CASE ~r.target
    <3>1. PICK c : c = [co EXCEPT !.armed = FALSE]
      OBVIOUS
    <3>2. StopConfirmed(c)
      BY <1>6, <2>2, <3>1 DEF Confirmed
    <3>3. c \in Coordinators /\ c.take = co.take /\ c.arm = co.arm
      BY <1>2, <3>1 DEF Coordinators
    <3>4. co'.take = co.take /\ co'.arm = co.arm /\ co'.ended
      BY <3>2, <3>3 DEF StopConfirmed, Coordinators
    <3> QED
      BY <1>1, <1>2, <1>6, <3>2, <3>4, KeptStopped
  <2> QED
    BY <2>1, <2>2
<1>7. PICK c : c = [co EXCEPT !.attempt = FALSE]
  OBVIOUS
<1>8. c \in Coordinators /\ c.take = co.take /\ c.arm = co.arm /\ c.ended = co.ended
  BY <1>2, <1>7 DEF Coordinators
<1>9. \/ Ignored \/ Failed(co) \/ Failed(c) \/ ServerState(FALSE)
      \/ r.take # NoTake /\ Confirmed(r) /\ r.take = co.take
  BY <1>7 DEF ReplyRead, TakeReply, ObservedReply, Current
<1> QED
  BY <1>1, <1>2, <1>4, <1>5, <1>6, <1>8, <1>9, KeptServer

LEMMA KeptValidated ==
  ASSUME Host, Room, Kept, NEW t \in validating, NEW needs \in BOOLEAN, Validated(t, needs)
  PROVE  Kept'
<1>1. UNCHANGED <<waits, workers, wire, guest, story>> /\ validating' \subseteq validating
  BY DEF Validated, server
<1>2. UNCHANGED Launched
  BY <1>1 DEF Launched
<1>3. co \in Coordinators /\ ctl \in Controls /\ story.takes \in Nat
  BY HostFacts, RoomFacts
<1>4. CASE t # co.take
  <2>1. UNCHANGED <<co, ctl, faults>>
    BY <1>4 DEF Validated
  <2> QED
    BY <1>1, <1>2, <2>1, KeptQuiet
<1>5. CASE t = co.take
  <2>1. /\ co' = [Retired(co) EXCEPT !.phase = IF needs THEN "needs_attention" ELSE "complete"]
        /\ IF CanFinish(ctl, t) THEN Publish(TRUE, Finished(ctl, needs), ctl)
           ELSE CancelArm(CanCancel(ctl, t))
    BY <1>5 DEF Validated
  <2>2. co'.take = NoTake
    BY <1>3, <2>1, RetiredParts
  <2>3. co.ended
    BY <1>5 DEF Kept, Asks
  <2>4. CASE CanFinish(ctl, t)
    <3>1. Finished(ctl, needs).arm = ctl.arm /\ Finished(ctl, needs).cancel = ctl.cancel
          /\ (FullyAcked(ctl) => FullyAcked(Finished(ctl, needs)))
      BY <1>3 DEF Finished, Controls, FullyAcked
    <3> QED
      BY <1>1, <1>2, <1>3, <2>1, <2>2, <2>4, <3>1, SpendGrows, KeptMoved DEF Publish
  <2>5. CASE ~CanFinish(ctl, t)
    <3>1. CancelArm(CanCancel(ctl, t))
      BY <2>1, <2>5
    <3>2. "write" \in faults' \/ ctl'.cancel = ctl.cancel
          \/ \A u \in Launched : u = ctl'.cancel.take => u \notin story'.recorded /\ u # co'.take
      <4>1. CASE CanCancel(ctl, t) /\ ctl'.cancel = ctl.arm /\ "write" \notin faults'
        <5>1. ctl'.cancel.take = co.take /\ "write" \notin faults
          BY <1>5, <3>1, <4>1, CancelKeeps DEF CanCancel
        <5>2. co.take \notin story.recorded
          BY <1>5, <2>3, <4>1, <5>1 DEF Kept, Spared, CanCancel
        <5> QED
          BY <1>1, <2>2, <5>1, <5>2, LaunchedTyped
      <4> QED
        BY <3>1, <4>1, CancelKeeps
    <3> QED
      BY <1>1, <1>2, <1>3, <2>2, <3>1, <3>2, CancelKeeps, KeptMoved
  <2> QED
    BY <2>4, <2>5
<1> QED
  BY <1>4, <1>5

LEMMA KeptApplied ==
  ASSUME Host, Room, Kept, NEW g \in Guests, NEW s \in Snapshots, Proper(s.arm),
         s.cancel \in {ctl.cancel, guest[g].seen.cancel},
         NEW q \in Apply(guest[g], s), Answers(g, q), faults \subseteq faults'
  PROVE  Kept'
<1>1. q.seen = NewGuest.seen /\ q.dropped \subseteq guest[g].dropped \cup ({s.cancel.take} \ {NoTake})
  BY RoomFacts, ApplyFollows
<1>2. NewGuest.seen.cancel = NoArm
  BY DEF NewGuest
<1>3. UNCHANGED <<host, server, story, ctl>> /\ Become(g, q)
  BY DEF Answers
<1> QED
  BY <1>1, <1>2, <1>3, KeptGuest

LEMMA KeptGuestStep ==
  ASSUME Host, Room, Kept, NEW g \in Guests, GuestStep(g)
  PROVE  Kept'
<1>1. UNCHANGED <<host, server, story, ctl>> /\ faults \subseteq faults'
  BY SpendGrows DEF GuestStep, GuestPolls, GuestReads, GuestApplies, AckTimesOut, GuestLeaves,
                    GuestRestarts, Answers
<1>2. guest[g] \in GuestStates /\ GuestOK(ctl, guest[g], story.takes) /\ WellFormed(guest[g])
  BY RoomFacts DEF WellFormed
<1>3. CASE GuestPolls(g)
  <2>1. PICK s : s = ViewOf(ctl, g)
    OBVIOUS
  <2>2. s \in Snapshots /\ Proper(s.arm) /\ s.cancel = ctl.cancel
    BY <2>1, ViewFacts DEF Known, ViewOf
  <2>3. PICK q \in Apply(guest[g], s) : Answers(g, q)
    BY <1>3, <2>1 DEF GuestPolls
  <2> QED
    BY <1>1, <2>2, <2>3, KeptApplied
<1>4. CASE GuestApplies(g)
  <2>1. PICK s : s = guest[g].seen
    OBVIOUS
  <2>2. s \in Snapshots /\ Proper(s.arm)
    BY <1>2, <2>1, GuestFields DEF GuestOK, Known
  <2>3. PICK q \in Apply(guest[g], s) : Answers(g, q)
    BY <1>4, <2>1 DEF GuestApplies
  <2> QED
    BY <1>1, <2>1, <2>2, <2>3, KeptApplied
<1>5. CASE GuestReads(g) \/ AckTimesOut(g)
  <2>1. CASE GuestReads(g)
    <3>1. PICK s : s = ViewOf(ctl, g)
      OBVIOUS
    <3>2. PICK q : q = [guest[g] EXCEPT !.pc = "apply", !.seen = s]
      OBVIOUS
    <3>3. s.cancel = ctl.cancel
      BY <3>1 DEF ViewOf
    <3>4. q.seen = s /\ q.dropped = guest[g].dropped
      BY <1>2, <3>2 DEF GuestStates
    <3>5. Become(g, q)
      BY <2>1, <3>1, <3>2 DEF GuestReads
    <3> QED
      BY <1>1, <3>3, <3>4, <3>5, KeptGuest
  <2>2. CASE AckTimesOut(g)
    <3>1. PICK q : q = [guest[g] EXCEPT !.pc = "idle"]
      OBVIOUS
    <3>2. q.seen = guest[g].seen /\ q.dropped = guest[g].dropped
      BY <1>2, <3>1 DEF GuestStates
    <3>3. Become(g, q)
      BY <2>2, <3>1 DEF AckTimesOut
    <3> QED
      BY <1>1, <3>2, <3>3, KeptGuest
  <2> QED
    BY <1>5, <2>1, <2>2
<1>6. CASE GuestLeaves(g)
  <2>1. PICK q \in Leaving(guest[g]) : Become(g, q)
    BY <1>6 DEF GuestLeaves
  <2>2. q.seen = guest[g].seen /\ q.dropped = guest[g].dropped
    BY <1>2, LeavingKeeps DEF Keeps
  <2> QED
    BY <1>1, <2>1, <2>2, KeptGuest
<1>7. CASE GuestRestarts(g)
  <2>1. PICK q : q = Restarted(guest[g])
    OBVIOUS
  <2>2. q.seen.cancel = NoArm /\ q.dropped = guest[g].dropped
    BY <1>2, <2>1, RestartedHas DEF NewGuest
  <2>3. Become(g, q)
    BY <1>7, <2>1 DEF GuestRestarts
  <2> QED
    BY <1>1, <2>2, <2>3, KeptGuest
<1> QED
  BY <1>3, <1>4, <1>5, <1>6, <1>7 DEF GuestStep

LEMMA KeptAcked ==
  ASSUME Host, Room, Kept, NEW a \in acks, AckArrives(a)
  PROVE  Kept'
<1>1. UNCHANGED <<host, server, faults, story>>
  BY DEF AckArrives
<1>2. UNCHANGED <<co, waits, validating, Launched>>
  BY <1>1 DEF host, server, Launched
<1>3. \A g \in Guests : guest'[g].seen = guest[g].seen /\ guest'[g].dropped = guest[g].dropped
  <2>1. CASE UNCHANGED guest
    BY <2>1
  <2>2. CASE ~UNCHANGED guest
    <3>1. PICK ok \in BOOLEAN : ok = AckAccepted(ctl, a.guest, a.arm)
      BY DEF AckAccepted
    <3>2. PICK q : q = [guest[a.guest] EXCEPT !.pc = "idle", !.bound = IF ok THEN a.arm ELSE @]
      OBVIOUS
    <3>3. guest' = [guest EXCEPT ![a.guest] = q]
      BY <2>2, <3>1, <3>2 DEF AckArrives, Become
    <3>4. a.guest \in Guests
      BY DEF Room, RoomOK, AckOK
    <3>5. q.seen = guest[a.guest].seen /\ q.dropped = guest[a.guest].dropped
      BY <3>2, <3>4, RoomFacts DEF GuestStates
    <3> QED
      BY <3>3, <3>4, <3>5, RoomFacts
  <2> QED
    BY <2>1, <2>2
<1>4. ctl'.arm = ctl.arm /\ ctl'.cancel = ctl.cancel /\ (FullyAcked(ctl) => FullyAcked(ctl'))
  <2>1. ctl \in Controls
    BY RoomFacts
  <2>2. CASE AckAccepted(ctl, a.guest, a.arm)
    <3>1. ctl' = [ctl EXCEPT !.acks = ctl.acks \cup {a.guest}] /\ a.guest \in ctl.required
      BY <2>2 DEF AckArrives, Acked, AckAccepted
    <3> QED
      BY <2>1, <3>1 DEF Controls, FullyAcked
  <2>3. CASE ~AckAccepted(ctl, a.guest, a.arm)
    BY <2>3 DEF AckArrives
  <2> QED
    BY <2>2, <2>3
<1> QED
  BY <1>1, <1>2, <1>3, <1>4, RoomFacts, KeptMoved

LEMMA KeptStep ==
  ASSUME Host, Room, Kept, [Next]_vars
  PROVE  Kept'
<1>1. CASE UNCHANGED vars
  <2>1. UNCHANGED <<co, waits, workers, validating, wire, ctl, guest, faults, story>>
    BY <1>1 DEF vars, host, server, room
  <2>2. UNCHANGED Launched
    BY <2>1 DEF Launched
  <2> QED
    BY <2>1, <2>2, KeptQuiet
<1>2. CASE NoticeRead
  <2>1. Head(notices) \in BOOLEAN
    BY <1>2, HeadTailProperties DEF NoticeRead, Host, Traffic
  <2> QED
    BY <1>2, <2>1, KeptServer DEF NoticeRead
<1>3. CASE Coordinator
  BY <1>2, <1>3, KeptReadiness, KeptWaited, KeptWorker, KeptReply, KeptValidated DEF Coordinator
<1>4. CASE Recorder \/ Foreign \/ NoticeLost
  BY <1>4, KeptRecorder DEF Recorder
<1> QED
  BY <1>1, <1>3, <1>4, KeptPressed, KeptGuestStep, KeptAcked DEF Next

LEMMA KeptInitially ==
  ASSUME Init
  PROVE  Kept
<1>1. Launched = {} /\ validating = {} /\ waits = {}
  BY DEF Init, Launched
<1>2. ~co.ended /\ ctl.arm = NoArm /\ \A g \in Guests : guest[g].dropped = {}
  BY DEF Init, NewCoordinator, NewControl, NewGuest
<1> QED
  BY <1>1, <1>2 DEF Kept, Asks, Spared

\* The inductive invariant: nothing late is taken for a later take, the
\* recorder is asked to start only with the arm of the take confirmed, and,
\* while the host can write, an arm the recorder was started for is committed
\* and never canceled.
THEOREM Invariance == Spec => []IInv
<1>1. Init => Host /\ Room /\ Kept
  BY Initial, Parts, KeptInitially
<1>2. Host /\ Room /\ Kept /\ [Next]_vars => (Host /\ Room /\ Kept)'
  BY Step, KeptStep
<1>3. Spec => [](Host /\ Room /\ Kept)
  BY <1>1, <1>2, PTL DEF Spec
<1>4. Host /\ Room /\ Kept => IInv
  BY Parts DEF IInv, Kept
<1> QED
  BY <1>3, <1>4, PTL

\* As long as the host can write what it publishes, no guest ever discards the
\* audio of a take the recorder was started for before its stop was seen
\* (session_transfer_runtime.py:3615), for any guests, takes and faults.
THEOREM AudioKept == Spec => []KeptWhileWritable
<1>1. IInv => KeptWhileWritable
  <2>1. ASSUME IInv, "write" \notin faults, NEW t \in story.recorded, NEW g \in Guests
        PROVE  t \notin guest[g].dropped
    <3>1. t \in Launched
      BY <2>1 DEF Launched
    <3> QED
      BY <2>1, <3>1 DEF IInv, Spared, Clean
  <2> QED
    BY <2>1 DEF KeptWhileWritable, RecordedKept
<1> QED
  BY <1>1, Invariance, PTL
=============================================================================
