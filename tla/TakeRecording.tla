---------------------------- MODULE TakeRecording ---------------------------
(***************************************************************************)
(* One jam's multitrack recording: the host's RecordingCoordinator, the    *)
(* band server's recorder it commands, the control state it publishes and  *)
(* the guests that keep their own local originals.                         *)
(*                                                                         *)
(* The coordinator's handlers run one at a time on the UI thread.  Worker  *)
(* threads (readiness, guest arms, recorder RPC, validation), the          *)
(* recorder's notifications and the guests' HTTP requests run beside it,   *)
(* each a message that is on its way for as long as it pleases.            *)
(***************************************************************************)
EXTENDS GuestCapture, Sequences

CONSTANTS
  Guests,
  MaxTakes,       \* bounds of the model: takes, counting a foreign recording,
  MaxLate,        \* messages under way that a take, or a foreign switch, meets,
  MaxFaults,      \* and kinds of fault in a behaviour, of any number each:
  Faults          \* "rpc": the host gives up on the recorder or misses a notice,
                  \* "write": the state file cannot be written in a handler,
                  \* "guest": a guest leaves, crashes, is slow, misses a reply,
                  \* opens no device or cannot finish a capture,
                  \* "foreign": someone else switches the recorder

ASSUME RecordingAssumption ==
  /\ IsFiniteSet(Guests)
  /\ \A n \in {MaxTakes, MaxLate, MaxFaults} : n \in Nat
  /\ Faults \subseteq {"rpc", "write", "guest", "foreign"}

VARIABLES
  co,         \* the coordinator's own fields
  readiness,  \* a hosted readiness worker is under way
  waits,      \* the guest arms that a worker waits for
  workers,    \* recorder RPC workers: [take, target, attempt, sent]
  replies,    \* their callbacks queued for the UI: [take, target, attempt, ok]
  validating, \* takes whose validation worker is under way
  recording,  \* the recorder is enabled
  wire,       \* requests the recorder may still execute: [take, target]
  notices,    \* recorderState notifications on their way, in order
  ctl,        \* the control state the guests read
  acks,       \* acknowledgements on their way: [guest, arm]
  guest,      \* the guests
  faults,     \* the kinds of fault that have happened
  story       \* history: takes allocated, those whose own start the recorder
              \* executed before their stop was seen, and validations launched

host    == <<co, readiness, waits, workers, replies, validating>>
server  == <<recording, wire, notices>>
room    == <<ctl, acks, guest>>
vars    == <<host, server, room, faults, story>>

Takes == 1..MaxTakes

NewCoordinator ==
  [phase |-> "idle", take |-> NoTake, validating |-> NoTake,
   armed |-> FALSE,    \* _recorder_armed
   seen |-> FALSE,     \* _server_recording
   started |-> FALSE,  \* _recording_started_utc and
   ended |-> FALSE,    \* _recording_ended_utc are set; read only while a take is active
   arm |-> NoArm,      \* _guest_capture_arm_take_id, _generation
   observed |-> FALSE, \* _observed_recorder
   attempt |-> FALSE]  \* _observed_stop_attempt

Busy   == {"preflight", "starting", "stopping", "finalizing"}
Phases == Busy \cup {"idle", "recording", "complete", "needs_attention", "stop_failed", "error"}

Init ==
  /\ co = NewCoordinator /\ readiness = FALSE
  /\ waits = {} /\ workers = {} /\ replies = {} /\ validating = {}
  /\ recording = FALSE /\ wire = {} /\ notices = <<>>
  /\ ctl = NewControl /\ acks = {} /\ guest = [g \in Guests |-> NewGuest]
  /\ faults = {}
  /\ story = [takes |-> 0, recorded |-> {},
              launched |-> [t \in 1..MaxTakes |-> 0]]

\* A fault.  Each kind happens as often as it pleases; the kinds are bounded.
Spend(kind) ==
  /\ kind \in Faults /\ faults' = faults \cup {kind}
  /\ Cardinality(faults') <= MaxFaults
-----------------------------------------------------------------------------
(* What the handlers below have in common.  A publication is refused,      *)
(* written, or, at the price of a fault, not written.                      *)

Publish(accepted, written, unwritten) ==
  \/ ~accepted /\ ctl' = ctl /\ UNCHANGED faults
  \/ accepted /\ ctl' = written /\ UNCHANGED faults
  \/ accepted /\ ctl' = unwritten /\ Spend("write")

\* signal_peer_recording_started logs every failure and goes on.
PublishStart(t) == Publish(CanBegin(ctl, t), Begun(ctl, t), ctl)

\* _signal_peer_recording_finalizing: the armed transition is the fallback.
PublishStop(t) ==
  IF CanFinalize(ctl, t) THEN Publish(TRUE, Finalized(ctl), ctl)
  ELSE Publish(CanFinalizeArmed(ctl, co.arm) /\ co.arm.take = t, ArmFinalized(ctl, t), ctl)

CancelArm(accepted) == Publish(accepted, Cancelled(ctl), CancelUnwritten(ctl))

\* The coordinator's part of _retire_active_take; the other is CancelArm.
Retired(c) == [c EXCEPT !.take = NoTake, !.arm = NoArm, !.started = FALSE, !.ended = FALSE,
                        !.validating = IF @ = c.take THEN NoTake ELSE @]

\* Mutant: a second proof of the stop is taken for the first.
LaunchesMutant(c) == TRUE

Launches(c) == c.validating # c.take

\* _confirmed_recording_stopped, _signal_peer_recording_finalizing and
\* _start_take_validation_once for the active take.  c already has the
\* fields that the caller sets.
StopConfirmed(c) ==
  /\ IF co.ended THEN UNCHANGED <<ctl, faults>> ELSE PublishStop(co.take)
  /\ co' = [c EXCEPT !.ended = TRUE, !.phase = "finalizing", !.validating = co.take]
  /\ IF Launches(co)
     THEN /\ validating' = validating \cup {co.take}
          /\ story' = [story EXCEPT !.launched[co.take] = @ + 1]
     ELSE UNCHANGED <<validating, story>>
-----------------------------------------------------------------------------
(* on_record_requested and what leads to a start.                          *)

\* Messages of earlier takes, and answers that guests have still to apply.
UnderWay ==
  Cardinality(workers) + Cardinality(replies) + Cardinality(wire) + Len(notices)
  + Cardinality(acks) + Cardinality({g \in Guests : guest[g].pc = "apply"})

RecordPressed ==
  /\ ~co.armed /\ co.phase \notin Busy
  /\ story.takes + Cardinality(faults \cap {"foreign"}) < MaxTakes
  /\ UnderWay <= MaxLate
  /\ co' = [co EXCEPT !.phase = "preflight"]
  /\ readiness' = TRUE
  /\ UNCHANGED <<waits, workers, replies, validating, server, room, faults, story>>

\* _continue_recording_start: the local capture and the evidence journal are
\* opened before the recorder is asked; the failures before that retire the
\* take.
Go(c) ==
  \/ /\ co' = [c EXCEPT !.phase = "starting"]
     /\ workers' = workers \cup {[take |-> c.take, target |-> TRUE, attempt |-> FALSE, sent |-> FALSE]}
     /\ UNCHANGED <<ctl, faults>>
  \/ /\ co' = [Retired(c) EXCEPT !.phase = "error"]
     /\ CancelArm(CanCancel(ctl, c.take))
     /\ UNCHANGED workers

\* _apply_hosted_recording_readiness and _begin_recording_start, to the
\* publication of the guests' arm by _arm_guest_capture_before_server_start.
ReadinessDone(guests) ==
  /\ readiness /\ readiness' = FALSE
  /\ LET t == story.takes + 1
         c == [co EXCEPT !.take = t, !.started = FALSE, !.ended = FALSE, !.arm = NoArm]
     IN \/ co.phase # "preflight" /\ UNCHANGED <<co, waits, workers, ctl, faults, story>>
        \/ /\ co.phase = "preflight" \* the roster changed, storage is short, declined...
           /\ co' = [co EXCEPT !.phase = "error"]
           /\ UNCHANGED <<waits, workers, ctl, faults, story>>
        \/ /\ co.phase = "preflight" /\ guests = {}
           /\ Go(c)
           /\ story' = [story EXCEPT !.takes = t]
           /\ UNCHANGED waits
        \/ /\ co.phase = "preflight" /\ guests # {}
           /\ story' = [story EXCEPT !.takes = t]
           /\ Publish(CanArm(ctl, t), Armed(ctl, t, guests), ArmUnwritten(ctl, guests))
           /\ LET arm == ctl'.arm
              IN IF arm.take = t
                 THEN /\ co' = [c EXCEPT !.arm = arm]
                      /\ waits' = waits \cup {arm}
                 ELSE co' = [Retired(c) EXCEPT !.phase = "error"] /\ UNCHANGED waits
           /\ UNCHANGED workers
  /\ UNCHANGED <<replies, validating, server, acks, guest>>

\* capture_arm_ready.
Ready(arm) == ctl.arm = arm /\ FullyAcked(ctl)

\* Mutant: an arm that was not confirmed in time is left to the next attempt.
FailArmMutant == UNCHANGED <<co, ctl, faults, workers>>

\* _fail_guest_capture_arm: it cancels the arm, and retiring the take would
\* cancel it again.
FailArm ==
  /\ co' = [Retired(co) EXCEPT !.phase = "error"]
  /\ CancelArm(CanCancel(ctl, co.take))
  /\ UNCHANGED workers

\* _wait_for_guest_capture_arm is over, in time or not, and
\* _apply_guest_capture_arm_result looks again at what it reports.
ArmWaited(arm) ==
  /\ arm \in waits /\ waits' = waits \ {arm}
  /\ IF co.phase # "preflight" \/ co.take # arm.take
     THEN CancelArm(CanCancelExact(ctl, arm)) /\ UNCHANGED <<co, workers>>
     ELSE FailArm \/ (Ready(arm) /\ Go(co))
  /\ UNCHANGED <<readiness, replies, validating, server, acks, guest, story>>
-----------------------------------------------------------------------------
(* Recorder RPC workers (toggle_worker, _stop_observed_recorder) and the   *)
(* recorder itself.                                                        *)

StopPressed ==
  /\ co.armed /\ co.phase \notin Busy
  /\ LET attempt == co.take = NoTake /\ co.observed
     IN /\ attempt => ~\E m \in workers \cup replies : m.attempt \* one at a time: a bound
        /\ co' = [co EXCEPT !.phase = "stopping", !.attempt = @ \/ attempt]
        /\ workers' = workers \cup {[take |-> co.take, target |-> FALSE,
                                     attempt |-> attempt, sent |-> FALSE]}
  /\ UNCHANGED <<readiness, waits, replies, validating, server, room, faults, story>>

\* A worker acts under the recorder binding of its take, or of the observed
\* recorder, and fails once that is gone.
Bound(w) == co.take = w.take /\ (w.take = NoTake => w.attempt /\ co.attempt)

Request(w) == [take |-> w.take, target |-> w.target]
Reply(w, ok) == [take |-> w.take, target |-> w.target, attempt |-> w.attempt, ok |-> ok]

WorkerSends(w) ==
  /\ w \in workers /\ ~w.sent /\ Bound(w)
  /\ workers' = (workers \ {w}) \cup {[w EXCEPT !.sent = TRUE]}
  /\ wire' = wire \cup {Request(w)}
  /\ UNCHANGED <<co, readiness, waits, replies, validating, recording, notices, room, faults, story>>

WorkerUnbound(w) ==
  /\ w \in workers /\ ~w.sent /\ ~Bound(w)
  /\ workers' = workers \ {w} /\ replies' = replies \cup {Reply(w, FALSE)}
  /\ UNCHANGED <<co, readiness, waits, validating, server, room, faults, story>>

\* The request was acknowledged and polling shows the state asked for.
WorkerConfirms(w) ==
  /\ w \in workers /\ w.sent /\ Request(w) \notin wire /\ recording = w.target
  /\ workers' = workers \ {w} /\ replies' = replies \cup {Reply(w, TRUE)}
  /\ UNCHANGED <<co, readiness, waits, validating, server, room, faults, story>>

\* A timeout: the request may have been executed, may still be, or never is.
WorkerGivesUp(w) ==
  /\ w \in workers /\ w.sent
  /\ IF Request(w) \notin wire /\ recording # w.target THEN UNCHANGED faults ELSE Spend("rpc")
  /\ workers' = workers \ {w} /\ replies' = replies \cup {Reply(w, FALSE)}
  /\ UNCHANGED <<co, readiness, waits, validating, server, room, story>>

Switch(on) ==
  /\ recording' = on
  /\ notices' = IF on = recording THEN notices ELSE Append(notices, on)

Executes(r) ==
  /\ r \in wire /\ wire' = wire \ {r} /\ Switch(r.target)
  /\ story' = IF r.target /\ r.take = co.take /\ ~co.ended
              THEN [story EXCEPT !.recorded = @ \cup {r.take}] ELSE story
  /\ UNCHANGED <<host, room, faults>>

Dropped(r) ==
  /\ r \in wire /\ ~\E w \in workers : w.sent /\ Request(w) = r
  /\ wire' = wire \ {r}
  /\ UNCHANGED <<host, recording, notices, room, faults, story>>

\* The recorder stops by itself, or is switched by another program.
Foreign ==
  /\ story.takes < MaxTakes /\ UnderWay <= MaxLate
  /\ Spend("foreign") /\ Switch(~recording)
  /\ UNCHANGED <<host, wire, room, story>>

NoticeLost ==
  /\ notices # <<>> /\ notices' = Tail(notices) /\ Spend("rpc")
  /\ UNCHANGED <<host, recording, wire, room, story>>
-----------------------------------------------------------------------------
(* What the coordinator makes of replies and notifications.                *)

\* The stop of a take whose start only the RPC reported is news all the same.
Duplicate(on) ==
  on = co.seen /\ ~(~on /\ co.take # NoTake /\ co.started /\ ~co.ended)

\* on_server_state: from a notification, or from an observed stop.
ServerState(on) ==
  LET c == [co EXCEPT !.seen = on, !.observed = on /\ co.take = NoTake, !.attempt = FALSE]
  IN IF Duplicate(on) THEN UNCHANGED <<co, ctl, faults, validating, story>>
     ELSE IF on
     THEN /\ co' = [c EXCEPT !.armed = TRUE, !.phase = "recording",
                             !.started = @ \/ co.take # NoTake]
          /\ IF co.take = NoTake \/ co.started THEN UNCHANGED <<ctl, faults>>
             ELSE PublishStart(co.take)
          /\ UNCHANGED <<validating, story>>
     ELSE IF co.take # NoTake THEN StopConfirmed([c EXCEPT !.armed = FALSE])
     ELSE /\ co' = [c EXCEPT !.armed = FALSE,
                             !.phase = IF @ \in {"starting", "recording", "stopping", "stop_failed"}
                                       THEN "idle" ELSE @]
          /\ UNCHANGED <<ctl, faults, validating, story>>

NoticeRead ==
  /\ notices # <<>> /\ notices' = Tail(notices) /\ ServerState(Head(notices))
  /\ UNCHANGED <<readiness, waits, workers, replies, recording, wire, acks, guest>>

\* Stop owns the take: a late reply of its start is evidence only.
LateStart(r) == r.target /\ co.phase \in {"stopping", "stop_failed", "finalizing"}

\* _toggle_callback_is_current.
Current(r) == r.take = co.take /\ co.take # co.validating

\* apply_toggle_result.
Confirmed(r) ==
  IF r.target
  THEN /\ IF LateStart(r) THEN co' = [co EXCEPT !.started = TRUE]
          ELSE co' = [co EXCEPT !.armed = TRUE, !.phase = "recording", !.started = TRUE]
       /\ IF co.started \/ LateStart(r) THEN UNCHANGED <<ctl, faults>> ELSE PublishStart(r.take)
       /\ UNCHANGED <<validating, story>>
  ELSE StopConfirmed([co EXCEPT !.armed = FALSE])

\* apply_toggle_failure: an unconfirmed start is taken for a recording.
Failed(c) ==
  LET armed == co.armed \/ co.phase = "starting"
  IN /\ co' = [c EXCEPT !.armed = armed,
                         !.phase = IF armed \/ co.seen THEN "stop_failed" ELSE "error"]
     /\ UNCHANGED <<ctl, faults, validating, story>>

Ignored == UNCHANGED <<co, ctl, faults, validating, story>>

TakeReply(r) ==
  IF ~Current(r) \/ (~r.ok /\ LateStart(r)) THEN Ignored
  ELSE IF r.ok THEN Confirmed(r) ELSE Failed(co)

\* _apply_observed_stop.
ObservedReply(r) ==
  IF co.take # NoTake \/ ~co.attempt THEN Ignored
  ELSE IF r.ok THEN ServerState(FALSE) ELSE Failed([co EXCEPT !.attempt = FALSE])

\* A stop with neither a take nor an observed recorder is bound to nothing.
ReplyRead(r) ==
  /\ r \in replies /\ replies' = replies \ {r}
  /\ IF r.take # NoTake THEN TakeReply(r)
     ELSE IF r.attempt THEN ObservedReply(r) ELSE Failed(co)
  /\ UNCHANGED <<readiness, waits, workers, server, acks, guest>>

\* _validate_take_worker and _show_validation_result.
Validated(t, needs) ==
  /\ t \in validating /\ validating' = validating \ {t}
  /\ IF t # co.take THEN UNCHANGED <<co, ctl, faults>>
     ELSE /\ co' = [Retired(co) EXCEPT !.phase = IF needs THEN "needs_attention" ELSE "complete"]
          /\ IF CanFinish(ctl, t) THEN Publish(TRUE, Finished(ctl, needs), ctl)
             ELSE CancelArm(CanCancel(ctl, t))
  /\ UNCHANGED <<readiness, waits, workers, replies, server, acks, guest, story>>
-----------------------------------------------------------------------------
(* The guests.                                                             *)

Become(g, r) == guest' = [guest EXCEPT ![g] = r]

\* The device does not open, or a capture cannot be finished.
Fails(g, r, s) ==
  (r.stuck /\ ~guest[g].stuck) \/ (s.arm # NoArm /\ s.arm.take # r.cap)

Answers(g, r) ==
  /\ Become(g, r)
  /\ acks' = IF r.pc = "ack" THEN acks \cup {[guest |-> g, arm |-> r.arm]} ELSE acks
  /\ UNCHANGED <<host, server, ctl, story>>

\* poll_once at its best: the state it applies is still the host's.
GuestPolls(g) ==
  /\ guest[g].pc = "idle"
  /\ LET s == ViewOf(ctl, g)
     IN \E r \in Apply(guest[g], s) :
          /\ Answers(g, r)
          /\ IF Fails(g, r, s) THEN Spend("guest") ELSE UNCHANGED faults

\* Or the response is slow, and the host goes on before it is applied.
GuestReads(g) ==
  /\ guest[g].pc = "idle" /\ Spend("guest")
  /\ Become(g, [guest[g] EXCEPT !.pc = "apply", !.seen = ViewOf(ctl, g)])
  /\ UNCHANGED <<host, server, ctl, acks, story>>

GuestApplies(g) ==
  /\ guest[g].pc = "apply"
  /\ \E r \in Apply(guest[g], guest[g].seen) :
       ~Fails(g, r, guest[g].seen) /\ Answers(g, r)
  /\ UNCHANGED faults

\* The host answers, with the acknowledgement or a conflict.
AckArrives(a) ==
  /\ a \in acks /\ acks' = acks \ {a}
  /\ LET ok == AckAccepted(ctl, a.guest, a.arm)
         r  == guest[a.guest]
     IN /\ ctl' = IF ok THEN Acked(ctl, a.guest) ELSE ctl
        /\ IF r.pc = "ack" /\ r.arm = a.arm
           THEN Become(a.guest, [r EXCEPT !.pc = "idle", !.bound = IF ok THEN a.arm ELSE @])
           ELSE UNCHANGED guest
  /\ UNCHANGED <<host, server, faults, story>>

\* The request timed out; it is lost or still on its way.
AckTimesOut(g) ==
  /\ guest[g].pc = "ack" /\ Spend("guest")
  /\ Become(g, [guest[g] EXCEPT !.pc = "idle"])
  /\ acks' \in {acks, {a \in acks : a.guest # g}}
  /\ UNCHANGED <<host, server, ctl, story>>

GuestLeaves(g) ==
  /\ guest[g].pc = "idle" /\ guest[g].cap # NoTake /\ Spend("guest")
  /\ \E r \in Leaving(guest[g]) : Become(g, r)
  /\ UNCHANGED <<host, server, ctl, acks, story>>

GuestRestarts(g) ==
  /\ guest[g].cap # NoTake /\ Spend("guest")
  /\ Become(g, Restarted(guest[g]))
  /\ UNCHANGED <<host, server, ctl, acks, story>>
-----------------------------------------------------------------------------
Coordinator ==
  \/ \E guests \in SUBSET Guests : ReadinessDone(guests)
  \/ \E arm \in waits : ArmWaited(arm)
  \/ \E w \in workers : WorkerSends(w) \/ WorkerUnbound(w) \/ WorkerConfirms(w) \/ WorkerGivesUp(w)
  \/ NoticeRead
  \/ \E r \in replies : ReplyRead(r)
  \/ \E t \in validating, needs \in BOOLEAN : Validated(t, needs)

Recorder == \E r \in wire : Executes(r) \/ Dropped(r)

GuestStep(g) ==
  GuestPolls(g) \/ GuestReads(g) \/ GuestApplies(g) \/ AckTimesOut(g) \/ GuestLeaves(g) \/ GuestRestarts(g)

Next ==
  \/ RecordPressed \/ StopPressed \/ Coordinator
  \/ Recorder \/ Foreign \/ NoticeLost
  \/ \E g \in Guests : GuestStep(g)
  \/ \E a \in acks : AckArrives(a)

Spec == Init /\ [][Next]_vars
-----------------------------------------------------------------------------
Arms == [take : {NoTake} \cup Takes, gen : 0..MaxTakes]

Snapshots == [signal : Signals, take : {NoTake} \cup Takes, cancel : Arms, arm : Arms]

GuestStates ==
  [pc : {"idle", "apply", "ack"}, seen : Snapshots, cap : {NoTake} \cup Takes,
   arm : Arms, bound : Arms, stuck : BOOLEAN,
   kept : SUBSET Takes, dropped : SUBSET Takes]

TypeOK ==
  /\ co \in [phase : Phases, take : {NoTake} \cup Takes, validating : {NoTake} \cup Takes,
             armed : BOOLEAN, seen : BOOLEAN, started : BOOLEAN, ended : BOOLEAN,
             arm : Arms, observed : BOOLEAN, attempt : BOOLEAN]
  /\ readiness \in BOOLEAN
  /\ waits \subseteq Arms
  /\ workers \subseteq [take : {NoTake} \cup Takes, target : BOOLEAN, attempt : BOOLEAN, sent : BOOLEAN]
  /\ replies \subseteq [take : {NoTake} \cup Takes, target : BOOLEAN, attempt : BOOLEAN, ok : BOOLEAN]
  /\ validating \subseteq Takes
  /\ recording \in BOOLEAN /\ notices \in Seq(BOOLEAN)
  /\ wire \subseteq [take : {NoTake} \cup Takes, target : BOOLEAN]
  /\ ctl \in [signal : Signals, take : {NoTake} \cup Takes, arm : Arms, cancel : Arms,
              gen : 0..MaxTakes, required : SUBSET Guests, acks : SUBSET Guests]
  /\ acks \subseteq [guest : Guests, arm : Arms]
  /\ guest \in [Guests -> GuestStates]
  /\ faults \subseteq Faults
  /\ story \in [takes : 0..MaxTakes, recorded : SUBSET Takes, launched : [Takes -> Nat]]

\* The audio of a take that the recorder was started for, and not after the
\* host gave it up, is never discarded by a guest, whatever was lost, late or
\* repeated on the way: only pre-start audio is (session_transfer_runtime.py:3615).
RecordedKept == \A t \in story.recorded, g \in Guests : t \notin guest[g].dropped

\* The same as long as the host can write what it publishes to its guests.
KeptWhileWritable == "write" \notin faults => RecordedKept

\* An acknowledgement that counts stands for audio: its guest is capturing the
\* armed take or keeps what it has captured (session_transfer.py:3405).
AckedCaptures ==
  \A g \in ctl.acks : ctl.arm.take \in {guest[g].cap} \cup guest[g].kept

\* However the recorder's notifications, the RPC replies and a shutdown of the
\* recorder cross, a take is validated once (recording_coordinator.py:845).
ValidatedOnce == \A t \in Takes : story.launched[t] <= 1

\* What the guests are told only goes forward: no late start or stop brings an
\* earlier take back, and none a take that is over (session_transfer.py:3505).
Rank == [idle |-> 0, recording |-> 1, finalizing |-> 2, complete |-> 3, needs_attention |-> 3]

HistoryAdvances ==
  [][\/ ctl'.take > ctl.take
     \/ ctl'.take = ctl.take /\ Rank[ctl'.signal] >= Rank[ctl.signal]]_vars

\* The Record button comes back: a phase that ignores it has a worker or a
\* callback under way that ends it, whichever were late, ignored or refused
\* (recording_coordinator.py:5518).
Asked(target) == \E m \in workers \cup replies : m.take = co.take /\ m.target = target

BusyOwned ==
  /\ co.phase = "preflight"  => readiness \/ \E arm \in waits : arm.take = co.take
  /\ co.phase = "starting"   => Asked(TRUE) \/ co.take \in validating
  /\ co.phase = "stopping"   => Asked(FALSE) \/ co.take \in validating
  /\ co.phase = "finalizing" => co.take \in validating
-----------------------------------------------------------------------------
(* Why the above hold.                                                     *)

ArmsKnown ==
  {ctl.arm, ctl.cancel} \cup waits \cup {a.arm : a \in acks}
  \cup UNION {{guest[g].arm, guest[g].seen.arm, guest[g].seen.cancel} : g \in Guests}

\* Takes and arms are numbered upwards, and a callback is of the active take
\* or of one before it.
Numbered ==
  /\ co.take \in {NoTake, story.takes} /\ co.validating <= story.takes
  /\ ctl.take <= story.takes /\ ctl.gen <= story.takes
  /\ readiness => story.takes < MaxTakes
  /\ \A arm \in ArmsKnown : arm.take <= story.takes /\ (arm.take = NoTake => arm = NoArm)
  /\ NoArm \notin waits
  /\ \A m \in workers \cup wire : m.target => m.take # NoTake

\* An arm is of a take to come; a cancelled one never comes back.
ArmAhead ==
  /\ ctl.arm # NoArm => ctl.take < ctl.arm.take
  /\ \A arm \in {ctl.cancel} \cup {guest[g].seen.cancel : g \in Guests} :
       arm # NoArm => ctl.arm.take # arm.take

\* The audio a guest has, and what its acknowledgements under way stand for.
Has(r) == {r.cap} \cup r.kept

Holds(r) == r.arm # NoArm => r.cap = r.arm.take

AcksBacked ==
  /\ ctl.arm = NoArm => ctl.acks = {}
  /\ \A g \in Guests : Holds(guest[g])
  /\ \A a \in acks : a.arm # NoArm =>
       a.arm.take \in Has(guest[a.guest]) \/ ctl.arm.take # a.arm.take

\* The active take is validated from the moment its stop is first seen.
Validations ==
  /\ \A t \in Takes : /\ story.launched[t] <= 1
                      /\ story.launched[t] = 1 => t <= story.takes
                      /\ story.launched[t] = 1 /\ t = co.take => co.validating = t
  /\ co.take # NoTake /\ co.validating = co.take => co.take \in validating

\* The callback that ends a phase is not ignored.
Unignored ==
  /\ co.phase = "starting" => co.take # NoTake
  /\ co.observed \/ co.attempt => co.seen
  /\ co.phase = "stopping" /\ co.take = NoTake =>
       \E m \in workers \cup replies :
         m.take = NoTake /\ ~m.target /\ (m.attempt => co.attempt)

\* The takes the recorder was started for, or may still be.
Launched == story.recorded \cup {m.take : m \in {w \in workers \cup wire : w.target}}

\* No guest has discarded the audio of the take, or has been told to.
Clean(t) ==
  /\ ctl.cancel.take # t
  /\ \A g \in Guests : guest[g].seen.cancel.take # t /\ t \notin guest[g].dropped

\* The recorder is asked to start only once the arm of the take was confirmed,
\* and nobody waits for that arm any more; a discarded take is not armed again.
Asks ==
  /\ \A t \in Launched \cup validating \cup UNION {guest[g].dropped : g \in Guests} : t <= story.takes
  /\ \A arm \in waits : arm.take \notin Launched /\ (arm.take = co.take => arm = co.arm)
  /\ co.take \in validating => co.ended
  /\ \A g \in Guests : ctl.arm.take \notin guest[g].dropped
  /\ co.take \in Launched /\ ctl.arm.take = co.take => FullyAcked(ctl) /\ co.arm = ctl.arm

\* While the host can write, seeing the stop settles the arm of a take, so that
\* none the recorder was started for is canceled.
Spared ==
  "write" \notin faults =>
    /\ \A t \in Launched : t \in story.recorded \/ (t = co.take /\ ~co.ended) => Clean(t)
    /\ co.ended /\ co.take \in story.recorded => ctl.arm.take # co.take

\* No callback, snapshot or acknowledgement under way can be taken for one of a
\* later take (recording_coordinator.py:982).
Coherent ==
  /\ TypeOK /\ Numbered /\ ArmAhead /\ AcksBacked /\ AckedCaptures
  /\ Validations /\ BusyOwned /\ Unignored

\* The inductive invariant.
IInv == Coherent /\ Asks /\ Spared
=============================================================================
