---------------------------- MODULE GuestCapture ----------------------------
(***************************************************************************)
(* The capture side of GuestPeerSession in core/session_transfer_runtime.  *)
(* py: how one guest turns a state it has read from the host into opening, *)
(* keeping or discarding a local recording.  A guest is a record; what a   *)
(* handler may make of it is a set of records, because a device may not    *)
(* open and a finalization may fail.                                       *)
(***************************************************************************)
EXTENDS CaptureControl

NewGuest ==
  [pc |-> "idle",      \* idle, apply (has read a state), ack (waits for a reply)
   seen |-> [signal |-> "idle", take |-> NoTake, cancel |-> NoArm, arm |-> NoArm],
   cap |-> NoTake,     \* _active_take_id: the take of the open capture
   arm |-> NoArm,      \* _active_capture_arm
   bound |-> NoArm,    \* _bound_capture_arm_ack
   stuck |-> FALSE,    \* _capture_finalization_needs_attention
   kept |-> {},        \* takes with a finalized capture, to upload or to recover
   dropped |-> {}]     \* takes whose open capture was discarded

Idled(r) == [r EXCEPT !.cap = NoTake, !.arm = NoArm, !.bound = NoArm]

\* Mutant: closing without an open capture keeps an empty one.
FinalizeMutant(r) ==
  IF r.stuck THEN {r} ELSE {[Idled(r) EXCEPT !.kept = @ \cup {r.cap}], [r EXCEPT !.stuck = TRUE]}

\* _finalize_capture: stop_into and the queue entry, or a latched failure
\* that keeps the capture's owner and everything it holds.
Finalize(r) ==
  IF r.stuck \/ r.cap = NoTake THEN {r}
  ELSE {[Idled(r) EXCEPT !.kept = @ \cup {r.cap}], [r EXCEPT !.stuck = TRUE]}

\* _cancel_armed_capture.
Discard(r) ==
  IF r.stuck THEN {r}
  ELSE {[Idled(r) EXCEPT !.dropped = @ \cup ({r.cap} \ {NoTake})]}

\* _start_capture: it closes the capture of another take first.  An absent
\* device, a changed input map or capture switched off leaves none open.
Open(r, t)  == {[r EXCEPT !.cap = t], r}
Start(r, t) ==
  IF r.cap = t THEN {r}
  ELSE UNION {IF q.cap = NoTake THEN Open(q, t) ELSE {q} : q \in Finalize(r)}
-----------------------------------------------------------------------------
(* _apply_capture_arm_state.                                               *)

HostCommitted(r, s) == s.take = r.arm.take /\ s.signal \in {"recording"} \cup Stopped

\* Mutant: losing sight of the arm counts as its cancellation.
ExactCancelMutant(r, s) == TRUE

ExactCancel(r, s)   == s.cancel = r.arm

\* The arm the guest holds is no longer the one it is shown.
Leave(r, s, whenCommitted) ==
  CASE HostCommitted(r, s) -> whenCommitted
    [] ~HostCommitted(r, s) /\ ExactCancel(r, s) -> Discard(r)
    [] OTHER -> Finalize(r)

\* Mutant: the acknowledgement does not wait for the device.
OpenedMutant(q, arm) == {[q EXCEPT !.arm = arm, !.pc = "ack"]}

\* With the capture open the arm is held and, unless it already was, confirmed.
Opened(q, arm) ==
  IF q.cap # arm.take THEN {[q EXCEPT !.pc = "idle"]}
  ELSE {[q EXCEPT !.arm = arm, !.pc = IF q.bound = arm THEN "idle" ELSE "ack"]}

\* With capture switched off the arm is not answered.
ApplyArm(r, s) ==
  IF s.arm = NoArm
  THEN IF r.arm = NoArm THEN {r}
       ELSE Leave(r, s, {[r EXCEPT !.arm = NoArm, !.bound = NoArm]})
  ELSE LET left == IF r.arm \in {NoArm, s.arm} THEN {r} ELSE Leave(r, s, Finalize(r))
       IN  left \cup UNION {UNION {Opened(q, s.arm) : q \in Start(p, s.arm.take)} : p \in left}

\* The rest of poll_once: the host's stop closes the capture of its take.
\* Under a host that arms captures, a recording signal opens none.
ApplySignal(r, s) ==
  IF s.signal \in Stopped /\ s.take # NoTake /\ s.take = r.cap THEN Finalize(r) ELSE {r}

Apply(r, s) ==
  UNION {ApplySignal(q, s) : q \in ApplyArm([r EXCEPT !.pc = "idle", !.seen = NewGuest.seen], s)}
-----------------------------------------------------------------------------
\* GuestPeerSession.stop.
Leaving(r) == Finalize(r)

\* A new process finds the files of an open capture and moves them aside
\* (recover_stale_local_captures), to be recovered by hand.
Restarted(r) ==
  [NewGuest EXCEPT !.kept = r.kept \cup ({r.cap} \ {NoTake}), !.dropped = r.dropped]
=============================================================================
