--------------------------- MODULE CaptureControl ---------------------------
(***************************************************************************)
(* SessionControlState of core/session_transfer.py: what the host tells    *)
(* the guests about recording.  A control state is a record, and every     *)
(* method is a pair of operators: whether it publishes, and what.  All of  *)
(* them run under the state's lock and write the state file before memory  *)
(* changes, so a method either publishes as a whole or, when the write     *)
(* fails, leaves what the operator named ...Unwritten says.                *)
(*                                                                         *)
(* A session's control state never outlives its process: every start of    *)
(* the host's service makes a new session and an empty state directory.    *)
(***************************************************************************)
EXTENDS Naturals, FiniteSets

NoTake == 0                            \* takes are numbered from 1
NoArm  == [take |-> NoTake, gen |-> 0] \* also: no cancellation

Stopped  == {"finalizing", "complete", "needs_attention"}
Terminal == {"complete", "needs_attention"}
Signals  == {"idle", "recording"} \cup Stopped

NewControl ==
  [signal |-> "idle", take |-> NoTake, arm |-> NoArm, cancel |-> NoArm,
   gen |-> 0,        \* _capture_arm_generation
   required |-> {},  \* guests that must confirm an open capture
   acks |-> {}]      \* guests that have

\* What one guest is told: an arm only when it is required.
ViewOf(c, g) ==
  [signal |-> c.signal, take |-> c.take, cancel |-> c.cancel,
   arm |-> IF g \in c.required THEN c.arm ELSE NoArm]

FullyAcked(c) == c.acks = c.required
-----------------------------------------------------------------------------
(* publish_capture_arm.                                                    *)

CanArm(c, t) ==
  /\ c.arm = NoArm
  /\ c.signal \notin {"recording", "finalizing"}
  /\ ~(c.take = t /\ c.signal \in Terminal)

\* A failing write has already taken a generation and set the requirements.
ArmUnwritten(c, guests) == [c EXCEPT !.gen = @ + 1, !.required = guests, !.acks = {}]
Armed(c, t, guests)     == [ArmUnwritten(c, guests) EXCEPT !.arm = [take |-> t, gen |-> c.gen + 1]]
-----------------------------------------------------------------------------
(* cancel_capture_arm, with a generation or, from _retire_active_take,     *)
(* with the take alone.                                                    *)

CanCancel(c, t)         == c.arm.take = t /\ t # NoTake
CanCancelExact(c, arm)  == c.arm = arm /\ arm # NoArm

CancelUnwritten(c) == [c EXCEPT !.required = {}, !.acks = {}]
Cancelled(c)       == [CancelUnwritten(c) EXCEPT !.arm = NoArm, !.cancel = c.arm]
-----------------------------------------------------------------------------
(* acknowledge_capture_arm: in memory only, idempotent.                    *)

AckAccepted(c, g, arm) == c.arm = arm /\ arm # NoArm /\ g \in c.required
Acked(c, g)            == [c EXCEPT !.acks = @ \cup {g}]
-----------------------------------------------------------------------------
(* begin, begin_finalizing, begin_armed_finalizing, finish.                *)

\* The part of begin and begin_armed_finalizing that commits an arm.
Committed(c, signal, t) ==
  [CancelUnwritten(c) EXCEPT !.signal = signal, !.take = t, !.arm = NoArm, !.cancel = NoArm]

\* Mutant: a delayed duplicate start is not told from a new one.
CanBeginMutant(c, t) ==
  /\ c.signal # "recording"
  /\ c.arm # NoArm => c.arm.take = t /\ FullyAcked(c)

CanBegin(c, t) ==
  /\ c.signal # "recording"
  /\ ~(c.take = t /\ c.signal \in Stopped)
  /\ c.arm # NoArm => c.arm.take = t /\ FullyAcked(c)

Begun(c, t) == Committed(c, "recording", t)

CanFinalize(c, t)        == c.take = t /\ c.signal = "recording"
Finalized(c)             == [c EXCEPT !.signal = "finalizing"]
CanFinalizeArmed(c, arm) == c.arm = arm /\ arm # NoArm /\ FullyAcked(c)
ArmFinalized(c, t)       == Committed(c, "finalizing", t)

CanFinish(c, t)    == c.take = t /\ c.signal \notin {"idle"}
Finished(c, needs) == [c EXCEPT !.signal = IF needs THEN "needs_attention" ELSE "complete"]
=============================================================================
