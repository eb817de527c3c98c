---------------------------- MODULE ReplayFilter ----------------------------
(***************************************************************************)
(* One peer's replay window over its lifetime, with "seen" the sequences   *)
(* it accepted so far, which the code does not keep.  Sequences arrive in  *)
(* any order, any number of times.                                         *)
(***************************************************************************)
EXTENDS ReplayWindow

CONSTANT MaxSequence  \* 0x7FFF_FFFF_FFFF_FFFF in the code

ASSUME SequenceAssumption == MaxSequence \in Nat

Sequences == 0 .. MaxSequence

VARIABLES window, seen, verdict

fvars == <<window, seen, verdict>>

Init == window = NewWindow /\ seen = {} /\ verdict = "none"

Accept(s) ==
  /\ Accepts(window, s)
  /\ window' = Accepted(window, s)
  /\ seen' = seen \cup {s}
  /\ verdict' = IF s \in seen THEN "replayed" ELSE "fresh"

Refuse(s) ==
  /\ ~Accepts(window, s)
  /\ verdict' = IF s \in seen \/ \E t \in seen : t - s >= Width
                THEN "refused" ELSE "lost"
  /\ UNCHANGED <<window, seen>>

Next == \E s \in Sequences : Accept(s) \/ Refuse(s)

Spec == Init /\ [][Next]_fvars
-----------------------------------------------------------------------------
TypeOK ==
  /\ window \in [highest : {-1} \cup Sequences, mask : SUBSET (0 .. Width - 1)]
  /\ seen \subseteq Sequences
  /\ verdict \in {"none", "fresh", "replayed", "refused", "lost"}

\* The window remembers exactly the accepted sequences within Width of the
\* highest one, whatever the order they arrived in.
Remembers ==
  /\ window.highest = -1 <=> seen = {}
  /\ seen # {} => window.highest \in seen /\ \A s \in seen : s <= window.highest
  /\ \A d \in 0 .. Width - 1 : d \in window.mask <=> (window.highest - d) \in seen

\* No sequence is ever accepted twice, and none is refused that is neither a
\* duplicate nor Width or more behind one already accepted.
Exact == verdict \notin {"replayed", "lost"}
=============================================================================
