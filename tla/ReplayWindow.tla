---------------------------- MODULE ReplayWindow ----------------------------
(***************************************************************************)
(* ReplayWindow of reference_service/webjam_reference/protocol.py: fixed-  *)
(* memory duplicate rejection that allows limited reordering.  "mask" is   *)
(* the set of its one bits: bit d stands for the sequence highest - d.     *)
(***************************************************************************)
EXTENDS Integers

CONSTANT Width  \* replay_window_size

ASSUME WindowAssumption == Width \in Nat \ {0}

Window    == [highest : Int, mask : SUBSET (0 .. Width - 1)]
NewWindow == [highest |-> -1, mask |-> {}]

\* Mutant: the bit of a sequence inside the window is not looked at.
AcceptsMutant(w, s) == w.highest < 0 \/ s > w.highest \/ w.highest - s < Width

\* Sequences ahead of the window are always accepted; behind it, never.
Accepts(w, s) ==
  \/ w.highest < 0
  \/ s > w.highest
  \/ w.highest - s < Width /\ (w.highest - s) \notin w.mask

\* Mutant: the shift does not move the bits already set.
ShiftedMutant(mask, shift) == mask \cup {0}

\* Mutant: the shifted mask is not truncated to the width.
UntruncatedMutant(mask, shift) == {d + shift : d \in mask} \cup {0}

\* mask << shift, truncated to the width, with the bit of the new sequence.
Shifted(mask, shift) == {d \in 0 .. Width - 1 : d - shift \in mask} \cup {0}

\* The window after accepting s.
Accepted(w, s) ==
  IF w.highest < 0 THEN [highest |-> s, mask |-> {0}]
  ELSE IF s > w.highest
       THEN [highest |-> s, mask |-> Shifted(w.mask, s - w.highest)]
       ELSE [w EXCEPT !.mask = @ \cup {w.highest - s}]
=============================================================================
