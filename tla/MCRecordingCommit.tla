------------------------- MODULE MCRecordingCommit -------------------------
(* Small instances of RecordingCommit for TLC. *)
EXTENDS RecordingCommitInv, TLC

\* Applications and tracks are interchangeable in every safety property.
Symmetry == Permutations(Apps) \cup Permutations(Tracks) \cup Permutations(Recordings)
=============================================================================
