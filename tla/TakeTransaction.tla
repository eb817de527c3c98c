-------------------------- MODULE TakeTransaction --------------------------
(***************************************************************************)
(* What the recording commit promises, as one atomic transaction: the      *)
(* docstring of core/project_recording_commit.py calls it an all-or-       *)
(* explicit-recovery transaction.  "visible" is what any saved document    *)
(* shows, "inflight" the recording under transaction, "committed" the      *)
(* recordings that are complete for good.                                  *)
(***************************************************************************)
CONSTANTS Recordings, NoRec

VARIABLES visible, committed, inflight

tvars == <<visible, committed, inflight>>

Init == visible = {} /\ committed = {} /\ inflight = NoRec

Begin(r) ==
  /\ inflight = NoRec /\ r \notin visible
  /\ inflight' = r
  /\ UNCHANGED <<visible, committed>>

Publish ==
  /\ inflight # NoRec
  /\ visible' = visible \cup {inflight}
  /\ UNCHANGED <<committed, inflight>>

Commit ==
  /\ inflight \in visible
  /\ committed' = committed \cup {inflight}
  /\ inflight' = NoRec
  /\ UNCHANGED visible

Abort ==
  /\ inflight # NoRec /\ inflight \notin visible
  /\ inflight' = NoRec
  /\ UNCHANGED <<visible, committed>>

Next == (\E r \in Recordings : Begin(r)) \/ Publish \/ Commit \/ Abort

Spec == Init /\ [][Next]_tvars
=============================================================================
