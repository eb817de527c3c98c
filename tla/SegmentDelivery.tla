-------------------------- MODULE SegmentDelivery --------------------------
(***************************************************************************)
(* What the transfer of local originals promises: a segment that may be    *)
(* uploaded is published by the host at most once and never taken back,    *)
(* and its guest believes it delivered only after that.  A guest may       *)
(* forget what it knew, and nothing says when a segment is published.      *)
(***************************************************************************)
CONSTANT Segments

VARIABLES
  released,  \* segments whose upload was allowed
  published, \* segments the host has published whole
  confirmed  \* segments the guest holds for delivered

delivery == <<released, published, confirmed>>

Init == released = {} /\ published = {} /\ confirmed = {}

Release(batch) ==
  /\ batch \subseteq Segments \ released
  /\ released' = released \cup batch
  /\ UNCHANGED <<published, confirmed>>

Publish(s) ==
  /\ s \in released \ published
  /\ published' = published \cup {s}
  /\ UNCHANGED <<released, confirmed>>

Confirm(s) ==
  /\ s \in published \ confirmed
  /\ confirmed' = confirmed \cup {s}
  /\ UNCHANGED <<released, published>>

Forget(some) ==
  /\ some \subseteq confirmed
  /\ confirmed' = confirmed \ some
  /\ UNCHANGED <<released, published>>

Next ==
  \/ \E batch \in SUBSET Segments : Release(batch) \/ Forget(batch)
  \/ \E s \in Segments : Publish(s) \/ Confirm(s)

Spec == Init /\ [][Next]_delivery
=============================================================================
