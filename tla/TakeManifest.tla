---------------------------- MODULE TakeManifest ----------------------------
(***************************************************************************)
(* What one take's webjam-take.json says of the originals of its guests,   *)
(* and how each of its writers changes it: the validation of the take, the *)
(* reconciliation with what guests have uploaded, and the note that the    *)
(* reconciliation failed.  Writers compare and swap: each builds the next  *)
(* manifest from the one it has read.  A guest has one original, which     *)
(* stands for all that it declares.                                        *)
(***************************************************************************)
EXTENDS Naturals

CONSTANT Guests \* guests that may have an original

\* An original at the host: not complete, complete and as declared, or
\* complete with gaps or under a declaration that does not hold.
Originals == {"absent", "whole", "flawed"}
Arrived   == {"whole", "flawed"}

\* Whether an attached original has been aligned with the server's tracks.
Timings == {"none", "waiting", "settled"}

Manifests ==
  [rev:    Nat,                   \* revision; 0 is no manifest,
   base:   BOOLEAN,               \* errors that the validation found,
   open:   BOOLEAN,               \* errors of the guests' originals,
   marked: BOOLEAN,               \* peer_transfers is there, with
   listed: SUBSET Guests,         \* the guests it lists and
   seen:   [Guests -> Originals], \* their originals,
   timing: [Guests -> Timings]]   \* the tracks of originals

NoManifest ==
  [rev |-> 0, base |-> FALSE, open |-> FALSE, marked |-> FALSE, listed |-> {},
   seen |-> [g \in Guests |-> "absent"], timing |-> [g \in Guests |-> "none"]]

Attention(m) == m.base \/ m.open
Attached(m)  == {g \in Guests : m.timing[g] # "none"}

\* The manifest a validation writes.
Validated(base) == [NoManifest EXCEPT !.rev = 1, !.base = base]

\* _publish_take_attention.
Noted(m) == [m EXCEPT !.rev = @ + 1, !.open = TRUE]

\* The timings a pass may give an original: a settled one is kept, gaps are
\* never aligned, the reference may be missing.
TimingsAfter(timing, original) ==
  IF original \notin Arrived THEN {timing}
  ELSE IF timing = "settled" \/ original = "flawed" THEN {"settled"}
  ELSE {"waiting", "settled"}

Listed(owed, inv) == owed \cup {g \in Guests : inv[g] \in Arrived}

\* Mutant: only originals that have arrived are looked at.
MissingMutant(owed, inv, issue) ==
  issue \/ \E g \in Listed({}, inv) : inv[g] # "whole"

\* Errors of the originals: one that is owed has not arrived whole.
Missing(owed, inv, issue) ==
  issue \/ \E g \in Listed(owed, inv) : inv[g] # "whole"

\* What a pass may make of m, with the revision still that of m.
Reconciled(m, owed, inv, issue) ==
  {[m EXCEPT !.open = Missing(owed, inv, issue), !.marked = TRUE,
             !.listed = Listed(owed, inv), !.seen = inv, !.timing = timing] :
     timing \in {t \in [Guests -> Timings] :
                   \A g \in Guests : t[g] \in TimingsAfter(m.timing[g], inv[g])}}

\* m may be followed by n: nothing attached is lost, no alignment is undone,
\* and a changed manifest has a new revision.
MayFollow(m, n) ==
  /\ n # m => n.rev > m.rev
  /\ Attached(m) \subseteq Attached(n)
  /\ \A g \in Guests : m.timing[g] = "settled" => n.timing[g] = "settled"
  /\ m.marked => n.marked
=============================================================================
