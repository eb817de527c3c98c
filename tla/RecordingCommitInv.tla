------------------------ MODULE RecordingCommitInv ------------------------
(***************************************************************************)
(* The inductive invariant of RecordingCommit: for every step of a commit  *)
(* or recovery, what its journal, the documents and the media must be for  *)
(* the safety properties to survive the rest of it, and what the user has  *)
(* been told of the recordings that an application or the journal names.   *)
(***************************************************************************)
EXTENDS RecordingCommit

\* The commit lock excludes: at most one application is inside a transaction.
OneHolder == \A a, b \in Apps :
  pc[a] \in LockedSteps /\ pc[b] \in LockedSteps => a = b

\* An application inside a transaction shows it and takes no other action.
BusyShown == \A a \in Apps : pc[a] # "idle" => ui[a] = "busy"

\* What an application loaded, and what the journal expects, is a past of the
\* documents: it declares no recording they do not declare.
PastDocuments ==
  /\ \A a \in Apps : /\ snap[a].proj.recs \subseteq proj.recs
                     /\ snap[a].studio.recs \subseteq studio.recs
  /\ journal.proj.recs \subseteq proj.recs
  /\ journal.studio.recs \subseteq studio.recs

\* A recording nobody tried to commit yet has left no trace.
Untouched(r) == r \notin proj.recs /\ r # journal.rec
FreshRecordings ==
  /\ \A r \in Recordings : told[r] = "none" => Untouched(r)
  /\ \A a \in Apps : ui[a] = "recording" =>
       ctx[a] \in Recordings /\ told[ctx[a]] # "none" /\ Untouched(ctx[a])
  /\ \A a, b \in Apps :
       ui[a] = "recording" /\ ui[b] = "recording" /\ ctx[a] = ctx[b] => a = b

Imported(a, r)  == \A t \in Tracks \ todo[a] : <<r, t>> \in files
Removed(a, r)   == clean[a] => \A t \in Tracks \ todo[a] : <<r, t>> \notin files
Holds(a, stage) == journal = JournalOf(a, stage)

\* A commit has a recording its base documents do not have and nobody records.
CommitBase(a) == pc[a] \in CommitSteps =>
  /\ ctx[a] \in Recordings /\ told[ctx[a]] # "none"
  /\ \A b \in Apps : ui[b] = "recording" => ctx[b] # ctx[a]
  /\ ctx[a] \notin snap[a].proj.recs /\ ctx[a] \notin snap[a].studio.recs

\* It works on the journal it wrote, and has done what the steps before do.
CommitProgress(a) ==
  LET r == ctx[a] IN
  /\ pc[a] = "prepare" => Untouched(r) /\ journal = NoJournal
  /\ pc[a] = "import" => Holds(a, "prepared") /\ r \notin proj.recs /\ Imported(a, r)
  /\ pc[a] = "ready" => Holds(a, "prepared") /\ r \notin proj.recs
                        /\ MediaOf(r) \subseteq files
  /\ pc[a] = "project" => Holds(a, "ready") /\ MediaOf(r) \subseteq files
  /\ pc[a] = "studio" => Holds(a, "ready") /\ r \in proj.recs
  /\ pc[a] = "ledger" => Holds(a, "ready") /\ r \in studio.recs
  /\ pc[a] = "clear" => Holds(a, "ready") /\ r \in ledger
  /\ pc[a] = "except" =>
       \/ Holds(a, "prepared") \/ Holds(a, "ready")
       \/ journal = NoJournal /\ r \in proj.recs
  /\ pc[a] = "rollback" => (Holds(a, "prepared") \/ Holds(a, "ready"))
                           /\ r \notin proj.recs /\ Removed(a, r)

CommitState(a) == CommitBase(a) /\ CommitProgress(a)

\* A recovery works on the journal on disk, from the documents it names.
RecoverState(a) ==
  LET r == journal.rec IN
  /\ pc[a] = "undo" => journal.stage = "prepared" /\ Removed(a, r)
  /\ pc[a] \in RecoverSteps \ {"undo"} => journal.stage = "ready"
  /\ pc[a] = "rstudio" => r \in proj.recs
  /\ pc[a] = "rledger" => r \in studio.recs
  /\ pc[a] = "rclear" => r \in ledger

\* The journal never expects the recording it is about, and a prepared one is
\* about a recording no document shows.
JournalState ==
  /\ journal.rec \in Recordings =>
       /\ journal.rec \notin journal.proj.recs
       /\ journal.rec \notin journal.studio.recs
       /\ told[journal.rec] # "none"
  /\ journal.stage = "prepared" => journal.rec \notin proj.recs

\* The bundle, the journal and every commit and recovery fit together.
Consistent ==
  /\ TypeOK
  /\ OneHolder /\ BusyShown /\ PastDocuments /\ FreshRecordings /\ JournalState
  /\ \A a \in Apps : CommitState(a) /\ RecoverState(a)
  /\ MediaBacked /\ OrphansJournaled /\ PartialTakeJournaled

\* What the user was told when the transaction of a recording was over.
OverReports == {"committed", "protected", "recovered", "rolledback"}

\* An application that records, or commits what it recorded.
Active(a) == ui[a] = "recording" \/ pc[a] \in CommitSteps

\* The recording an application remembers has only been captured while the
\* application is recording or committing it, and is over afterwards, so that
\* the capture it removes in the end is not one an error promised to keep.
HeldReported == \A a \in Apps : ctx[a] # NoRec =>
  IF Active(a) THEN told[ctx[a]] = "captured" ELSE told[ctx[a]] \in OverReports

\* A journal is about a recording that no report calls finished.  One that a
\* recovery can carry forward is not about a recording reported as failed.
JournalReported ==
  /\ journal # NoJournal => told[journal.rec] \in {"captured", "failed", "protected"}
  /\ journal.stage = "ready" => told[journal.rec] # "failed"

IInv == Consistent /\ HeldReported /\ JournalReported /\ ReportsHold
=============================================================================
