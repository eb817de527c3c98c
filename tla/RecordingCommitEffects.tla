---------------------- MODULE RecordingCommitEffects ----------------------
(***************************************************************************)
(* What one step of RecordingCommit can do, stated once for the proofs:    *)
(* the types it keeps, what it leaves alone, which step writes which       *)
(* variable, and the effect on the durable state, given the inductive      *)
(* invariant.                                                              *)
(***************************************************************************)
EXTENDS RecordingCommitInv, TLAPS

(***************************************************************************)
(* Type correctness.  TypeOK is not inductive by itself: the journal a     *)
(* commit writes is typed only because a commit has a recording, which is  *)
(* part of CommitState, CommitBase and CommitProgress.                     *)
(***************************************************************************)

\* Adding a recording to a document gives a document.
LEMMA WithType ==
  ASSUME NEW doc \in Document, NEW r \in Recordings
  PROVE  /\ With(doc, r) \in Document
         /\ With(doc, r).recs = doc.recs \cup {r}
         /\ With(doc, r).edits = doc.edits
  BY DEF With, Document

\* The empty document is a document.
LEMMA EmptyType == EmptyDoc \in Document /\ EmptyDoc.recs = {}
  BY DEF EmptyDoc, Document

\* What the journal type says of its fields.
LEMMA JournalType ==
  ASSUME NEW j \in Journal
  PROVE  /\ j.proj \in Document /\ j.studio \in Document
         /\ j = NoJournal \/ (j.rec \in Recordings /\ j.stage \in {"prepared", "ready"})
         /\ NoJournal.rec = NoRec /\ NoJournal.stage = "none"
         /\ NoJournal.proj = EmptyDoc /\ NoJournal.studio = EmptyDoc
  BY EmptyType DEF Journal, NoJournal

\* The journal a commit writes is a journal about its recording.
LEMMA JournalOfType ==
  ASSUME TypeOK, NEW a \in Apps, NEW stage \in {"prepared", "ready"}, ctx[a] \in Recordings
  PROVE  /\ JournalOf(a, stage) \in Journal
         /\ JournalOf(a, stage).stage = stage /\ JournalOf(a, stage).rec = ctx[a]
         /\ JournalOf(a, stage).proj = snap[a].proj
         /\ JournalOf(a, stage).studio = snap[a].studio
  <1>1. snap[a] \in [proj : Document, studio : Document]
    BY DEF TypeOK
  <1> QED
    BY <1>1 DEF JournalOf, Journal

\* A fault or its absence keeps the bounds.
LEMMA BoundsType ==
  ASSUME TypeOK, Fault \/ NoFault
  PROVE  faults' \in 0 .. MaxFaults /\ crashes' \in 0 .. MaxCrashes
  BY CommitAssumption DEF CommitAssumption, TypeOK, Fault, NoFault, bounds

\* A step that leaves the counters alone keeps them.
LEMMA SameBounds ==
  ASSUME TypeOK, UNCHANGED bounds
  PROVE  faults' \in 0 .. MaxFaults /\ crashes' \in 0 .. MaxCrashes
  BY DEF TypeOK, bounds


\* The control states, spelled out.
LEMMA StepNames ==
  /\ Steps = {"prepare", "import", "ready", "project", "studio", "ledger", "clear",
              "except", "rollback", "undo", "rproject", "rstudio",
              "rledger", "rclear", "idle", "drop", "dropprotected", "rdone"}
  /\ LockedSteps = Steps \ {"idle", "drop", "dropprotected", "rdone"}
  BY DEF Steps, LockedSteps, CommitSteps, RecoverSteps

\* Saving an edit counts it and leaves the recordings alone.
LEMMA EditType ==
  ASSUME NEW doc \in Document
  PROVE  LET d == [doc EXCEPT !.edits = @ + 1]
         IN  d \in Document /\ d.recs = doc.recs /\ d.edits = doc.edits + 1
  <1> DEFINE d == [doc EXCEPT !.edits = @ + 1]
  <1>1. doc.edits + 1 \in Nat
    BY DEF Document
  <1>2. d = [edits |-> doc.edits + 1, recs |-> doc.recs]
    BY DEF Document
  <1> QED
    BY <1>1, <1>2 DEF Document

\* A user's step keeps the types.
LEMMA TypeUser ==
  ASSUME Consistent, NEW a \in Apps, UserStep(a)
  PROVE  TypeOK'
<1>1. TypeOK
  BY DEF Consistent
<1>2. CASE OpenProject(a)
  BY <1>1, <1>2, BoundsType, SameBounds
  DEF OpenProject, TypeOK, Show, Views, bundle, app, loop
<1>3. CASE InspectRefuse(a)
  BY <1>1, <1>3, BoundsType, SameBounds
  DEF InspectRefuse, TypeOK, Show, Views, bundle, app, loop
<1>4. CASE CloseProject(a)
  BY <1>1, <1>4, BoundsType, SameBounds
  DEF CloseProject, TypeOK, Show, Views, bundle, app, loop
<1>5. CASE SaveProject(a)
  <2>1. faults' \in 0 .. MaxFaults /\ crashes' \in 0 .. MaxCrashes
    BY <1>1, <1>5, BoundsType, SameBounds DEF SaveProject
  <2>2. proj' \in Document
    BY <1>1, <1>5, EditType DEF SaveProject, TypeOK
  <2>3. snap' \in [Apps -> [proj : Document, studio : Document]]
    BY <1>1, <1>5, <2>2 DEF SaveProject, TypeOK
  <2> QED
    BY <1>1, <1>5, <2>1, <2>2, <2>3 DEF SaveProject, TypeOK, bundle, app, loop, Report, Raised
<1>6. CASE SaveStudio(a)
  <2>1. faults' \in 0 .. MaxFaults /\ crashes' \in 0 .. MaxCrashes
    BY <1>1, <1>6, BoundsType, SameBounds DEF SaveStudio
  <2>2. studio' \in Document
    BY <1>1, <1>6, EditType DEF SaveStudio, TypeOK
  <2>3. snap' \in [Apps -> [proj : Document, studio : Document]]
    BY <1>1, <1>6, <2>2 DEF SaveStudio, TypeOK
  <2> QED
    BY <1>1, <1>6, <2>1, <2>2, <2>3 DEF SaveStudio, TypeOK, bundle, app, loop, Report, Raised
<1>7. ASSUME NEW r \in Recordings, StartRecording(a, r) PROVE TypeOK'
  BY <1>1, <1>7, BoundsType, SameBounds
  DEF StartRecording, TypeOK, Reports, Report, Show, Views, bundle, app, loop
<1>8. CASE ResolveLater(a)
  BY <1>1, <1>8, BoundsType, SameBounds
  DEF ResolveLater, TypeOK, Show, Views, bundle, app, loop
<1> QED
  BY <1>2, <1>3, <1>4, <1>5, <1>6, <1>7, <1>8 DEF UserStep

\* A step of a commit keeps the types.
LEMMA TypeCommit ==
  ASSUME Consistent, NEW a \in Apps, CommitStep(a)
  PROVE  TypeOK'
<1>1. TypeOK
  BY DEF Consistent
<1>2. /\ pc[a] \in CommitSteps => ctx[a] \in Recordings
      /\ ui[a] = "recording" => ctx[a] \in Recordings
  BY DEF Consistent, CommitState, CommitBase, CommitProgress, FreshRecordings
<1>3. CASE StopRefused(a)
  BY <1>1, <1>3, <1>2, StepNames, BoundsType, SameBounds
  DEF StopRefused, TypeOK, Reports, Raised, Report, Goto, Show, Views, bundle, app, loop
<1>4. CASE StopRecording(a)
  BY <1>1, <1>4, StepNames, BoundsType, SameBounds
  DEF StopRecording, TypeOK, Goto, Show, Views, bundle, app, loop
<1>5. CASE WritePrepared(a)
  BY <1>1, <1>5, <1>2, JournalOfType, StepNames, BoundsType, SameBounds
  DEF WritePrepared, TypeOK, CommitSteps, Goto, bundle, app, loop
<1>6. CASE WritePreparedFails(a)
  BY <1>1, <1>6, <1>2, JournalOfType, StepNames, BoundsType, SameBounds
  DEF WritePreparedFails, TypeOK, Reports, Raised, Report, CommitSteps, Goto, Show, Views, bundle, app, loop
<1>7. CASE ImportMedia(a)
  <2>1. faults' \in 0 .. MaxFaults /\ crashes' \in 0 .. MaxCrashes
    BY <1>1, <1>7, BoundsType, SameBounds DEF ImportMedia
  <2>2. pc' \in [Apps -> Steps] /\ ui' \in [Apps -> Views]
    BY <1>1, <1>7, StepNames DEF ImportMedia, TypeOK, app, Raised, Goto, Show, GiveUp, Unresolved, Views
  <2>3. ctx[a] \in Recordings
    BY <1>2, <1>7 DEF ImportMedia, CommitSteps
  <2>4. files' \subseteq Media /\ todo' \in [Apps -> SUBSET Tracks]
    BY <1>1, <1>7, <2>3 DEF ImportMedia, TypeOK, Media, loop
  <2> QED
    BY <1>1, <1>7, <2>1, <2>2, <2>3, <2>4 DEF ImportMedia, TypeOK, bundle, app, loop, Report, Raised
<1>8. CASE ImportMediaFails(a)
  <2>1. faults' \in 0 .. MaxFaults /\ crashes' \in 0 .. MaxCrashes
    BY <1>1, <1>8, BoundsType, SameBounds DEF ImportMediaFails
  <2>2. pc' \in [Apps -> Steps] /\ ui' \in [Apps -> Views]
    BY <1>1, <1>8, StepNames DEF ImportMediaFails, TypeOK, app, Raised, Goto, Show, GiveUp, Unresolved, Views
  <2>3. ctx[a] \in Recordings
    BY <1>2, <1>8 DEF ImportMediaFails, CommitSteps
  <2>4. files' \subseteq Media /\ todo' \in [Apps -> SUBSET Tracks]
    BY <1>1, <1>8, <2>3 DEF ImportMediaFails, TypeOK, Media, loop
  <2> QED
    BY <1>1, <1>8, <2>1, <2>2, <2>3, <2>4 DEF ImportMediaFails, TypeOK, bundle, app, loop, Report, Raised
<1>9. CASE BuildDocument(a)
  BY <1>1, <1>9, StepNames, BoundsType, SameBounds
  DEF BuildDocument, TypeOK, Goto, bundle, app, loop
<1>10. CASE WriteReady(a)
  BY <1>1, <1>10, <1>2, JournalOfType, StepNames, BoundsType, SameBounds
  DEF WriteReady, TypeOK, CommitSteps, Goto, bundle, app, loop
<1>11. CASE CommitProject(a)
  <2>1. faults' \in 0 .. MaxFaults /\ crashes' \in 0 .. MaxCrashes
    BY <1>1, <1>11, BoundsType, SameBounds DEF CommitProject
  <2>2. pc' \in [Apps -> Steps] /\ ui' \in [Apps -> Views]
    BY <1>1, <1>11, StepNames DEF CommitProject, TypeOK, app, Raised, Goto, Show, GiveUp, Unresolved, Views
  <2>3. ctx[a] \in Recordings
    BY <1>2, <1>11 DEF CommitProject, CommitSteps
  <2>4. proj' \in Document /\ studio' \in Document
    BY <1>1, <1>11, <2>3, WithType DEF CommitProject, TypeOK
  <2> QED
    BY <1>1, <1>11, <2>1, <2>2, <2>3, <2>4 DEF CommitProject, TypeOK, bundle, app, loop, Report, Raised
<1>12. CASE CommitStudio(a)
  <2>1. faults' \in 0 .. MaxFaults /\ crashes' \in 0 .. MaxCrashes
    BY <1>1, <1>12, BoundsType, SameBounds DEF CommitStudio
  <2>2. pc' \in [Apps -> Steps] /\ ui' \in [Apps -> Views]
    BY <1>1, <1>12, StepNames DEF CommitStudio, TypeOK, app, Raised, Goto, Show, GiveUp, Unresolved, Views
  <2>3. ctx[a] \in Recordings
    BY <1>2, <1>12 DEF CommitStudio, CommitSteps
  <2>4. proj' \in Document /\ studio' \in Document
    BY <1>1, <1>12, <2>3, WithType DEF CommitStudio, TypeOK
  <2> QED
    BY <1>1, <1>12, <2>1, <2>2, <2>3, <2>4 DEF CommitStudio, TypeOK, bundle, app, loop, Report, Raised
<1>13. CASE CommitLedger(a)
  BY <1>1, <1>13, <1>2, StepNames, BoundsType, SameBounds
  DEF CommitLedger, TypeOK, CommitSteps, Goto, bundle, app, loop
<1>14. CASE ClearJournal(a)
  <2>1. faults' \in 0 .. MaxFaults /\ crashes' \in 0 .. MaxCrashes
    BY <1>1, <1>14, BoundsType, SameBounds DEF ClearJournal
  <2>2. pc' \in [Apps -> Steps] /\ ui' \in [Apps -> Views]
    BY <1>1, <1>14, StepNames DEF ClearJournal, TypeOK, app, Raised, Goto, Show, GiveUp, Unresolved, Views
  <2>3. ctx[a] \in Recordings
    BY <1>2, <1>14 DEF ClearJournal, CommitSteps
  <2>4. journal' \in Journal /\ told' \in [Recordings -> Reports]
    BY <1>1, <1>14, <2>3
    DEF ClearJournal, TypeOK, Journal, Report, Reports, Raised
  <2> QED
    BY <1>1, <1>14, <2>1, <2>2, <2>3, <2>4 DEF ClearJournal, TypeOK, bundle, app, loop, Report, Raised
<1>15. CASE CommitExcept(a)
  <2>1. faults' \in 0 .. MaxFaults /\ crashes' \in 0 .. MaxCrashes
    BY <1>1, <1>15, BoundsType DEF CommitExcept
  <2>2. pc' \in [Apps -> Steps] /\ told' \in [Recordings -> Reports]
    BY <1>1, <1>15, StepNames DEF CommitExcept, TypeOK, Goto, Report, Reports
  <2>3. todo' \in [Apps -> SUBSET Tracks] /\ clean' \in [Apps -> BOOLEAN]
    BY <1>1, <1>15 DEF CommitExcept, TypeOK, loop
  <2> QED
    BY <1>1, <1>15, <2>1, <2>2, <2>3 DEF CommitExcept, TypeOK, bundle, app
<1>16. CASE RollBackCopy(a)
  BY <1>1, <1>16, BoundsType, SameBounds
  DEF RollBackCopy, TypeOK, RemoveCopy, bundle, app, loop
<1>17. CASE FinishRollback(a)
  <2>1. faults' \in 0 .. MaxFaults /\ crashes' \in 0 .. MaxCrashes
    BY <1>1, <1>17, BoundsType, SameBounds DEF FinishRollback
  <2>2. pc' \in [Apps -> Steps] /\ ui' \in [Apps -> Views]
    BY <1>1, <1>17, StepNames DEF FinishRollback, TypeOK, app, Raised, Goto, Show, GiveUp, Unresolved, Views
  <2>3. ctx[a] \in Recordings
    BY <1>2, <1>17 DEF FinishRollback, CommitSteps
  <2>4. journal' \in Journal /\ told' \in [Recordings -> Reports]
    BY <1>1, <1>17, <2>3
    DEF FinishRollback, TypeOK, Journal, Report, Reports, Raised
  <2> QED
    BY <1>1, <1>17, <2>1, <2>2, <2>3, <2>4 DEF FinishRollback, TypeOK, bundle, app, loop, Report, Raised
<1>18. CASE DropCapture(a)
  <2>1. faults' \in 0 .. MaxFaults /\ crashes' \in 0 .. MaxCrashes
    BY <1>1, <1>18, BoundsType, SameBounds DEF DropCapture
  <2>2. pc' \in [Apps -> Steps] /\ ui' \in [Apps -> Views]
    BY <1>1, <1>18, StepNames DEF DropCapture, TypeOK, app, Raised, Goto, Show, GiveUp, Unresolved, Views
  <2>3. [proj |-> proj, studio |-> studio] \in [proj : Document, studio : Document]
    BY <1>1 DEF TypeOK
  <2>4. snap' \in [Apps -> [proj : Document, studio : Document]]
    BY <1>1, <1>18, <2>3 DEF DropCapture, TypeOK
  <2>5. ctx' \in [Apps -> Recordings \cup {NoRec}]
    BY <1>1, <1>18 DEF DropCapture, TypeOK
  <2> QED
    BY <1>1, <1>18, <2>1, <2>2, <2>3, <2>4, <2>5 DEF DropCapture, TypeOK, bundle, app, loop, Report, Raised
<1> QED
  BY <1>3, <1>4, <1>5, <1>6, <1>7, <1>8, <1>9, <1>10, <1>11, <1>12, <1>13, <1>14, <1>15, <1>16, <1>17, <1>18 DEF CommitStep

\* A step of a recovery keeps the types.
LEMMA TypeRecover ==
  ASSUME Consistent, NEW a \in Apps, RecoverStep(a)
  PROVE  TypeOK'
<1>1. TypeOK
  BY DEF Consistent
<1>2. pc[a] \in RecoverSteps => journal.rec \in Recordings
  BY <1>1, JournalType DEF Consistent, TypeOK, RecoverState
<1>3. CASE InspectNone(a)
  BY <1>1, <1>3, BoundsType, SameBounds
  DEF InspectNone, TypeOK, Show, Views, bundle, app, loop
<1>4. CASE InspectResolve(a)
  BY <1>1, <1>4, BoundsType, SameBounds
  DEF InspectResolve, TypeOK, Show, Views, bundle, app, loop
<1>5. CASE RecoverNothing(a)
  <2>1. faults' \in 0 .. MaxFaults /\ crashes' \in 0 .. MaxCrashes
    BY <1>1, <1>5, BoundsType, SameBounds DEF RecoverNothing
  <2>2. pc' \in [Apps -> Steps] /\ ui' \in [Apps -> Views]
    BY <1>1, <1>5, StepNames DEF RecoverNothing, TypeOK, app, Raised, Goto, Show, GiveUp, Unresolved, Views
  <2> QED
    BY <1>1, <1>5, <2>1, <2>2 DEF RecoverNothing, TypeOK, bundle, app, loop, Report, Raised
<1>6. CASE RecoverPrepared(a)
  <2>1. faults' \in 0 .. MaxFaults /\ crashes' \in 0 .. MaxCrashes
    BY <1>1, <1>6, BoundsType, SameBounds DEF RecoverPrepared
  <2>2. pc' \in [Apps -> Steps] /\ ui' \in [Apps -> Views]
    BY <1>1, <1>6, StepNames DEF RecoverPrepared, TypeOK, app, Raised, Goto, Show, GiveUp, Unresolved, Views
  <2> QED
    BY <1>1, <1>6, <2>1, <2>2 DEF RecoverPrepared, TypeOK, bundle, app, loop, Report, Raised
<1>7. CASE UndoCopy(a)
  BY <1>1, <1>7, BoundsType, SameBounds
  DEF UndoCopy, TypeOK, RemoveCopy, bundle, app, loop
<1>8. CASE FinishUndo(a)
  <2>1. faults' \in 0 .. MaxFaults /\ crashes' \in 0 .. MaxCrashes
    BY <1>1, <1>8, BoundsType, SameBounds DEF FinishUndo
  <2>2. pc' \in [Apps -> Steps] /\ ui' \in [Apps -> Views]
    BY <1>1, <1>8, StepNames DEF FinishUndo, TypeOK, app, Raised, Goto, Show, GiveUp, Unresolved, Views
  <2>3. journal.rec \in Recordings
    BY <1>2, <1>8 DEF FinishUndo, RecoverSteps
  <2>4. journal' \in Journal /\ told' \in [Recordings -> Reports]
    BY <1>1, <1>8, <2>3
    DEF FinishUndo, TypeOK, Journal, Report, Reports, Raised
  <2> QED
    BY <1>1, <1>8, <2>1, <2>2, <2>3, <2>4 DEF FinishUndo, TypeOK, bundle, app, loop, Report, Raised
<1>9. CASE RecoverReady(a)
  <2>1. faults' \in 0 .. MaxFaults /\ crashes' \in 0 .. MaxCrashes
    BY <1>1, <1>9, BoundsType, SameBounds DEF RecoverReady
  <2>2. pc' \in [Apps -> Steps] /\ ui' \in [Apps -> Views]
    BY <1>1, <1>9, StepNames DEF RecoverReady, TypeOK, app, Raised, Goto, Show, GiveUp, Unresolved, Views
  <2> QED
    BY <1>1, <1>9, <2>1, <2>2 DEF RecoverReady, TypeOK, bundle, app, loop, Report, Raised
<1>10. CASE RecoverProject(a)
  <2>1. faults' \in 0 .. MaxFaults /\ crashes' \in 0 .. MaxCrashes
    BY <1>1, <1>10, BoundsType, SameBounds DEF RecoverProject
  <2>2. pc' \in [Apps -> Steps] /\ ui' \in [Apps -> Views]
    BY <1>1, <1>10, StepNames DEF RecoverProject, TypeOK, app, Raised, Goto, Show, GiveUp, Unresolved, Views
  <2>3. journal.rec \in Recordings
    BY <1>2, <1>10 DEF RecoverProject, RecoverSteps
  <2>4. proj' \in Document /\ studio' \in Document
    BY <1>1, <1>10, <2>3, JournalType, WithType
    DEF RecoverProject, TypeOK, PlannedProject, PlannedDocument
  <2> QED
    BY <1>1, <1>10, <2>1, <2>2, <2>3, <2>4 DEF RecoverProject, TypeOK, bundle, app, loop, Report, Raised
<1>11. CASE RecoverStudio(a)
  <2>1. faults' \in 0 .. MaxFaults /\ crashes' \in 0 .. MaxCrashes
    BY <1>1, <1>11, BoundsType, SameBounds DEF RecoverStudio
  <2>2. pc' \in [Apps -> Steps] /\ ui' \in [Apps -> Views]
    BY <1>1, <1>11, StepNames DEF RecoverStudio, TypeOK, app, Raised, Goto, Show, GiveUp, Unresolved, Views
  <2>3. journal.rec \in Recordings
    BY <1>2, <1>11 DEF RecoverStudio, RecoverSteps
  <2>4. proj' \in Document /\ studio' \in Document
    BY <1>1, <1>11, <2>3, JournalType, WithType
    DEF RecoverStudio, TypeOK, PlannedProject, PlannedDocument
  <2> QED
    BY <1>1, <1>11, <2>1, <2>2, <2>3, <2>4 DEF RecoverStudio, TypeOK, bundle, app, loop, Report, Raised
<1>12. CASE RecoverLedger(a)
  <2>1. faults' \in 0 .. MaxFaults /\ crashes' \in 0 .. MaxCrashes
    BY <1>1, <1>12, BoundsType, SameBounds DEF RecoverLedger
  <2>2. pc' \in [Apps -> Steps] /\ ui' \in [Apps -> Views]
    BY <1>1, <1>12, StepNames DEF RecoverLedger, TypeOK, app, Raised, Goto, Show, GiveUp, Unresolved, Views
  <2>3. journal.rec \in Recordings
    BY <1>2, <1>12 DEF RecoverLedger, RecoverSteps
  <2> QED
    BY <1>1, <1>12, <2>1, <2>2, <2>3 DEF RecoverLedger, TypeOK, bundle, app, loop, Report, Raised
<1>13. CASE RecoverClear(a)
  <2>1. faults' \in 0 .. MaxFaults /\ crashes' \in 0 .. MaxCrashes
    BY <1>1, <1>13, BoundsType, SameBounds DEF RecoverClear
  <2>2. pc' \in [Apps -> Steps] /\ ui' \in [Apps -> Views]
    BY <1>1, <1>13, StepNames DEF RecoverClear, TypeOK, app, Raised, Goto, Show, GiveUp, Unresolved, Views
  <2>3. journal.rec \in Recordings
    BY <1>2, <1>13 DEF RecoverClear, RecoverSteps
  <2>4. journal' \in Journal /\ told' \in [Recordings -> Reports]
    BY <1>1, <1>13, <2>3
    DEF RecoverClear, TypeOK, Journal, Report, Reports, Raised
  <2> QED
    BY <1>1, <1>13, <2>1, <2>2, <2>3, <2>4 DEF RecoverClear, TypeOK, bundle, app, loop, Report, Raised
<1>14. CASE FinishRecovery(a)
  <2>1. faults' \in 0 .. MaxFaults /\ crashes' \in 0 .. MaxCrashes
    BY <1>1, <1>14, BoundsType, SameBounds DEF FinishRecovery
  <2>2. pc' \in [Apps -> Steps] /\ ui' \in [Apps -> Views]
    BY <1>1, <1>14, StepNames DEF FinishRecovery, TypeOK, app, Raised, Goto, Show, GiveUp, Unresolved, Views
  <2>3. [proj |-> proj, studio |-> studio] \in [proj : Document, studio : Document]
    BY <1>1 DEF TypeOK
  <2>4. snap' \in [Apps -> [proj : Document, studio : Document]]
    BY <1>1, <1>14, <2>3 DEF FinishRecovery, TypeOK
  <2>5. ctx' \in [Apps -> Recordings \cup {NoRec}]
    BY <1>1, <1>14 DEF FinishRecovery, TypeOK
  <2> QED
    BY <1>1, <1>14, <2>1, <2>2, <2>3, <2>4, <2>5 DEF FinishRecovery, TypeOK, bundle, app, loop, Report, Raised
<1> QED
  BY <1>3, <1>4, <1>5, <1>6, <1>7, <1>8, <1>9, <1>10, <1>11, <1>12, <1>13, <1>14 DEF RecoverStep

\* A crash keeps the types.
LEMMA TypeCrash ==
  ASSUME Consistent, NEW a \in Apps, Crash(a)
  PROVE  TypeOK'
<1>1. TypeOK
  BY DEF Consistent
<1>2. faults' \in 0 .. MaxFaults /\ crashes' \in 0 .. MaxCrashes
  BY <1>1, CommitAssumption DEF Crash, TypeOK, CommitAssumption
<1>3. pc' \in [Apps -> Steps] /\ ui' \in [Apps -> Views]
  BY <1>1, StepNames DEF Crash, TypeOK, app, Raised, Goto, Show, GiveUp, Unresolved, Views
<1>4. ctx' \in [Apps -> Recordings \cup {NoRec}]
  BY <1>1, <1>2 DEF Crash, TypeOK
<1> QED
  BY <1>1, <1>2, <1>3, <1>4 DEF Crash, TypeOK, bundle, app, loop, Report, Raised

\* Every step keeps the types, given the whole invariant.
LEMMA TypeStep ==
  ASSUME Consistent, Next
  PROVE  TypeOK'
  BY TypeUser, TypeCommit, TypeRecover, TypeCrash DEF Next
-----------------------------------------------------------------------------
(* Effects.                                                                *)

Step(a) == UserStep(a) \/ CommitStep(a) \/ RecoverStep(a) \/ Crash(a)

\* A step of one application leaves the others' memory alone.
LEMMA Others ==
  ASSUME TypeOK, NEW a \in Apps, NEW b \in Apps, b # a, Step(a)
  PROVE  /\ pc'[b] = pc[b] /\ ui'[b] = ui[b] /\ ctx'[b] = ctx[b]
         /\ snap'[b] = snap[b] /\ todo'[b] = todo[b] /\ clean'[b] = clean[b]
<1> USE DEF TypeOK, app, loop, Goto, Show, Raised, GiveUp
<1>1. CASE UserStep(a)
  BY <1>1
  DEF UserStep, OpenProject, InspectRefuse, CloseProject, SaveProject, SaveStudio,
    StartRecording, ResolveLater
<1>2. CASE CommitStep(a)
  BY <1>2
  DEF CommitStep, StopRefused, StopRecording, WritePrepared, WritePreparedFails,
    ImportMedia, ImportMediaFails, BuildDocument, WriteReady, CommitProject,
    CommitStudio, CommitLedger, ClearJournal, CommitExcept, RollBackCopy,
    FinishRollback, DropCapture, RemoveCopy
<1>3. CASE RecoverStep(a)
  BY <1>3
  DEF RecoverStep, InspectNone, InspectResolve, RecoverNothing, RecoverPrepared,
    UndoCopy, FinishUndo, RecoverReady, RecoverProject, RecoverStudio,
    RecoverLedger, RecoverClear, FinishRecovery, RemoveCopy
<1>4. CASE Crash(a)
  BY <1>4 DEF Crash
<1> QED
  BY <1>1, <1>2, <1>3, <1>4 DEF Step

\* The steps that may write the manifest.
LEMMA ProjectWriters ==
  ASSUME NEW a \in Apps, Step(a)
  PROVE  \/ UNCHANGED proj
         \/ SaveProject(a) \/ CommitProject(a) \/ RecoverProject(a)
<1> USE DEF bundle, app, Goto, Show, Raised, GiveUp
<1>1. CASE UserStep(a)
  BY <1>1
  DEF UserStep, OpenProject, InspectRefuse, CloseProject, SaveStudio,
    StartRecording, ResolveLater
<1>2. CASE CommitStep(a)
  BY <1>2
  DEF CommitStep, StopRefused, StopRecording, WritePrepared, WritePreparedFails,
    ImportMedia, ImportMediaFails, BuildDocument, WriteReady, CommitStudio,
    CommitLedger, ClearJournal, CommitExcept, RollBackCopy, FinishRollback,
    DropCapture, RemoveCopy
<1>3. CASE RecoverStep(a)
  BY <1>3
  DEF RecoverStep, InspectNone, InspectResolve, RecoverNothing, RecoverPrepared,
    UndoCopy, FinishUndo, RecoverReady, RecoverStudio, RecoverLedger,
    RecoverClear, FinishRecovery, RemoveCopy
<1>4. CASE Crash(a)
  BY <1>4 DEF Crash
<1> QED
  BY <1>1, <1>2, <1>3, <1>4 DEF Step

\* The steps that may write the arrangement.
LEMMA StudioWriters ==
  ASSUME NEW a \in Apps, Step(a)
  PROVE  \/ UNCHANGED studio
         \/ SaveStudio(a) \/ CommitStudio(a) \/ RecoverStudio(a)
<1> USE DEF bundle, app, Goto, Show, Raised, GiveUp
<1>1. CASE UserStep(a)
  BY <1>1
  DEF UserStep, OpenProject, InspectRefuse, CloseProject, SaveProject,
    StartRecording, ResolveLater
<1>2. CASE CommitStep(a)
  BY <1>2
  DEF CommitStep, StopRefused, StopRecording, WritePrepared, WritePreparedFails,
    ImportMedia, ImportMediaFails, BuildDocument, WriteReady, CommitProject,
    CommitLedger, ClearJournal, CommitExcept, RollBackCopy, FinishRollback,
    DropCapture, RemoveCopy
<1>3. CASE RecoverStep(a)
  BY <1>3
  DEF RecoverStep, InspectNone, InspectResolve, RecoverNothing, RecoverPrepared,
    UndoCopy, FinishUndo, RecoverReady, RecoverProject, RecoverLedger,
    RecoverClear, FinishRecovery, RemoveCopy
<1>4. CASE Crash(a)
  BY <1>4 DEF Crash
<1> QED
  BY <1>1, <1>2, <1>3, <1>4 DEF Step

\* The steps that may write the evidence ledger.
LEMMA LedgerWriters ==
  ASSUME NEW a \in Apps, Step(a)
  PROVE  \/ UNCHANGED ledger
         \/ CommitLedger(a) \/ RecoverLedger(a)
<1> USE DEF bundle, app, Goto, Show, Raised, GiveUp
<1>1. CASE UserStep(a)
  BY <1>1
  DEF UserStep, OpenProject, InspectRefuse, CloseProject, SaveProject, SaveStudio,
    StartRecording, ResolveLater
<1>2. CASE CommitStep(a)
  BY <1>2
  DEF CommitStep, StopRefused, StopRecording, WritePrepared, WritePreparedFails,
    ImportMedia, ImportMediaFails, BuildDocument, WriteReady, CommitProject,
    CommitStudio, ClearJournal, CommitExcept, RollBackCopy, FinishRollback,
    DropCapture, RemoveCopy
<1>3. CASE RecoverStep(a)
  BY <1>3
  DEF RecoverStep, InspectNone, InspectResolve, RecoverNothing, RecoverPrepared,
    UndoCopy, FinishUndo, RecoverReady, RecoverProject, RecoverStudio,
    RecoverClear, FinishRecovery, RemoveCopy
<1>4. CASE Crash(a)
  BY <1>4 DEF Crash
<1> QED
  BY <1>1, <1>2, <1>3, <1>4 DEF Step

\* The steps that may add or remove collected media.
LEMMA MediaWriters ==
  ASSUME NEW a \in Apps, Step(a)
  PROVE  \/ UNCHANGED files
         \/ ImportMedia(a) \/ ImportMediaFails(a) \/ RollBackCopy(a)
         \/ UndoCopy(a)
<1> USE DEF bundle, app, Goto, Show, Raised, GiveUp
<1>1. CASE UserStep(a)
  BY <1>1
  DEF UserStep, OpenProject, InspectRefuse, CloseProject, SaveProject, SaveStudio,
    StartRecording, ResolveLater
<1>2. CASE CommitStep(a)
  BY <1>2
  DEF CommitStep, StopRefused, StopRecording, WritePrepared, WritePreparedFails,
    BuildDocument, WriteReady, CommitProject, CommitStudio, CommitLedger,
    ClearJournal, CommitExcept, FinishRollback, DropCapture, RemoveCopy
<1>3. CASE RecoverStep(a)
  BY <1>3
  DEF RecoverStep, InspectNone, InspectResolve, RecoverNothing, RecoverPrepared,
    FinishUndo, RecoverReady, RecoverProject, RecoverStudio, RecoverLedger,
    RecoverClear, FinishRecovery, RemoveCopy
<1>4. CASE Crash(a)
  BY <1>4 DEF Crash
<1> QED
  BY <1>1, <1>2, <1>3, <1>4 DEF Step

\* The steps that may write or remove the journal.
LEMMA JournalWriters ==
  ASSUME NEW a \in Apps, Step(a)
  PROVE  \/ UNCHANGED journal
         \/ WritePrepared(a) \/ WritePreparedFails(a) \/ WriteReady(a)
         \/ ClearJournal(a) \/ FinishRollback(a) \/ FinishUndo(a)
         \/ RecoverClear(a)
<1> USE DEF bundle, app, Goto, Show, Raised, GiveUp
<1>1. CASE UserStep(a)
  BY <1>1
  DEF UserStep, OpenProject, InspectRefuse, CloseProject, SaveProject, SaveStudio,
    StartRecording, ResolveLater
<1>2. CASE CommitStep(a)
  BY <1>2
  DEF CommitStep, StopRefused, StopRecording, ImportMedia, ImportMediaFails,
    BuildDocument, CommitProject, CommitStudio, CommitLedger, CommitExcept,
    RollBackCopy, DropCapture, RemoveCopy
<1>3. CASE RecoverStep(a)
  BY <1>3
  DEF RecoverStep, InspectNone, InspectResolve, RecoverNothing, RecoverPrepared,
    UndoCopy, RecoverReady, RecoverProject, RecoverStudio, RecoverLedger,
    FinishRecovery, RemoveCopy
<1>4. CASE Crash(a)
  BY <1>4 DEF Crash
<1> QED
  BY <1>1, <1>2, <1>3, <1>4 DEF Step

\* The steps that may load documents into memory.
LEMMA SnapWriters ==
  ASSUME NEW a \in Apps, Step(a)
  PROVE  \/ UNCHANGED snap
         \/ OpenProject(a) \/ SaveProject(a) \/ SaveStudio(a)
         \/ DropCapture(a) \/ FinishRecovery(a)
<1> USE DEF bundle, app, Goto, Show, Raised, GiveUp
<1>1. CASE UserStep(a)
  BY <1>1
  DEF UserStep, InspectRefuse, CloseProject, StartRecording, ResolveLater
<1>2. CASE CommitStep(a)
  BY <1>2
  DEF CommitStep, StopRefused, StopRecording, WritePrepared, WritePreparedFails,
    ImportMedia, ImportMediaFails, BuildDocument, WriteReady, CommitProject,
    CommitStudio, CommitLedger, ClearJournal, CommitExcept, RollBackCopy,
    FinishRollback, RemoveCopy
<1>3. CASE RecoverStep(a)
  BY <1>3
  DEF RecoverStep, InspectNone, InspectResolve, RecoverNothing, RecoverPrepared,
    UndoCopy, FinishUndo, RecoverReady, RecoverProject, RecoverStudio,
    RecoverLedger, RecoverClear, RemoveCopy
<1>4. CASE Crash(a)
  BY <1>4 DEF Crash
<1> QED
  BY <1>1, <1>2, <1>3, <1>4 DEF Step

\* A report is never taken back to "none".
LEMMA ToldKept ==
  ASSUME TypeOK, NEW r \in Recordings, NEW a \in Apps, Step(a)
  PROVE  told'[r] = "none" => told[r] = "none"
<1> USE DEF TypeOK, Report, Raised
<1>1. CASE UserStep(a)
  BY <1>1
  DEF UserStep, OpenProject, InspectRefuse, CloseProject, SaveProject, SaveStudio,
    StartRecording, ResolveLater
<1>2. CASE CommitStep(a)
  BY <1>2
  DEF CommitStep, StopRefused, StopRecording, WritePrepared, WritePreparedFails,
    ImportMedia, ImportMediaFails, BuildDocument, WriteReady, CommitProject,
    CommitStudio, CommitLedger, ClearJournal, CommitExcept, RollBackCopy,
    FinishRollback, DropCapture, RemoveCopy
<1>3. CASE RecoverStep(a)
  BY <1>3
  DEF RecoverStep, InspectNone, InspectResolve, RecoverNothing, RecoverPrepared,
    UndoCopy, FinishUndo, RecoverReady, RecoverProject, RecoverStudio,
    RecoverLedger, RecoverClear, FinishRecovery, RemoveCopy
<1>4. CASE Crash(a)
  BY <1>4 DEF Crash
<1> QED
  BY <1>1, <1>2, <1>3, <1>4 DEF Step

\* A transaction begins only when the commit lock is free.
LEMMA LockEntered ==
  ASSUME TypeOK, NEW a \in Apps, Step(a)
  PROVE  pc'[a] \in LockedSteps => pc[a] \in LockedSteps \/ LockFree
<1> USE DEF TypeOK, app, Goto, Raised, GiveUp, LockedSteps, CommitSteps, RecoverSteps, Recovering
<1>1. CASE UserStep(a)
  BY <1>1
  DEF UserStep, OpenProject, InspectRefuse, CloseProject, SaveProject, SaveStudio,
    StartRecording, ResolveLater
<1>2. CASE CommitStep(a)
  BY <1>2
  DEF CommitStep, StopRefused, StopRecording, WritePrepared, WritePreparedFails,
    ImportMedia, ImportMediaFails, BuildDocument, WriteReady, CommitProject,
    CommitStudio, CommitLedger, ClearJournal, CommitExcept, RollBackCopy,
    FinishRollback, DropCapture, RemoveCopy
<1>3. CASE RecoverStep(a)
  BY <1>3
  DEF RecoverStep, InspectNone, InspectResolve, RecoverNothing, RecoverPrepared,
    UndoCopy, FinishUndo, RecoverReady, RecoverProject, RecoverStudio,
    RecoverLedger, RecoverClear, FinishRecovery, RemoveCopy
<1>4. CASE Crash(a)
  BY <1>4 DEF Crash
<1> QED
  BY <1>1, <1>2, <1>3, <1>4 DEF Step

\* Inside a transaction the application stays busy.
LEMMA BusyKept ==
  ASSUME TypeOK, BusyShown, NEW a \in Apps, Step(a)
  PROVE  pc'[a] # "idle" => ui'[a] = "busy"
<1> USE DEF TypeOK, BusyShown, app, Goto, Show, Raised, GiveUp, Recovering
<1>1. CASE UserStep(a)
  BY <1>1
  DEF UserStep, OpenProject, InspectRefuse, CloseProject, SaveProject, SaveStudio,
    StartRecording, ResolveLater
<1>2. CASE CommitStep(a)
  BY <1>2
  DEF CommitStep, StopRefused, StopRecording, WritePrepared, WritePreparedFails,
    ImportMedia, ImportMediaFails, BuildDocument, WriteReady, CommitProject,
    CommitStudio, CommitLedger, ClearJournal, CommitExcept, RollBackCopy,
    FinishRollback, DropCapture, RemoveCopy
<1>3. CASE RecoverStep(a)
  BY <1>3
  DEF RecoverStep, InspectNone, InspectResolve, RecoverNothing, RecoverPrepared,
    UndoCopy, FinishUndo, RecoverReady, RecoverProject, RecoverStudio,
    RecoverLedger, RecoverClear, FinishRecovery, RemoveCopy
<1>4. CASE Crash(a)
  BY <1>4 DEF Crash
<1> QED
  BY <1>1, <1>2, <1>3, <1>4 DEF Step

\* A recording in progress is the one there was or one just started.
LEMMA RecordingKept ==
  ASSUME TypeOK, NEW a \in Apps, Step(a)
  PROVE  ui'[a] = "recording" =>
           \/ ui[a] = "recording" /\ ctx'[a] = ctx[a]
           \/ \E r \in Recordings : StartRecording(a, r)
<1> USE DEF TypeOK, app, Show, Raised, GiveUp, Unresolved
<1>1. CASE UserStep(a)
  BY <1>1
  DEF UserStep, OpenProject, InspectRefuse, CloseProject, SaveProject, SaveStudio,
    ResolveLater
<1>2. CASE CommitStep(a)
  BY <1>2
  DEF CommitStep, StopRefused, StopRecording, WritePrepared, WritePreparedFails,
    ImportMedia, ImportMediaFails, BuildDocument, WriteReady, CommitProject,
    CommitStudio, CommitLedger, ClearJournal, CommitExcept, RollBackCopy,
    FinishRollback, DropCapture, RemoveCopy
<1>3. CASE RecoverStep(a)
  BY <1>3
  DEF RecoverStep, InspectNone, InspectResolve, RecoverNothing, RecoverPrepared,
    UndoCopy, FinishUndo, RecoverReady, RecoverProject, RecoverStudio,
    RecoverLedger, RecoverClear, FinishRecovery, RemoveCopy
<1>4. CASE Crash(a)
  BY <1>4 DEF Crash
<1> QED
  BY <1>1, <1>2, <1>3, <1>4 DEF Step

-----------------------------------------------------------------------------
(* The effect of a step on the bundle, as seen by the recordings in it.    *)

DocsKept == proj'.recs = proj.recs /\ studio'.recs = studio.recs /\ UNCHANGED ledger

NothingShown == DocsKept /\ UNCHANGED <<files, journal>>

DeclareTake ==
  /\ journal.stage = "ready" /\ MediaOf(journal.rec) \subseteq files
  /\ proj'.recs = proj.recs \cup {journal.rec}
  /\ UNCHANGED <<studio, ledger, files, journal>>

PlaceTake ==
  /\ journal.stage = "ready" /\ journal.rec \in proj.recs
  /\ studio'.recs = studio.recs \cup {journal.rec}
  /\ UNCHANGED <<proj, ledger, files, journal>>

EnterTake ==
  /\ journal.stage = "ready" /\ journal.rec \in studio.recs
  /\ ledger' = ledger \cup {journal.rec}
  /\ UNCHANGED <<proj, studio, files, journal>>

AddCopy ==
  /\ journal.rec \in Recordings
  /\ \E t \in Tracks : files' = files \cup {<<journal.rec, t>>}
  /\ UNCHANGED <<proj, studio, ledger, journal>>

TakeCopy ==
  /\ journal.rec \in Recordings /\ journal.rec \notin proj.recs
  /\ \E t \in Tracks : files' = files \ {<<journal.rec, t>>}
  /\ UNCHANGED <<proj, studio, ledger, journal>>

BeginTake(a) ==
  /\ pc[a] = "prepare" /\ journal = NoJournal
  /\ ctx[a] \in Recordings /\ Untouched(ctx[a])
  /\ journal' = JournalOf(a, "prepared")
  /\ UNCHANGED <<proj, studio, ledger, files>>

ReadyTake(a) ==
  /\ pc[a] = "ready" /\ Holds(a, "prepared") /\ ctx[a] \in Recordings
  /\ journal' = JournalOf(a, "ready")
  /\ UNCHANGED <<proj, studio, ledger, files>>

EndTake ==
  /\ journal.rec \in ledger
  /\ journal' = NoJournal
  /\ UNCHANGED <<proj, studio, ledger, files>>

DropTake ==
  /\ journal.rec \in Recordings /\ journal.rec \notin proj.recs
  /\ MediaOf(journal.rec) \cap files = {}
  /\ journal' = NoJournal
  /\ UNCHANGED <<proj, studio, ledger, files>>

Effect(a) ==
  \/ NothingShown \/ DeclareTake \/ PlaceTake \/ EnterTake \/ AddCopy \/ TakeCopy
  \/ BeginTake(a) \/ ReadyTake(a) \/ EndTake \/ DropTake

\* What the invariant says about the application that holds a journal.
LEMMA Holder ==
  ASSUME Consistent, NEW a \in Apps
  PROVE  /\ pc[a] \in CommitSteps => ctx[a] \in Recordings
         /\ Holds(a, "prepared") \/ Holds(a, "ready") =>
              journal.rec = ctx[a] /\ journal.proj = snap[a].proj
              /\ journal.studio = snap[a].studio
         /\ Holds(a, "prepared") => journal.stage = "prepared"
         /\ Holds(a, "ready") => journal.stage = "ready"
         /\ pc[a] \in RecoverSteps => journal.rec \in Recordings
<1>1. CommitState(a) /\ RecoverState(a) /\ journal \in Journal
  BY DEF Consistent, TypeOK
<1> QED
  BY <1>1, JournalType DEF CommitState, CommitBase, CommitProgress, RecoverState, Holds, JournalOf

\* Saving edits shows no recording.
LEMMA EditsShowNothing ==
  ASSUME Consistent, NEW a \in Apps, SaveProject(a) \/ SaveStudio(a)
  PROVE  NothingShown
  BY EditType DEF Consistent, TypeOK, SaveProject, SaveStudio, NothingShown, DocsKept

\* A commit that saves the manifest declares the journaled recording.
LEMMA CommitProjectEffect ==
  ASSUME Consistent, NEW a \in Apps, CommitProject(a)
  PROVE  NothingShown \/ DeclareTake
<1>1. /\ Holds(a, "ready") /\ MediaOf(ctx[a]) \subseteq files
      /\ ctx[a] \in Recordings /\ proj \in Document
  BY DEF Consistent, TypeOK, CommitProject, CommitState, CommitBase, CommitProgress, CommitSteps
<1>2. journal.rec = ctx[a] /\ journal.stage = "ready"
  BY <1>1, Holder
<1>3. With(proj, ctx[a]).recs = proj.recs \cup {ctx[a]}
  BY <1>1, WithType
<1> QED
  BY <1>1, <1>2, <1>3 DEF CommitProject, NothingShown, DocsKept, DeclareTake

\* The arrangement save of a commit, save_song_studio_document, leaves the
\* bundle as it was or places the journaled recording.
LEMMA CommitStudioEffect ==
  ASSUME Consistent, NEW a \in Apps, CommitStudio(a)
  PROVE  NothingShown \/ PlaceTake
<1>1. /\ Holds(a, "ready") /\ ctx[a] \in proj.recs
      /\ ctx[a] \in Recordings /\ studio \in Document
  BY DEF Consistent, TypeOK, CommitStudio, CommitState, CommitBase, CommitProgress, CommitSteps
<1>2. journal.rec = ctx[a] /\ journal.stage = "ready"
  BY <1>1, Holder
<1>3. With(studio, ctx[a]).recs = studio.recs \cup {ctx[a]}
  BY <1>1, WithType
<1> QED
  BY <1>1, <1>2, <1>3 DEF CommitStudio, NothingShown, DocsKept, PlaceTake

\* A recovery goes forward only from the documents the journal was about.
LEMMA RecoverDocumentsEffect ==
  ASSUME Consistent, NEW a \in Apps, RecoverProject(a) \/ RecoverStudio(a)
  PROVE  NothingShown \/ DeclareTake \/ PlaceTake
<1>1. /\ journal.rec \in Recordings /\ journal \in Journal
      /\ pc[a] \in {"rproject", "rstudio"} => journal.stage = "ready"
      /\ pc[a] = "rstudio" => journal.rec \in proj.recs
  BY Holder DEF Consistent, TypeOK, RecoverState, RecoverProject, RecoverStudio, RecoverSteps
<1>2. /\ PlannedProject.recs = journal.proj.recs \cup {journal.rec}
      /\ PlannedDocument.recs = journal.studio.recs \cup {journal.rec}
  BY <1>1, JournalType, WithType DEF PlannedProject, PlannedDocument
<1>3. CASE RecoverProject(a)
  BY <1>1, <1>2, <1>3 DEF RecoverProject, Verified, NothingShown, DocsKept, DeclareTake
<1>4. CASE RecoverStudio(a)
  BY <1>1, <1>2, <1>4 DEF RecoverStudio, NothingShown, DocsKept, PlaceTake
<1> QED
  BY <1>3, <1>4

\* The ledger append of a commit or a recovery leaves the bundle as it was or
\* enters the journaled recording.
LEMMA LedgerEffect ==
  ASSUME Consistent, NEW a \in Apps, CommitLedger(a) \/ RecoverLedger(a)
  PROVE  NothingShown \/ EnterTake
<1>1. CASE CommitLedger(a)
  <2>1. Holds(a, "ready") /\ ctx[a] \in studio.recs
    BY <1>1 DEF Consistent, CommitLedger, CommitState, CommitBase, CommitProgress
  <2> QED
    BY <1>1, <2>1, Holder DEF CommitLedger, NothingShown, DocsKept, EnterTake
<1>2. CASE RecoverLedger(a)
  <2>1. journal.stage = "ready" /\ journal.rec \in studio.recs
    BY <1>2 DEF Consistent, RecoverLedger, RecoverState, RecoverSteps
  <2> QED
    BY <1>2, <2>1 DEF RecoverLedger, NothingShown, DocsKept, EnterTake
<1> QED
  BY <1>1, <1>2

\* Importing, rolling back and undoing leave the bundle as it was, or add or take
\* away one copy of the journaled recording.
LEMMA MediaEffect ==
  ASSUME Consistent, NEW a \in Apps,
         ImportMedia(a) \/ ImportMediaFails(a) \/ RollBackCopy(a) \/ UndoCopy(a)
  PROVE  NothingShown \/ AddCopy \/ TakeCopy
<1>1. todo[a] \subseteq Tracks
  BY DEF Consistent, TypeOK
<1>2. CASE ImportMedia(a) \/ ImportMediaFails(a)
  <2>1. pc[a] = "import" /\ Holds(a, "prepared") /\ ctx[a] \in Recordings
    BY <1>2 DEF Consistent, ImportMedia, ImportMediaFails, CommitState, CommitBase, CommitProgress, CommitSteps
  <2> QED
    BY <1>1, <1>2, <2>1, Holder
    DEF ImportMedia, ImportMediaFails, NothingShown, DocsKept, AddCopy
<1>3. CASE RollBackCopy(a)
  <2>1. /\ Holds(a, "prepared") \/ Holds(a, "ready")
        /\ ctx[a] \notin proj.recs /\ ctx[a] \in Recordings
    BY <1>3 DEF Consistent, RollBackCopy, CommitState, CommitBase, CommitProgress, CommitSteps
  <2>2. journal.rec = ctx[a]
    BY <2>1, Holder
  <2> QED
    BY <1>1, <1>3, <2>1, <2>2 DEF RollBackCopy, RemoveCopy, NothingShown, DocsKept, TakeCopy
<1>4. CASE UndoCopy(a)
  <2>1. journal.rec \in Recordings /\ journal.rec \notin proj.recs
    BY <1>4, Holder DEF Consistent, UndoCopy, RecoverState, RecoverSteps, JournalState
  <2> QED
    BY <1>1, <1>4, <2>1 DEF UndoCopy, RemoveCopy, NothingShown, DocsKept, TakeCopy
<1> QED
  BY <1>2, <1>3, <1>4

\* A step that writes or removes the journal leaves the bundle as it was, or
\* begins, makes ready, ends or drops the journaled take.
LEMMA JournalEffect ==
  ASSUME Consistent, NEW a \in Apps,
         \/ WritePrepared(a) \/ WritePreparedFails(a) \/ WriteReady(a) \/ ClearJournal(a)
         \/ FinishRollback(a) \/ FinishUndo(a) \/ RecoverClear(a)
  PROVE  NothingShown \/ BeginTake(a) \/ ReadyTake(a) \/ EndTake \/ DropTake
<1> USE DEF NothingShown, DocsKept
<1>1. CASE WritePrepared(a) \/ WritePreparedFails(a)
  <2>1. ctx[a] \in Recordings /\ Untouched(ctx[a]) /\ journal = NoJournal
    BY <1>1 DEF Consistent, WritePrepared, WritePreparedFails, CommitState, CommitBase, CommitProgress, CommitSteps
  <2> QED
    BY <1>1, <2>1 DEF WritePrepared, WritePreparedFails, BeginTake
<1>2. CASE WriteReady(a)
  <2>1. ctx[a] \in Recordings /\ Holds(a, "prepared")
    BY <1>2 DEF Consistent, WriteReady, CommitState, CommitBase, CommitProgress, CommitSteps
  <2> QED
    BY <1>2, <2>1 DEF WriteReady, ReadyTake
<1>3. CASE ClearJournal(a)
  <2>1. Holds(a, "ready") /\ ctx[a] \in ledger
    BY <1>3 DEF Consistent, ClearJournal, CommitState, CommitBase, CommitProgress
  <2> QED
    BY <1>3, <2>1, Holder DEF ClearJournal, EndTake
<1>4. CASE FinishRollback(a)
  <2>1. /\ Holds(a, "prepared") \/ Holds(a, "ready")
        /\ ctx[a] \notin proj.recs /\ ctx[a] \in Recordings
        /\ clean[a] => MediaOf(ctx[a]) \cap files = {}
    BY <1>4 DEF Consistent, FinishRollback, CommitState, CommitBase, CommitProgress, CommitSteps, Removed, MediaOf
  <2>2. journal.rec = ctx[a]
    BY <2>1, Holder
  <2> QED
    BY <1>4, <2>1, <2>2 DEF FinishRollback, DropTake
<1>5. CASE FinishUndo(a)
  <2>1. /\ journal.rec \in Recordings /\ journal.rec \notin proj.recs
        /\ clean[a] => MediaOf(journal.rec) \cap files = {}
    BY <1>5, Holder
    DEF Consistent, FinishUndo, RecoverState, RecoverSteps, JournalState, Removed, MediaOf
  <2> QED
    BY <1>5, <2>1 DEF FinishUndo, DropTake
<1>6. CASE RecoverClear(a)
  <2>1. journal.rec \in ledger
    BY <1>6 DEF Consistent, RecoverClear, RecoverState
  <2> QED
    BY <1>6, <2>1 DEF RecoverClear, EndTake
<1> QED
  BY <1>1, <1>2, <1>3, <1>4, <1>5, <1>6

\* Every step has one of the effects.
LEMMA StepEffect ==
  ASSUME Consistent, NEW a \in Apps, Step(a)
  PROVE  Effect(a)
<1>1. CASE UNCHANGED <<proj, studio, ledger, files, journal>>
  BY <1>1 DEF Effect, NothingShown, DocsKept
<1>2. CASE ~UNCHANGED <<proj, studio, ledger, files, journal>>
  <2>1. \/ SaveProject(a) \/ CommitProject(a) \/ RecoverProject(a)
        \/ SaveStudio(a) \/ CommitStudio(a) \/ RecoverStudio(a)
        \/ CommitLedger(a) \/ RecoverLedger(a)
        \/ ImportMedia(a) \/ ImportMediaFails(a) \/ RollBackCopy(a) \/ UndoCopy(a)
        \/ WritePrepared(a) \/ WritePreparedFails(a) \/ WriteReady(a) \/ ClearJournal(a)
        \/ FinishRollback(a) \/ FinishUndo(a) \/ RecoverClear(a)
    BY <1>2, ProjectWriters, StudioWriters, LedgerWriters, MediaWriters, JournalWriters
  <2> QED
    BY <2>1, EditsShowNothing, CommitProjectEffect, CommitStudioEffect,
       RecoverDocumentsEffect, LedgerEffect, MediaEffect, JournalEffect DEF Effect
<1> QED
  BY <1>1, <1>2
=============================================================================
