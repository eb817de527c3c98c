----------------------- MODULE RecordingCommitProofs -----------------------
(***************************************************************************)
(* The inductive invariant of RecordingCommit is preserved by every step,  *)
(* and the theorems that follow from it: first Consistent, about the       *)
(* bundle and the steps under way, then what was reported, which rests on  *)
(* it.                                                                     *)
(***************************************************************************)
EXTENDS RecordingCommitEffects

\* The commit lock stays exclusive, and its holder stays busy.
LEMMA ControlStep ==
  ASSUME Consistent, NEW a \in Apps, Step(a)
  PROVE  OneHolder' /\ BusyShown'
<1>1. TypeOK /\ OneHolder /\ BusyShown
  BY DEF Consistent
<1>2. \A b \in Apps : b # a => pc'[b] = pc[b] /\ ui'[b] = ui[b]
  BY <1>1, Others
<1>3. BusyShown'
  BY <1>1, <1>2, BusyKept DEF BusyShown
<1>4. OneHolder'
  <2>1. pc'[a] \in LockedSteps => \A b \in Apps : b # a => pc[b] \notin LockedSteps
    BY <1>1, LockEntered DEF OneHolder, LockFree
  <2> QED
    BY <1>1, <1>2, <2>1 DEF OneHolder
<1> QED
  BY <1>3, <1>4

\* The journal a step leaves behind.
LEMMA JournalAfter ==
  ASSUME Consistent, NEW a \in Apps, Step(a)
  PROVE  \/ UNCHANGED journal
         \/ journal' = NoJournal
         \/ /\ journal' \in {JournalOf(a, "prepared"), JournalOf(a, "ready")}
            /\ ctx[a] \in Recordings /\ pc[a] \in {"prepare", "ready"}
            /\ journal'.rec = ctx[a] /\ journal'.proj = snap[a].proj
            /\ journal'.studio = snap[a].studio
  BY StepEffect
  DEF Effect, NothingShown, DeclareTake, PlaceTake, EnterTake, AddCopy, TakeCopy,
      BeginTake, ReadyTake, EndTake, DropTake, JournalOf

\* No step drops a recording from a document or an entry from the ledger.
LEMMA RecordingsGrow ==
  ASSUME Consistent, NEW a \in Apps, Step(a)
  PROVE  proj.recs \subseteq proj'.recs /\ studio.recs \subseteq studio'.recs
         /\ ledger \subseteq ledger'
  BY StepEffect
  DEF Effect, NothingShown, DocsKept, DeclareTake, PlaceTake, EnterTake, AddCopy,
      TakeCopy, BeginTake, ReadyTake, EndTake, DropTake

\* The loaded documents stay a past of the saved ones.
LEMMA PastStep ==
  ASSUME Consistent, NEW a \in Apps, Step(a)
  PROVE  PastDocuments'
<1>1. TypeOK /\ PastDocuments
  BY DEF Consistent
<1>2. snap'[a].proj.recs \subseteq proj'.recs /\ snap'[a].studio.recs \subseteq studio'.recs
  <2>1. CASE UNCHANGED snap
    BY <1>1, <2>1, RecordingsGrow DEF PastDocuments
  <2>2. CASE OpenProject(a) \/ DropCapture(a) \/ FinishRecovery(a)
    BY <1>1, <2>2, RecordingsGrow
    DEF PastDocuments, TypeOK, OpenProject, DropCapture, FinishRecovery, bundle
  <2>3. CASE SaveProject(a)
    BY <1>1, <2>3, EditType DEF PastDocuments, TypeOK, SaveProject
  <2>4. CASE SaveStudio(a)
    BY <1>1, <2>4, EditType DEF PastDocuments, TypeOK, SaveStudio
  <2> QED
    BY <2>1, <2>2, <2>3, <2>4, SnapWriters
<1>3. \A b \in Apps : b # a => snap'[b] = snap[b]
  BY <1>1, Others
<1>4. journal'.proj.recs \subseteq proj'.recs /\ journal'.studio.recs \subseteq studio'.recs
  <2>1. CASE journal' = NoJournal
    BY <2>1, EmptyType DEF NoJournal
  <2> QED
    BY <1>1, <2>1, JournalAfter, RecordingsGrow DEF PastDocuments
<1> QED
  BY <1>1, <1>2, <1>3, <1>4, RecordingsGrow DEF PastDocuments

\* A recording that leaves no trace before a step leaves none after it, unless
\* the step begins its transaction.
LEMMA UntouchedStep ==
  ASSUME Consistent, NEW a \in Apps, Step(a), NEW r \in Recordings, Untouched(r)
  PROVE  Untouched(r)' \/ (r = ctx[a] /\ pc[a] \in CommitSteps)
<1>1. r \notin proj'.recs
  BY StepEffect
  DEF Effect, NothingShown, DocsKept, DeclareTake, PlaceTake, EnterTake, AddCopy,
      TakeCopy, BeginTake, ReadyTake, EndTake, DropTake, Untouched
<1>2. NoRec # r
  BY CommitAssumption DEF CommitAssumption
<1> QED
  BY <1>1, <1>2, JournalAfter DEF Untouched, NoJournal, CommitSteps

\* A recording begins untouched, and stays so until it is committed.
LEMMA FreshStep ==
  ASSUME Consistent, NEW a \in Apps, Step(a)
  PROVE  FreshRecordings'
<1>1. TypeOK /\ FreshRecordings /\ \A b \in Apps : CommitState(b)
  BY DEF Consistent
<1>2. ASSUME NEW r \in Recordings, told'[r] = "none" PROVE Untouched(r)'
  <2>1. told[r] = "none" /\ Untouched(r)
    BY <1>1, <1>2, ToldKept DEF FreshRecordings
  <2> QED
    BY <1>1, <2>1, UntouchedStep DEF CommitState, CommitBase, CommitProgress
<1>3. ASSUME NEW b \in Apps, ui'[b] = "recording", ui[b] = "recording", ctx'[b] = ctx[b]
      PROVE  ctx'[b] \in Recordings /\ told'[ctx'[b]] # "none" /\ Untouched(ctx[b])'
  <2>1. ctx[b] \in Recordings /\ told[ctx[b]] # "none" /\ Untouched(ctx[b])
    BY <1>1, <1>3 DEF FreshRecordings
  <2>2. told'[ctx[b]] # "none"
    BY <1>1, <2>1, ToldKept
  <2>3. ~(ctx[b] = ctx[a] /\ pc[a] \in CommitSteps)
    BY <1>1, <1>3 DEF CommitState, CommitBase, CommitProgress
  <2> QED
    BY <1>3, <2>1, <2>2, <2>3, UntouchedStep
<1>4. CASE \E r \in Recordings : StartRecording(a, r)
  <2>1. PICK r \in Recordings : StartRecording(a, r)
    BY <1>4
  <2>2. /\ told[r] = "none" /\ told'[r] # "none" /\ ctx'[a] = r /\ Untouched(r)
        /\ UNCHANGED <<proj, journal>>
    BY <1>1, <2>1 DEF TypeOK, FreshRecordings, StartRecording, Report, bundle
  <2>3. \A b \in Apps : b # a => ui'[b] = ui[b] /\ ctx'[b] = ctx[b]
    BY <1>1, Others
  <2>4. \A b \in Apps : b # a /\ ui'[b] = "recording" => ctx'[b] # r
    BY <1>1, <2>2, <2>3 DEF FreshRecordings
  <2>5. Untouched(r)'
    BY <2>2 DEF Untouched
  <2>6. ASSUME NEW b \in Apps, ui'[b] = "recording"
        PROVE  ctx'[b] \in Recordings /\ told'[ctx'[b]] # "none" /\ Untouched(ctx[b])'
    BY <1>3, <2>2, <2>3, <2>5, <2>6
  <2>7. ASSUME NEW b \in Apps, NEW c \in Apps, ui'[b] = "recording",
               ui'[c] = "recording", ctx'[b] = ctx'[c]
        PROVE  b = c
    <3>1. CASE b # a /\ c # a
      BY <1>1, <2>3, <2>7, <3>1 DEF FreshRecordings
    <3> QED
      BY <2>2, <2>4, <2>7, <3>1
  <2> QED
    BY <1>2, <2>6, <2>7 DEF FreshRecordings
<1>5. CASE ~\E r \in Recordings : StartRecording(a, r)
  <2>1. \A b \in Apps : ui'[b] = "recording" => ui[b] = "recording" /\ ctx'[b] = ctx[b]
    BY <1>1, <1>5, Others, RecordingKept
  <2>2. ASSUME NEW b \in Apps, ui'[b] = "recording"
        PROVE  ctx'[b] \in Recordings /\ told'[ctx'[b]] # "none" /\ Untouched(ctx[b])'
    BY <1>3, <2>1, <2>2
  <2>3. ASSUME NEW b \in Apps, NEW c \in Apps, ui'[b] = "recording",
               ui'[c] = "recording", ctx'[b] = ctx'[c]
        PROVE  b = c
    BY <1>1, <2>1, <2>3 DEF FreshRecordings
  <2> QED
    BY <1>2, <2>2, <2>3 DEF FreshRecordings
<1> QED
  BY <1>4, <1>5

\* The journal never expects its own recording, and a prepared one is about a
\* recording the manifest does not declare.
LEMMA JournalStep ==
  ASSUME Consistent, NEW a \in Apps, Step(a)
  PROVE  JournalState'
<1>1. TypeOK /\ JournalState /\ CommitState(a)
  BY DEF Consistent
<1>2. CASE UNCHANGED journal
  <2>1. journal.stage = "prepared" => journal.rec \notin proj'.recs
    BY <1>1, <1>2, StepEffect
    DEF Effect, NothingShown, DocsKept, DeclareTake, PlaceTake, EnterTake, AddCopy,
        TakeCopy, BeginTake, ReadyTake, EndTake, DropTake, JournalState
  <2> QED
    BY <1>1, <1>2, <2>1, ToldKept DEF JournalState
<1>3. CASE journal' = NoJournal
  BY <1>3, CommitAssumption DEF CommitAssumption, JournalState, NoJournal
<1>4. CASE BeginTake(a)
  <2>1. /\ ctx[a] \notin snap[a].proj.recs /\ ctx[a] \notin snap[a].studio.recs
        /\ told[ctx[a]] # "none" /\ ctx[a] \in Recordings /\ ctx[a] \notin proj.recs
    BY <1>1, <1>4 DEF BeginTake, CommitState, CommitBase, CommitProgress, CommitSteps, Untouched
  <2>2. told'[ctx[a]] # "none"
    BY <1>1, <2>1, ToldKept
  <2> QED
    BY <1>4, <2>1, <2>2 DEF BeginTake, JournalOf, JournalState
<1>5. CASE ReadyTake(a)
  <2>1. /\ ctx[a] \notin snap[a].proj.recs /\ ctx[a] \notin snap[a].studio.recs
        /\ told[ctx[a]] # "none" /\ ctx[a] \in Recordings
    BY <1>1, <1>5 DEF ReadyTake, CommitState, CommitBase, CommitProgress, CommitSteps
  <2>2. told'[ctx[a]] # "none"
    BY <1>1, <2>1, ToldKept
  <2> QED
    BY <1>5, <2>1, <2>2 DEF ReadyTake, JournalOf, JournalState
<1> QED
  BY <1>2, <1>3, <1>4, <1>5, StepEffect
  DEF Effect, NothingShown, DeclareTake, PlaceTake, EnterTake, AddCopy, TakeCopy,
      EndTake, DropTake

\* The three safety properties of the bundle.
LEMMA SafetyStep ==
  ASSUME Consistent, NEW a \in Apps, Step(a)
  PROVE  MediaBacked' /\ OrphansJournaled' /\ PartialTakeJournaled'
<1>1. /\ MediaBacked /\ OrphansJournaled /\ PartialTakeJournaled /\ JournalState
      /\ CommitState(a) /\ journal \in Journal /\ files \subseteq Media
      /\ ledger \subseteq Recordings
  BY DEF Consistent, TypeOK
<1>2. NoJournal.rec = NoRec /\ NoRec \notin Recordings
  BY CommitAssumption DEF CommitAssumption, NoJournal
<1>3. proj.recs \subseteq Recordings
  BY DEF Consistent, TypeOK, Document
<1> USE DEF MediaBacked, OrphansJournaled, PartialTakeJournaled
<1>4. CASE NothingShown
  BY <1>1, <1>4 DEF NothingShown, DocsKept
<1>5. CASE DeclareTake
  BY <1>1, <1>5 DEF DeclareTake
<1>6. CASE PlaceTake
  BY <1>1, <1>6 DEF PlaceTake
<1>7. CASE EnterTake
  BY <1>1, <1>7 DEF EnterTake
<1>8. CASE AddCopy
  BY <1>1, <1>8 DEF AddCopy
<1>9. CASE TakeCopy
  <2>1. MediaBacked'
    BY <1>1, <1>9 DEF TakeCopy, MediaOf
  <2> QED
    BY <1>1, <1>9, <2>1 DEF TakeCopy
<1>10. CASE BeginTake(a)
  BY <1>1, <1>2, <1>3, <1>10 DEF BeginTake, Media
<1>11. CASE ReadyTake(a)
  <2>1. journal.rec = ctx[a] /\ journal'.rec = ctx[a] /\ journal'.stage = "ready"
    BY <1>11, Holder DEF ReadyTake, JournalOf
  <2> QED
    BY <1>1, <1>11, <2>1 DEF ReadyTake
<1>12. CASE EndTake
  <2>1. journal.rec \in proj.recs
    BY <1>1, <1>12 DEF EndTake
  <2> QED
    BY <1>1, <1>2, <1>12, <2>1 DEF EndTake
<1>13. CASE DropTake
  BY <1>1, <1>2, <1>13 DEF DropTake, MediaOf, Media
<1> QED
  BY <1>4, <1>5, <1>6, <1>7, <1>8, <1>9, <1>10, <1>11, <1>12, <1>13, StepEffect DEF Effect

\* Outside a transaction an application writes nothing but user edits.
LEMMA OutsideStep ==
  ASSUME Consistent, NEW a \in Apps, Step(a), pc[a] \notin LockedSteps
  PROVE  NothingShown
<1>1. \/ UNCHANGED <<proj, studio, ledger, files, journal>>
      \/ SaveProject(a) \/ SaveStudio(a)
  BY ProjectWriters, StudioWriters, LedgerWriters, MediaWriters, JournalWriters
  DEF LockedSteps, CommitSteps, RecoverSteps, CommitProject, RecoverProject,
      CommitStudio, RecoverStudio, CommitLedger, RecoverLedger, ImportMedia,
      ImportMediaFails, RollBackCopy, UndoCopy, WritePrepared, WritePreparedFails,
      WriteReady, ClearJournal, FinishRollback, FinishUndo, RecoverClear
<1> QED
  BY <1>1, EditsShowNothing DEF NothingShown, DocsKept

\* A commit in progress was in progress before, or has just begun, with the same
\* recording and the same base documents.
LEMMA CommitKept ==
  ASSUME TypeOK, BusyShown, NEW a \in Apps, Step(a)
  PROVE  pc'[a] \in CommitSteps =>
           /\ pc[a] \in CommitSteps \/ StopRecording(a)
           /\ ctx'[a] = ctx[a] /\ snap'[a] = snap[a] /\ ui'[a] # "recording"
<1> USE DEF TypeOK, BusyShown, app, Goto, Show, Raised, GiveUp, CommitSteps, Recovering
<1>1. CASE UserStep(a)
  BY <1>1
  DEF UserStep, OpenProject, InspectRefuse, CloseProject, SaveProject, SaveStudio,
    StartRecording, ResolveLater
<1>2. CASE CommitStep(a)
  BY <1>2
  DEF CommitStep, StopRefused, StopRecording, WritePrepared, WritePreparedFails,
    ImportMedia, ImportMediaFails, BuildDocument, WriteReady, CommitProject,
    CommitStudio, CommitLedger, ClearJournal, CommitExcept, RollBackCopy,
    FinishRollback, DropCapture, RemoveCopy
<1>3. CASE RecoverStep(a)
  BY <1>3
  DEF RecoverStep, InspectNone, InspectResolve, RecoverNothing, RecoverPrepared,
    UndoCopy, FinishUndo, RecoverReady, RecoverProject, RecoverStudio,
    RecoverLedger, RecoverClear, FinishRecovery, RemoveCopy
<1>4. CASE Crash(a)
  BY <1>4 DEF Crash
<1> QED
  BY <1>1, <1>2, <1>3, <1>4 DEF Step

\* What a commit needs throughout: a recording its base documents do not have
\* and no other application is recording.
LEMMA CommitBaseStep ==
  ASSUME Consistent, NEW a \in Apps, Step(a), NEW b \in Apps, pc'[b] \in CommitSteps
  PROVE  /\ ctx'[b] = ctx[b] /\ snap'[b] = snap[b]
         /\ ctx[b] \in Recordings /\ told'[ctx[b]] # "none"
         /\ \A c \in Apps : ui'[c] = "recording" => ctx'[c] # ctx[b]
         /\ ctx[b] \notin snap[b].proj.recs /\ ctx[b] \notin snap[b].studio.recs
<1>1. /\ TypeOK /\ BusyShown /\ FreshRecordings /\ PartialTakeJournaled
      /\ \A c \in Apps : CommitState(c)
  BY DEF Consistent
<1>2. /\ pc[b] \in CommitSteps \/ (a = b /\ StopRecording(b))
      /\ ctx'[b] = ctx[b] /\ snap'[b] = snap[b] /\ ui'[b] # "recording"
  <2>1. CASE a = b
    BY <1>1, <2>1, CommitKept
  <2>2. CASE a # b
    BY <1>1, <2>2, Others DEF BusyShown, CommitSteps
  <2> QED
    BY <2>1, <2>2
<1>3. /\ ctx[b] \in Recordings /\ told[ctx[b]] # "none"
      /\ \A c \in Apps : c # b /\ ui[c] = "recording" => ctx[c] # ctx[b]
      /\ ctx[b] \notin snap[b].proj.recs /\ ctx[b] \notin snap[b].studio.recs
  <2>1. CASE pc[b] \in CommitSteps
    BY <1>1, <2>1 DEF CommitState, CommitBase, CommitProgress
  <2>2. CASE StopRecording(b)
    <3>1. ui[b] = "recording" /\ snap[b].proj = proj /\ snap[b].studio = studio
      BY <2>2 DEF StopRecording
    <3> QED
      BY <1>1, <3>1 DEF FreshRecordings, Untouched, PartialTakeJournaled
  <2> QED
    BY <1>2, <2>1, <2>2
<1>4. told'[ctx[b]] # "none"
  BY <1>1, <1>3, ToldKept
<1>5. ASSUME NEW c \in Apps, ui'[c] = "recording" PROVE ctx'[c] # ctx[b]
  <2>1. c # b
    BY <1>2, <1>5
  <2>2. CASE ui[c] = "recording" /\ ctx'[c] = ctx[c]
    BY <1>3, <2>1, <2>2
  <2>3. CASE \E r \in Recordings : c = a /\ StartRecording(a, r)
    BY <1>1, <1>3, <2>3 DEF TypeOK, StartRecording
  <2> QED
    BY <1>1, <1>5, <2>2, <2>3, Others, RecordingKept
<1> QED
  BY <1>2, <1>3, <1>4, <1>5

\* The steps of other applications leave a transaction where it is.
LEMMA OthersState ==
  ASSUME Consistent, NEW a \in Apps, Step(a), NEW b \in Apps, b # a
  PROVE  CommitState(b)' /\ RecoverState(b)'
<1>1. /\ TypeOK /\ OneHolder /\ CommitState(b) /\ RecoverState(b)
  BY DEF Consistent
<1>2. /\ pc'[b] = pc[b] /\ ctx'[b] = ctx[b] /\ snap'[b] = snap[b]
      /\ todo'[b] = todo[b] /\ clean'[b] = clean[b]
  BY <1>1, Others
<1>3. CASE pc[b] \notin LockedSteps
  BY <1>2, <1>3 DEF CommitState, CommitBase, CommitProgress, RecoverState, LockedSteps, CommitSteps, RecoverSteps
<1>4. CASE pc[b] \in LockedSteps
  <2>1. /\ proj'.recs = proj.recs /\ studio'.recs = studio.recs
        /\ UNCHANGED <<ledger, files, journal>>
    BY <1>1, <1>4, OutsideStep DEF OneHolder, NothingShown, DocsKept
  <2>2. RecoverState(b)'
    BY <1>1, <1>2, <2>1 DEF RecoverState, Removed
  <2>3. CommitState(b)'
    BY <1>1, <1>2, <2>1, CommitBaseStep
    DEF CommitState, CommitBase, CommitProgress, Holds, JournalOf, Imported, Removed, Untouched
  <2> QED
    BY <2>2, <2>3
<1> QED
  BY <1>3, <1>4

\* The acting application's commit goes on as its next step expects.
LEMMA CommitProgressStep ==
  ASSUME Consistent, NEW a \in Apps, CommitStep(a)
  PROVE  CommitProgress(a)'
<1>1. /\ TypeOK /\ BusyShown /\ FreshRecordings /\ CommitState(a) /\ PastDocuments
      /\ PartialTakeJournaled
  BY DEF Consistent
<1> USE DEF CommitProgress, Goto, app, loop, Holds, JournalOf
<1>2. CASE StopRefused(a) \/ DropCapture(a)
  BY <1>1, <1>2 DEF StopRefused, DropCapture, Raised, TypeOK
<1>3. CASE StopRecording(a)
  BY <1>1, <1>3 DEF StopRecording, TypeOK, FreshRecordings, bundle, Untouched
<1>4. CASE WritePrepared(a)
  BY <1>1, <1>4 DEF WritePrepared, TypeOK, CommitState, CommitBase, CommitProgress, Untouched, Imported
<1>5. CASE WritePreparedFails(a)
  BY <1>1, <1>5 DEF WritePreparedFails, Raised, TypeOK
<1>6. CASE ImportMedia(a)
  BY <1>1, <1>6 DEF ImportMedia, TypeOK, CommitState, CommitBase, CommitProgress, Imported
<1>7. CASE ImportMediaFails(a)
  BY <1>1, <1>7 DEF ImportMediaFails, TypeOK, CommitState, CommitBase, CommitProgress
<1>8. CASE BuildDocument(a)
  BY <1>1, <1>8 DEF BuildDocument, TypeOK, CommitState, CommitBase, CommitProgress, Imported, MediaOf, bundle
<1>9. CASE WriteReady(a)
  BY <1>1, <1>9 DEF WriteReady, TypeOK, CommitState, CommitBase, CommitProgress, MediaOf
<1>10. CASE CommitProject(a)
  BY <1>1, <1>10, WithType DEF CommitProject, TypeOK, CommitState, CommitBase, CommitProgress, CommitSteps
<1>11. CASE CommitStudio(a)
  BY <1>1, <1>11, WithType DEF CommitStudio, TypeOK, CommitState, CommitBase, CommitProgress, CommitSteps
<1>12. CASE CommitLedger(a)
  BY <1>1, <1>12 DEF CommitLedger, TypeOK, CommitState, CommitBase, CommitProgress
<1>13. CASE ClearJournal(a)
  BY <1>1, <1>13 DEF ClearJournal, TypeOK, CommitState, CommitBase, CommitProgress, PartialTakeJournaled
<1>14. CASE CommitExcept(a)
  BY <1>1, <1>14 DEF CommitExcept, TypeOK, CommitState, CommitBase, CommitProgress, CommitSteps, Removed, bundle
<1>15. CASE RollBackCopy(a)
  BY <1>1, <1>15 DEF RollBackCopy, RemoveCopy, TypeOK, CommitState, CommitBase, CommitProgress, Removed
<1>16. CASE FinishRollback(a)
  BY <1>1, <1>16 DEF FinishRollback, Raised, TypeOK
<1> QED
  BY <1>2, <1>3, <1>4, <1>5, <1>6, <1>7, <1>8, <1>9, <1>10, <1>11, <1>12, <1>13,
     <1>14, <1>15, <1>16 DEF CommitStep

\* Only a step of the commit leaves an application inside a commit.
LEMMA NotCommitting ==
  ASSUME TypeOK, BusyShown, NEW a \in Apps, UserStep(a) \/ RecoverStep(a) \/ Crash(a)
  PROVE  pc'[a] \notin CommitSteps
<1> USE DEF TypeOK, BusyShown, app, Goto, Show, GiveUp, CommitSteps, Recovering
<1>1. CASE UserStep(a)
  BY <1>1
  DEF UserStep, OpenProject, InspectRefuse, CloseProject, SaveProject, SaveStudio,
    StartRecording, ResolveLater
<1>2. CASE RecoverStep(a)
  BY <1>2
  DEF RecoverStep, InspectNone, InspectResolve, RecoverNothing, RecoverPrepared,
    UndoCopy, FinishUndo, RecoverReady, RecoverProject, RecoverStudio,
    RecoverLedger, RecoverClear, FinishRecovery, RemoveCopy
<1>3. CASE Crash(a)
  BY <1>3 DEF Crash
<1> QED
  BY <1>1, <1>2, <1>3

\* The acting application's commit keeps its part of the invariant.
LEMMA CommitStateStep ==
  ASSUME Consistent, NEW a \in Apps, Step(a)
  PROVE  CommitState(a)'
<1>1. TypeOK /\ BusyShown
  BY DEF Consistent
<1>2. CommitProgress(a)'
  BY <1>1, CommitProgressStep, NotCommitting DEF Step, CommitProgress, CommitSteps
<1> QED
  BY <1>2, CommitBaseStep DEF CommitState, CommitBase, CommitProgress

\* The acting application's recovery keeps its part of the invariant.
LEMMA RecoverStateStep ==
  ASSUME Consistent, NEW a \in Apps, Step(a)
  PROVE  RecoverState(a)'
<1>1. /\ TypeOK /\ BusyShown /\ RecoverState(a) /\ JournalState /\ PartialTakeJournaled
      /\ journal.stage \in {"prepared", "ready"} => journal.rec \in Recordings
      /\ journal.rec \in Recordings => journal \in Journal /\ journal # NoJournal
  BY JournalType, CommitAssumption DEF Consistent, TypeOK, NoJournal, CommitAssumption
<1> USE DEF RecoverState, RecoverSteps, Goto, app, loop
<1>2. CASE UserStep(a) \/ Crash(a) \/ CommitStep(a) \/ InspectNone(a) \/ InspectResolve(a)
           \/ RecoverNothing(a) \/ FinishRecovery(a)
  <2>1. pc'[a] \notin RecoverSteps
    <3> USE DEF TypeOK, BusyShown, Show, Raised, GiveUp, Recovering
    <3>1. CASE UserStep(a)
      BY <1>1, <3>1
      DEF UserStep, OpenProject, InspectRefuse, CloseProject, SaveProject, SaveStudio,
        StartRecording, ResolveLater
    <3>2. CASE CommitStep(a)
      BY <1>1, <3>2
      DEF CommitStep, StopRefused, StopRecording, WritePrepared, WritePreparedFails,
        ImportMedia, ImportMediaFails, BuildDocument, WriteReady, CommitProject,
        CommitStudio, CommitLedger, ClearJournal, CommitExcept, RollBackCopy,
        FinishRollback, DropCapture, RemoveCopy
    <3> QED
      BY <1>1, <1>2, <3>1, <3>2
      DEF Crash, InspectNone, InspectResolve, RecoverNothing, FinishRecovery
  <2> QED
    BY <2>1
<1>3. CASE RecoverPrepared(a)
  BY <1>1, <1>3 DEF RecoverPrepared, Recovering, GiveUp, TypeOK, Removed, bundle
<1>4. CASE UndoCopy(a)
  BY <1>1, <1>4 DEF UndoCopy, RemoveCopy, TypeOK, Removed, JournalState
<1>5. CASE FinishUndo(a) \/ RecoverClear(a)
  BY <1>1, <1>5 DEF FinishUndo, RecoverClear, GiveUp, TypeOK
<1>6. CASE RecoverReady(a)
  <2>1. PlannedProject.recs = journal.proj.recs \cup {journal.rec}
    BY <1>1, <1>6, JournalType, WithType DEF RecoverReady, PlannedProject
  <2> QED
    BY <1>1, <1>6, <2>1 DEF RecoverReady, GiveUp, TypeOK, bundle
<1>7. CASE RecoverProject(a)
  <2>1. PlannedProject.recs = journal.proj.recs \cup {journal.rec}
    BY <1>1, <1>7, JournalType, WithType DEF RecoverProject, PlannedProject
  <2> QED
    BY <1>1, <1>7, <2>1 DEF RecoverProject, GiveUp, TypeOK
<1>8. CASE RecoverStudio(a)
  <2>1. PlannedDocument.recs = journal.studio.recs \cup {journal.rec}
    BY <1>1, <1>8, JournalType, WithType DEF RecoverStudio, PlannedDocument
  <2> QED
    BY <1>1, <1>8, <2>1 DEF RecoverStudio, GiveUp, TypeOK
<1>9. CASE RecoverLedger(a)
  BY <1>1, <1>9 DEF RecoverLedger, GiveUp, TypeOK
<1> QED
  BY <1>2, <1>3, <1>4, <1>5, <1>6, <1>7, <1>8, <1>9 DEF Step, RecoverStep
-----------------------------------------------------------------------------
(* The theorems.                                                           *)

\* The bundle and the applications are consistent at first.
LEMMA InitInv == Init => Consistent
<1> SUFFICES ASSUME Init PROVE Consistent
  OBVIOUS
<1>1. TypeOK
  <2>1. faults \in 0 .. MaxFaults /\ crashes \in 0 .. MaxCrashes
    BY CommitAssumption DEF Init, CommitAssumption
  <2> QED
    BY <2>1, EmptyType, StepNames DEF Init, TypeOK, Journal, Views, Reports
<1>2. NoRec \notin Recordings
  BY CommitAssumption DEF CommitAssumption
<1>3. OneHolder /\ BusyShown /\ \A a \in Apps : CommitState(a) /\ RecoverState(a)
  BY DEF Init, OneHolder, BusyShown, LockedSteps, CommitSteps, RecoverSteps, CommitState,
         CommitBase, CommitProgress, RecoverState
<1>4. PastDocuments /\ FreshRecordings /\ JournalState
  BY <1>2, EmptyType
  DEF Init, PastDocuments, FreshRecordings, Untouched, JournalState, NoJournal
<1>5. MediaBacked /\ OrphansJournaled /\ PartialTakeJournaled
  BY EmptyType DEF Init, MediaBacked, OrphansJournaled, PartialTakeJournaled
<1> QED
  BY <1>1, <1>3, <1>4, <1>5 DEF Consistent

\* Every step keeps them consistent.
LEMMA NextInv == Consistent /\ [Next]_vars => Consistent'
<1> SUFFICES ASSUME Consistent, [Next]_vars PROVE Consistent'
  OBVIOUS
<1>1. CASE UNCHANGED vars
  BY <1>1
  DEF vars, Consistent, TypeOK, OneHolder, BusyShown, PastDocuments, FreshRecordings, Untouched,
      JournalState, CommitState, CommitBase, CommitProgress, RecoverState, Holds, JournalOf,
      Imported, Removed, MediaBacked, OrphansJournaled, PartialTakeJournaled
<1>2. ASSUME NEW a \in Apps, Step(a) PROVE Consistent'
  <2>1. TypeOK'
    BY <1>2, TypeUser, TypeCommit, TypeRecover, TypeCrash DEF Step
  <2>2. \A b \in Apps : CommitState(b)' /\ RecoverState(b)'
    BY <1>2, OthersState, CommitStateStep, RecoverStateStep
  <2> QED
    BY <1>2, <2>1, <2>2, ControlStep, PastStep, FreshStep, JournalStep, SafetyStep DEF Consistent
<1> QED
  BY <1>1, <1>2 DEF Next, Step

\* In every reachable state the journal, the documents, the media and the
\* progress of every commit and recovery fit together.
THEOREM Consistency == Spec => []Consistent
  BY InitInv, NextInv, PTL DEF Spec

\* Every variable always has its type; the journal in particular is always a
\* well-formed journal of a recording, or none.
THEOREM TypeCorrect == Spec => []TypeOK
<1>1. Consistent => TypeOK
  BY DEF Consistent
<1> QED
  BY <1>1, Consistency, PTL

\* The commit lock and the busy state exclude two concurrent transactions.
THEOREM Exclusive == Spec => []OneHolder
<1>1. Consistent => OneHolder
  BY DEF Consistent
<1> QED
  BY <1>1, Consistency, PTL

\* No commit, rollback, recovery or crash ever leaves a declared recording
\* without all of its media files.
THEOREM MediaSafe == Spec => []MediaBacked
<1>1. Consistent => MediaBacked
  BY DEF Consistent
<1> QED
  BY <1>1, Consistency, PTL

\* Collected audio that no manifest declares is always named by the journal.
THEOREM OrphansSafe == Spec => []OrphansJournaled
<1>1. Consistent => OrphansJournaled
  BY DEF Consistent
<1> QED
  BY <1>1, Consistency, PTL

\* A take that only some documents show can always be completed from a ready
\* journal.
THEOREM PartialSafe == Spec => []PartialTakeJournaled
<1>1. Consistent => PartialTakeJournaled
  BY DEF Consistent
<1> QED
  BY <1>1, Consistency, PTL

\* No step loses a saved edit of the manifest or the arrangement.
LEMMA EditsGrow ==
  ASSUME Consistent, NEW a \in Apps, Step(a)
  PROVE  proj'.edits >= proj.edits /\ studio'.edits >= studio.edits
<1>1. /\ proj \in Document /\ studio \in Document /\ proj.edits \in Nat
      /\ studio.edits \in Nat /\ journal \in Journal
  BY DEF Consistent, TypeOK, Document
<1>2. UNCHANGED proj => proj'.edits >= proj.edits
  BY <1>1
<1>3. UNCHANGED studio => studio'.edits >= studio.edits
  BY <1>1
<1>4. CASE SaveProject(a) \/ SaveStudio(a)
  <2>1. SaveProject(a) => proj'.edits = proj.edits + 1 /\ UNCHANGED studio
    BY <1>1, EditType DEF SaveProject
  <2>2. SaveStudio(a) => studio'.edits = studio.edits + 1 /\ UNCHANGED proj
    BY <1>1, EditType DEF SaveStudio
  <2> QED
    BY <1>1, <1>4, <2>1, <2>2
<1>5. CASE CommitProject(a) \/ CommitStudio(a)
  <2>1. ctx[a] \in Recordings
    BY <1>5, Holder DEF CommitProject, CommitStudio, CommitSteps
  <2> QED
    BY <1>1, <1>2, <1>3, <1>5, <2>1, WithType DEF CommitProject, CommitStudio
<1>6. CASE RecoverProject(a) \/ RecoverStudio(a)
  <2>1. journal.rec \in Recordings
    BY <1>6, Holder DEF RecoverProject, RecoverStudio, RecoverSteps
  <2>2. PlannedProject.edits = journal.proj.edits /\ PlannedDocument.edits = journal.studio.edits
    BY <1>1, <2>1, JournalType, WithType DEF PlannedProject, PlannedDocument
  <2> QED
    BY <1>1, <1>2, <1>3, <1>6, <2>2 DEF RecoverProject, RecoverStudio
<1> QED
  BY <1>2, <1>3, <1>4, <1>5, <1>6, ProjectWriters, StudioWriters

\* No save, commit or recovery, of any window, ever drops a saved edit, a
\* declared or placed recording, or a ledger entry.
THEOREM NothingLost == Spec => NoLostUpdate
<1> DEFINE Kept == /\ proj'.edits >= proj.edits /\ proj.recs \subseteq proj'.recs
                   /\ studio'.edits >= studio.edits /\ studio.recs \subseteq studio'.recs
                   /\ ledger \subseteq ledger'
<1>1. Consistent /\ [Next]_vars => [Kept]_vars
  BY RecordingsGrow, EditsGrow DEF Next, Step
<1> QED
  BY <1>1, Consistency, PTL DEF Spec, NoLostUpdate

\* A step of the commit is a step of the abstract transaction, or none.
LEMMA TransactionStep ==
  ASSUME Consistent, NEW a \in Apps, Step(a)
  PROVE  [Transaction!Next]_(Transaction!tvars)
<1>1. /\ ledger \subseteq studio.recs /\ studio.recs \subseteq proj.recs
      /\ ledger' \subseteq studio'.recs /\ studio'.recs \subseteq proj'.recs
      /\ ledger \subseteq Recordings /\ journal \in Journal
  BY SafetyStep DEF Consistent, TypeOK, PartialTakeJournaled
<1>2. /\ Shown = proj.recs /\ Shown' = proj'.recs
      /\ Committed = ledger \ {journal.rec} /\ Committed' = ledger' \ {journal'.rec}
  BY <1>1 DEF Shown, Committed
<1>3. NoJournal.rec = NoRec /\ NoRec \notin Recordings
  BY CommitAssumption DEF CommitAssumption, NoJournal
<1>4. CASE NothingShown \/ PlaceTake \/ EnterTake \/ AddCopy \/ TakeCopy
  BY <1>2, <1>4
  DEF NothingShown, DocsKept, PlaceTake, EnterTake, AddCopy, TakeCopy, Transaction!tvars
<1>5. CASE DeclareTake
  <2>1. journal.rec # NoRec
    BY <1>1, <1>3, <1>5, JournalType DEF DeclareTake
  <2>2. Transaction!Publish
    BY <1>2, <1>5, <2>1 DEF DeclareTake, Transaction!Publish
  <2> QED
    BY <2>2 DEF Transaction!Next
<1>6. CASE BeginTake(a)
  <2>1. journal'.rec = ctx[a]
    BY <1>6 DEF BeginTake, JournalOf
  <2>2. Transaction!Begin(ctx[a])
    BY <1>1, <1>2, <1>3, <1>6, <2>1 DEF BeginTake, Untouched, Transaction!Begin
  <2>3. ctx[a] \in Recordings
    BY <1>6 DEF BeginTake
  <2> QED
    BY <2>2, <2>3 DEF Transaction!Next
<1>7. CASE ReadyTake(a)
  <2>1. journal.rec = journal'.rec
    BY <1>7, Holder DEF ReadyTake, JournalOf
  <2> QED
    BY <1>2, <1>7, <2>1 DEF ReadyTake, Transaction!tvars
<1>8. CASE EndTake
  <2>1. Transaction!Commit
    BY <1>1, <1>2, <1>3, <1>8 DEF EndTake, Transaction!Commit
  <2> QED
    BY <2>1 DEF Transaction!Next
<1>9. CASE DropTake
  <2>1. Transaction!Abort
    BY <1>1, <1>2, <1>3, <1>9 DEF DropTake, Transaction!Abort
  <2> QED
    BY <2>1 DEF Transaction!Next
<1> QED
  BY <1>4, <1>5, <1>6, <1>7, <1>8, <1>9, StepEffect DEF Effect

\* The journaled commit, with its rollback, its recovery, failing writes and
\* crashes, implements one atomic transaction per recording.
THEOREM Atomic == Spec => AtomicTake
<1>1. Init => Transaction!Init
  BY EmptyType DEF Init, Transaction!Init, Shown, Committed, NoJournal
<1>2. Consistent /\ [Next]_vars => [Transaction!Next]_(Transaction!tvars)
  <2> SUFFICES ASSUME Consistent, [Next]_vars PROVE [Transaction!Next]_(Transaction!tvars)
    OBVIOUS
  <2>1. CASE UNCHANGED vars
    BY <2>1 DEF vars, Transaction!tvars, Shown, Committed
  <2> QED
    BY <2>1, TransactionStep DEF Next, Step
<1> QED
  BY <1>1, <1>2, Consistency, PTL DEF Spec, AtomicTake, Transaction!Spec

-----------------------------------------------------------------------------
(* What the user was told.                                                 *)

\* The steps that may report something about a recording.
LEMMA ToldWriters ==
  ASSUME NEW a \in Apps, Step(a)
  PROVE  \/ UNCHANGED told
         \/ \E r \in Recordings : StartRecording(a, r)
         \/ StopRefused(a) \/ WritePreparedFails(a) \/ ClearJournal(a)
         \/ CommitExcept(a) \/ FinishRollback(a) \/ FinishUndo(a) \/ RecoverClear(a)
<1> USE DEF bundle, app, Goto, Show, GiveUp
<1>1. CASE UserStep(a)
  BY <1>1
  DEF UserStep, OpenProject, InspectRefuse, CloseProject, SaveProject, SaveStudio,
    ResolveLater
<1>2. CASE CommitStep(a)
  BY <1>2
  DEF CommitStep, StopRecording, WritePrepared, ImportMedia, ImportMediaFails,
    BuildDocument, WriteReady, CommitProject, CommitStudio, CommitLedger,
    RollBackCopy, DropCapture, RemoveCopy
<1>3. CASE RecoverStep(a)
  BY <1>3
  DEF RecoverStep, InspectNone, InspectResolve, RecoverNothing, RecoverPrepared,
    UndoCopy, RecoverReady, RecoverProject, RecoverStudio, RecoverLedger,
    FinishRecovery, RemoveCopy
<1>4. CASE Crash(a)
  BY <1>4 DEF Crash
<1> QED
  BY <1>1, <1>2, <1>3, <1>4 DEF Step

\* The steps that may keep or remove a capture.
LEMMA CaptureWriters ==
  ASSUME NEW a \in Apps, Step(a)
  PROVE  \/ UNCHANGED captures
         \/ \E r \in Recordings : StartRecording(a, r)
         \/ DropCapture(a) \/ FinishRecovery(a)
<1> USE DEF bundle, app, Goto, Show, Raised, GiveUp
<1>1. CASE UserStep(a)
  BY <1>1
  DEF UserStep, OpenProject, InspectRefuse, CloseProject, SaveProject, SaveStudio,
    ResolveLater
<1>2. CASE CommitStep(a)
  BY <1>2
  DEF CommitStep, StopRefused, StopRecording, WritePrepared, WritePreparedFails,
    ImportMedia, ImportMediaFails, BuildDocument, WriteReady, CommitProject,
    CommitStudio, CommitLedger, ClearJournal, CommitExcept, RollBackCopy,
    FinishRollback, RemoveCopy
<1>3. CASE RecoverStep(a)
  BY <1>3
  DEF RecoverStep, InspectNone, InspectResolve, RecoverNothing, RecoverPrepared,
    UndoCopy, FinishUndo, RecoverReady, RecoverProject, RecoverStudio,
    RecoverLedger, RecoverClear, RemoveCopy
<1>4. CASE Crash(a)
  BY <1>4 DEF Crash
<1> QED
  BY <1>1, <1>2, <1>3, <1>4 DEF Step

\* The five ways a transaction reports its end.
ReportFailed(a) ==
  /\ Active(a) /\ ctx[a] \in Recordings /\ ctx[a] \notin proj.recs
  /\ Report(ctx[a], "failed") /\ ctx'[a] = NoRec
  /\ journal'.stage = "ready" => journal'.rec # ctx[a]
  /\ UNCHANGED <<proj, captures>>

ReportCommitted(a) ==
  /\ Active(a) /\ ~Active(a)' /\ ctx[a] \in ledger
  /\ Report(ctx[a], "committed")
  /\ journal' = NoJournal
  /\ UNCHANGED <<ledger, captures, ctx>>

ReportProtected(a) ==
  /\ Active(a) /\ ~Active(a)' /\ ctx[a] \in Recordings
  /\ Report(ctx[a], "protected")
  /\ UNCHANGED <<captures, ctx>>

ReportUndone(a) ==
  /\ pc[a] = "undo" /\ journal.rec \in Recordings /\ journal.rec \notin proj.recs
  /\ MediaOf(journal.rec) \cap files = {}
  /\ Report(journal.rec, "rolledback")
  /\ journal' = NoJournal
  /\ UNCHANGED <<proj, files, captures, ctx>>

ReportRecovered(a) ==
  /\ pc[a] = "rclear" /\ journal.rec \in ledger
  /\ Report(journal.rec, "recovered")
  /\ journal' = NoJournal
  /\ UNCHANGED <<ledger, captures, ctx>>

\* What the invariant says when a commit or a recovery reports.
LEMMA ReportBase ==
  ASSUME Consistent, NEW a \in Apps
  PROVE  /\ Active(a) => ctx[a] \in Recordings
         /\ ui[a] = "recording" => ctx[a] \notin proj.recs /\ ctx[a] # journal.rec
         /\ pc[a] = "prepare" => ctx[a] \notin proj.recs /\ journal = NoJournal
         /\ pc[a] = "clear" => ctx[a] \in ledger
         /\ pc[a] = "rollback" => ctx[a] \notin proj.recs
         /\ pc[a] = "undo" => /\ journal.rec \notin proj.recs
                              /\ todo[a] = {} /\ clean[a] =>
                                   MediaOf(journal.rec) \cap files = {}
         /\ pc[a] = "rclear" => journal.rec \in ledger
         /\ pc[a] \in {"undo", "rclear"} => journal.rec \in Recordings
<1>1. FreshRecordings /\ JournalState /\ CommitState(a) /\ RecoverState(a)
  BY DEF Consistent
<1>2. Active(a) => ctx[a] \in Recordings
  BY <1>1 DEF Active, FreshRecordings, CommitState, CommitBase
<1>3. ui[a] = "recording" => ctx[a] \notin proj.recs /\ ctx[a] # journal.rec
  BY <1>1 DEF FreshRecordings, Untouched
<1>4. /\ pc[a] = "prepare" => ctx[a] \notin proj.recs /\ journal = NoJournal
      /\ pc[a] = "clear" => ctx[a] \in ledger
      /\ pc[a] = "rollback" => ctx[a] \notin proj.recs
  BY <1>1 DEF CommitState, CommitProgress, Untouched
<1>5. pc[a] = "rclear" => journal.rec \in ledger
  BY <1>1 DEF RecoverState
<1>6. pc[a] \in {"undo", "rclear"} => journal.rec \in Recordings
  BY Holder DEF RecoverSteps
<1>7. pc[a] = "undo" => /\ journal.rec \notin proj.recs
                        /\ todo[a] = {} /\ clean[a] =>
                             MediaOf(journal.rec) \cap files = {}
  BY <1>1, <1>6 DEF RecoverState, JournalState, Removed, MediaOf
<1> QED
  BY <1>2, <1>3, <1>4, <1>5, <1>6, <1>7

\* What a step tells the user, and what is true when it does.
LEMMA ReportEffect ==
  ASSUME Consistent, NEW a \in Apps, Step(a)
  PROVE  \/ UNCHANGED told
         \/ \E r \in Recordings : StartRecording(a, r)
         \/ ReportFailed(a) \/ ReportCommitted(a) \/ ReportProtected(a)
         \/ ReportUndone(a) \/ ReportRecovered(a)
<1>1. /\ ctx \in [Apps -> Recordings \cup {NoRec}] /\ pc \in [Apps -> Steps]
      /\ pc[a] # "idle" => ui[a] = "busy"
      /\ NoJournal.stage = "none"
  BY DEF Consistent, TypeOK, BusyShown, NoJournal
<1> USE <1>1, ReportBase DEF Active, CommitSteps, Goto, app
<1>2. CASE StopRefused(a)
  BY <1>2 DEF StopRefused, Raised, ReportFailed, bundle
<1>3. CASE WritePreparedFails(a)
  <2>1. JournalOf(a, "prepared").stage = "prepared"
    BY DEF JournalOf
  <2> QED
    BY <1>3, <2>1 DEF WritePreparedFails, Raised, ReportFailed
<1>4. CASE ClearJournal(a)
  BY <1>4 DEF ClearJournal, ReportCommitted
<1>5. CASE CommitExcept(a)
  BY <1>5 DEF CommitExcept, ReportProtected
<1>6. CASE FinishRollback(a)
  BY <1>6 DEF FinishRollback, Raised, ReportFailed, ReportProtected
<1>7. CASE FinishUndo(a)
  BY <1>7 DEF FinishUndo, ReportUndone
<1>8. CASE RecoverClear(a)
  BY <1>8 DEF RecoverClear, ReportRecovered
<1> QED
  BY <1>2, <1>3, <1>4, <1>5, <1>6, <1>7, <1>8, ToldWriters

\* The report of one recording leaves the others' alone.
LEMMA ReportOne ==
  ASSUME TypeOK, NEW r \in Recordings, NEW what \in Reports, Report(r, what)
  PROVE  told'[r] = what /\ \A q \in Recordings : q # r => told'[q] = told[q]
BY DEF TypeOK, Report

\* An application that remembers a recording after a step has just started it,
\* goes on with it, or has ended its commit and told the user how.
LEMMA RememberStep ==
  ASSUME Consistent, NEW a \in Apps, Step(a), ctx'[a] # NoRec
  PROVE  \/ \E r \in Recordings : StartRecording(a, r)
         \/ ctx'[a] = ctx[a] /\ Active(a)' = Active(a)
         \/ ctx'[a] = ctx[a] /\ Active(a) /\ (ReportCommitted(a) \/ ReportProtected(a))
<1>1. TypeOK /\ BusyShown
  BY DEF Consistent
<1>2. ctx[a] \in Recordings \cup {NoRec} /\ pc[a] \in Steps /\ ui[a] \in Views
  BY <1>1 DEF TypeOK
<1> USE <1>1, ReportBase
    DEF TypeOK, BusyShown, app, Active, CommitSteps, Goto, Show, Raised, GiveUp, Recovering
<1>3. CASE UserStep(a)
  BY <1>3
  DEF UserStep, OpenProject, InspectRefuse, CloseProject, SaveProject, SaveStudio,
    ResolveLater
<1>4. CASE CommitStep(a)
  BY <1>4
  DEF CommitStep, StopRefused, StopRecording, WritePrepared, WritePreparedFails,
    ImportMedia, ImportMediaFails, BuildDocument, WriteReady, CommitProject,
    CommitStudio, CommitLedger, ClearJournal, CommitExcept, RollBackCopy,
    FinishRollback, DropCapture, RemoveCopy, ReportCommitted, ReportProtected
<1>5. CASE RecoverStep(a)
  BY <1>5
  DEF RecoverStep, InspectNone, InspectResolve, RecoverNothing, RecoverPrepared,
    UndoCopy, FinishUndo, RecoverReady, RecoverProject, RecoverStudio,
    RecoverLedger, RecoverClear, FinishRecovery, RemoveCopy, Unresolved
<1>6. CASE Crash(a)
  BY <1>6 DEF Crash
<1> QED
  BY <1>3, <1>4, <1>5, <1>6 DEF Step

\* A recording that one application records or commits is remembered by no
\* other application.
LEMMA HolderAlone ==
  ASSUME Consistent, HeldReported, NEW a \in Apps, NEW b \in Apps,
         Active(a), ctx[b] = ctx[a]
  PROVE  b = a
<1>1. OneHolder /\ FreshRecordings /\ CommitState(a) /\ CommitState(b)
  BY DEF Consistent
<1>2. ctx[a] \in Recordings /\ ctx[a] # NoRec
  BY ReportBase, CommitAssumption DEF CommitAssumption
<1>3. told[ctx[a]] = "captured"
  BY <1>2 DEF HeldReported
<1>4. Active(b)
  BY <1>2, <1>3 DEF HeldReported, OverReports
<1>5. CASE pc[a] \in CommitSteps /\ pc[b] \in CommitSteps
  BY <1>1, <1>5 DEF OneHolder, LockedSteps
<1>6. CASE pc[a] \in CommitSteps /\ ui[b] = "recording"
  BY <1>1, <1>6 DEF CommitState, CommitBase
<1>7. CASE ui[a] = "recording" /\ pc[b] \in CommitSteps
  BY <1>1, <1>7 DEF CommitState, CommitBase
<1>8. CASE ui[a] = "recording" /\ ui[b] = "recording"
  BY <1>1, <1>8 DEF FreshRecordings
<1> QED
  BY <1>4, <1>5, <1>6, <1>7, <1>8 DEF Active

\* The report of a step is about one recording: a fresh one, the one that the
\* application commits, or the one in the journal.
LEMMA ToldAfter ==
  ASSUME Consistent, NEW a \in Apps, Step(a), NEW r \in Recordings, told'[r] # told[r]
  PROVE  \/ told[r] = "none" /\ told'[r] = "captured" /\ StartRecording(a, r)
         \/ r = ctx[a] /\ told'[r] = "failed" /\ ReportFailed(a)
         \/ r = ctx[a] /\ told'[r] = "committed" /\ ReportCommitted(a)
         \/ r = ctx[a] /\ told'[r] = "protected" /\ ReportProtected(a)
         \/ r = journal.rec /\ told'[r] = "rolledback" /\ ReportUndone(a)
         \/ r = journal.rec /\ told'[r] = "recovered" /\ ReportRecovered(a)
<1>1. TypeOK /\ ledger \subseteq Recordings
  BY DEF Consistent, TypeOK
<1>2. {"captured", "failed", "committed", "protected", "rolledback", "recovered"}
        \subseteq Reports
  BY DEF Reports
<1>3. ASSUME NEW q \in Recordings, StartRecording(a, q)
      PROVE  told[r] = "none" /\ told'[r] = "captured" /\ StartRecording(a, r)
  <2>1. told[q] = "none" /\ Report(q, "captured")
    BY <1>3 DEF StartRecording
  <2>2. q = r /\ told'[q] = "captured"
    BY <1>1, <1>2, <2>1, ReportOne
  <2> QED
    BY <1>3, <2>1, <2>2
<1>4. CASE ReportFailed(a)
  BY <1>1, <1>2, <1>4, ReportOne DEF ReportFailed
<1>5. CASE ReportCommitted(a)
  BY <1>1, <1>2, <1>5, ReportOne DEF ReportCommitted
<1>6. CASE ReportProtected(a)
  BY <1>1, <1>2, <1>6, ReportOne DEF ReportProtected
<1>7. CASE ReportUndone(a)
  BY <1>1, <1>2, <1>7, ReportOne DEF ReportUndone
<1>8. CASE ReportRecovered(a)
  BY <1>1, <1>2, <1>8, ReportOne DEF ReportRecovered
<1> QED
  BY <1>3, <1>4, <1>5, <1>6, <1>7, <1>8, ReportEffect

\* The journal that a recovery resolves is not about a recording that another
\* application records or commits.
LEMMA ResolvesOther ==
  ASSUME Consistent, NEW a \in Apps, pc[a] \in {"undo", "rclear"},
         NEW b \in Apps, Active(b)
  PROVE  ctx[b] # journal.rec
<1>1. OneHolder /\ BusyShown
  BY DEF Consistent
<1>2. pc[a] \in RecoverSteps /\ pc[a] \notin CommitSteps /\ ui[a] = "busy"
  BY <1>1 DEF BusyShown, RecoverSteps, CommitSteps
<1>3. pc[b] \notin CommitSteps
  BY <1>1, <1>2 DEF OneHolder, LockedSteps
<1> QED
  BY <1>3, ReportBase DEF Active

\* What was reported about the recordings that applications remember stays what
\* HeldReported says, whichever application takes the step.
LEMMA HeldStep ==
  ASSUME Consistent, HeldReported, NEW a \in Apps, Step(a)
  PROVE  HeldReported'
<1>1. /\ TypeOK /\ BusyShown /\ NoRec \notin Recordings
      /\ told \in [Recordings -> Reports] /\ ctx \in [Apps -> Recordings \cup {NoRec}]
      /\ told' \in [Recordings -> Reports] /\ ctx' \in [Apps -> Recordings \cup {NoRec}]
  BY TypeUser, TypeCommit, TypeRecover, TypeCrash, CommitAssumption
  DEF Consistent, Step, TypeOK, CommitAssumption
<1> SUFFICES ASSUME NEW b \in Apps, ctx'[b] # NoRec
             PROVE  IF Active(b)' THEN told'[ctx'[b]] = "captured"
                    ELSE told'[ctx'[b]] \in OverReports
  BY DEF HeldReported
<1>2. ASSUME ctx'[b] = ctx[b], Active(b)' = Active(b),
             ~(b = a /\ Active(a) /\ (ReportCommitted(a) \/ ReportProtected(a)))
      PROVE  IF Active(b)' THEN told'[ctx'[b]] = "captured"
             ELSE told'[ctx'[b]] \in OverReports
  <2>1. ctx[b] \in Recordings
    BY <1>1, <1>2
  <2>2. IF Active(b) THEN told[ctx[b]] = "captured" ELSE told[ctx[b]] \in OverReports
    BY <1>1, <2>1 DEF HeldReported
  <2>3. CASE told'[ctx[b]] = told[ctx[b]]
    BY <1>2, <2>2, <2>3
  <2>4. CASE told'[ctx[b]] # told[ctx[b]]
    <3>1. ~StartRecording(a, ctx[b]) \/ told[ctx[b]] # "none"
      BY <2>2 DEF OverReports
    <3>2. ASSUME ctx[b] = ctx[a], Active(a) PROVE b = a /\ Active(b)
      BY <3>2, HolderAlone
    <3>3. ~(ctx[b] = ctx[a] /\ ReportFailed(a))
      BY <1>2, <2>1, <1>1, <3>2 DEF ReportFailed
    <3>4. ~(ctx[b] = ctx[a] /\ ReportCommitted(a))
      BY <1>2, <3>2 DEF ReportCommitted
    <3>5. ~(ctx[b] = ctx[a] /\ ReportProtected(a))
      BY <1>2, <3>2 DEF ReportProtected
    <3>6. /\ \/ told'[ctx[b]] = "rolledback" /\ pc[a] = "undo"
             \/ told'[ctx[b]] = "recovered" /\ pc[a] = "rclear"
          /\ ctx[b] = journal.rec
      BY <2>1, <2>2, <2>4, <3>3, <3>4, <3>5, ToldAfter
      DEF OverReports, ReportUndone, ReportRecovered
    <3>7. ~Active(b)
      BY <3>6, ResolvesOther
    <3> QED
      BY <1>2, <3>6, <3>7 DEF OverReports
  <2> QED
    BY <2>3, <2>4
<1>3. CASE b # a
  <2>1. ctx'[b] = ctx[b] /\ ui'[b] = ui[b] /\ pc'[b] = pc[b]
    BY <1>1, <1>3, Others
  <2> QED
    BY <1>2, <1>3, <2>1 DEF Active
<1>4. CASE b = a /\ \E r \in Recordings : StartRecording(a, r)
  <2>1. PICK r \in Recordings : StartRecording(a, r)
    BY <1>4
  <2>2. ctx'[a] = r /\ told'[r] = "captured" /\ Active(a)'
    BY <1>1, <2>1 DEF StartRecording, TypeOK, Show, Report, Active
  <2> QED
    BY <1>4, <2>2
<1>5. CASE /\ b = a /\ ctx'[a] = ctx[a]
           /\ Active(a) /\ (ReportCommitted(a) \/ ReportProtected(a))
  <2>1. ctx[a] \in Recordings
    BY <1>1, <1>5
  <2>2. told'[ctx[a]] \in OverReports
    BY <1>1, <1>5, <2>1, ReportOne DEF ReportCommitted, ReportProtected, OverReports, Reports
  <2>3. ~Active(a)'
    BY <1>5 DEF ReportCommitted, ReportProtected
  <2> QED
    BY <1>5, <2>2, <2>3
<1>6. CASE b = a /\ ctx'[a] = ctx[a] /\ Active(a)' = Active(a)
  BY <1>2, <1>6 DEF ReportCommitted, ReportProtected
<1> QED
  BY <1>3, <1>4, <1>5, <1>6, RememberStep

\* A journal that is written is about a captured recording; one that is removed
\* was about a recording whose transaction is over.
LEMMA JournalReportedStep ==
  ASSUME Consistent, HeldReported, JournalReported, NEW a \in Apps, Step(a)
  PROVE  JournalReported'
<1>1. /\ TypeOK /\ BusyShown /\ journal \in Journal /\ NoRec \notin Recordings
      /\ NoJournal.stage = "none"
      /\ journal = NoJournal \/ journal.rec \in Recordings
  BY JournalType, CommitAssumption DEF Consistent, TypeOK, CommitAssumption, NoJournal, Journal
<1>2. CASE journal' = NoJournal
  BY <1>1, <1>2 DEF JournalReported
<1>3. CASE journal' # NoJournal /\ UNCHANGED journal
  <2>1. /\ journal.rec \in Recordings
        /\ told[journal.rec] \in {"captured", "failed", "protected"}
        /\ journal.stage = "ready" => told[journal.rec] # "failed"
    BY <1>1, <1>3 DEF JournalReported
  <2>2. CASE told'[journal.rec] = told[journal.rec]
    BY <1>3, <2>1, <2>2 DEF JournalReported
  <2>3. CASE told'[journal.rec] # told[journal.rec]
    <3>1. \/ told'[journal.rec] = "failed" /\ journal'.stage # "ready"
          \/ told'[journal.rec] = "protected"
      BY <1>3, <2>1, <2>3, ToldAfter
      DEF ReportFailed, ReportCommitted, ReportUndone, ReportRecovered
    <3> QED
      BY <1>3, <3>1 DEF JournalReported
  <2> QED
    BY <2>2, <2>3
<1>4. CASE /\ ctx[a] \in Recordings /\ pc[a] \in {"prepare", "ready"}
           /\ journal'.rec = ctx[a]
  <2>1. Active(a) /\ told[ctx[a]] = "captured"
    BY <1>1, <1>4 DEF HeldReported, Active, CommitSteps
  <2>2. CASE told'[ctx[a]] = told[ctx[a]]
    BY <1>4, <2>1, <2>2 DEF JournalReported
  <2>3. CASE told'[ctx[a]] # told[ctx[a]]
    <3>1. ctx[a] = journal.rec => pc[a] \notin {"undo", "rclear"}
      BY <1>4
    <3>2. \/ told'[ctx[a]] = "failed" /\ journal'.stage # "ready"
          \/ told'[ctx[a]] = "protected"
          \/ journal' = NoJournal
      BY <1>4, <2>1, <2>3, ToldAfter
      DEF ReportFailed, ReportCommitted, ReportUndone, ReportRecovered
    <3> QED
      BY <1>2, <1>4, <3>2 DEF JournalReported
  <2> QED
    BY <2>2, <2>3
<1> QED
  BY <1>2, <1>3, <1>4, JournalAfter

\* A step declares only the recording of a ready journal, and adds media only
\* to the recording of the journal.
LEMMA Additions ==
  ASSUME Consistent, NEW a \in Apps, Step(a)
  PROVE  /\ \A r \in proj'.recs : r \in proj.recs \/ (r = journal.rec /\ journal.stage = "ready")
         /\ \A m \in files' : m \in files \/ (m[1] = journal.rec /\ journal.rec \in Recordings)
  BY StepEffect
  DEF Effect, NothingShown, DocsKept, DeclareTake, PlaceTake, EnterTake, AddCopy,
      TakeCopy, BeginTake, ReadyTake, EndTake, DropTake

\* A capture appears when a recording starts, and is removed only after the
\* application was told how its transaction ended.
LEMMA CapturesAfter ==
  ASSUME Consistent, HeldReported, NEW a \in Apps, Step(a), NEW r \in Recordings,
         told[r] \notin OverReports
  PROVE  (r \in captures' <=> r \in captures) \/ StartRecording(a, r)
<1>1. BusyShown /\ NoRec # r
  BY CommitAssumption DEF Consistent, CommitAssumption
<1>2. ASSUME NEW q \in Recordings, StartRecording(a, q)
      PROVE  (r \in captures' <=> r \in captures) \/ StartRecording(a, r)
  BY <1>2 DEF StartRecording
<1>3. CASE DropCapture(a) \/ FinishRecovery(a)
  <2>1. ~Active(a)
    BY <1>1, <1>3 DEF BusyShown, DropCapture, FinishRecovery, Active, CommitSteps
  <2>2. ctx[a] # r
    BY <1>1, <2>1 DEF HeldReported
  <2>3. captures' = captures \/ captures' = captures \ {ctx[a]}
    BY <1>3 DEF DropCapture, FinishRecovery
  <2> QED
    BY <2>2, <2>3
<1> QED
  BY <1>2, <1>3, CaptureWriters

\* Which documents show a recording follows from the manifest and the ledger.
LEMMA ShownBy == Consistent =>
  \A r \in Recordings : (Whole(r) <=> r \in ledger) /\ (Absent(r) <=> r \notin proj.recs)
<1> SUFFICES ASSUME Consistent, NEW r \in Recordings
             PROVE  (Whole(r) <=> r \in ledger) /\ (Absent(r) <=> r \notin proj.recs)
  OBVIOUS
<1>1. ledger \subseteq studio.recs /\ studio.recs \subseteq proj.recs
  BY DEF Consistent, PartialTakeJournaled
<1>2. r \in proj.recs => MediaOf(r) \subseteq files
  BY DEF Consistent, MediaBacked
<1> QED
  BY <1>1, <1>2 DEF Whole, Absent

\* What was reported stays true, and a new report is true.
LEMMA ReportsStep ==
  ASSUME Consistent, HeldReported, JournalReported, ReportsHold, Consistent',
         NEW a \in Apps, Step(a)
  PROVE  ReportsHold'
<1>1. /\ TypeOK /\ NoRec \notin Recordings
      /\ journal.stage = "ready" => journal # NoJournal
      /\ journal.rec \in Recordings => journal # NoJournal
  BY CommitAssumption DEF Consistent, CommitAssumption, NoJournal
<1> SUFFICES ASSUME NEW r \in Recordings
             PROVE  /\ told'[r] \in {"committed", "recovered"} => r \in ledger'
                    /\ told'[r] = "failed" => r \notin proj'.recs /\ r \in captures'
                    /\ told'[r] = "rolledback" =>
                         r \notin proj'.recs /\ MediaOf(r) \cap files' = {}
                    /\ told'[r] \in {"none", "captured"} =>
                         (r \in captures' <=> told'[r] = "captured")
  <2>1. (\A r \in Recordings :
           (Whole(r) <=> r \in ledger) /\ (Absent(r) <=> r \notin proj.recs))'
    BY ShownBy, PTL
  <2> QED
    BY <2>1 DEF ReportsHold, MediaOf
<1>2. /\ told[r] \in {"committed", "recovered"} => r \in ledger
      /\ told[r] = "failed" => r \notin proj.recs /\ r \in captures
      /\ told[r] = "rolledback" => r \notin proj.recs /\ MediaOf(r) \cap files = {}
      /\ told[r] \in {"none", "captured"} => (r \in captures <=> told[r] = "captured")
  BY ShownBy DEF ReportsHold
<1>3. CASE told'[r] = told[r]
  <2>1. told[r] \in {"committed", "recovered"} => r \in ledger'
    BY <1>2, RecordingsGrow
  <2>2. r = journal.rec =>
          told[r] # "rolledback" /\ ~(told[r] = "failed" /\ journal.stage = "ready")
    BY <1>1 DEF JournalReported
  <2>3. told[r] \in {"failed", "rolledback"} => r \notin proj'.recs
    BY <1>2, <2>2, Additions
  <2>4. told[r] = "rolledback" => MediaOf(r) \cap files' = {}
    BY <1>2, <2>2, Additions DEF MediaOf
  <2>5. told[r] \in {"none", "captured", "failed"} => (r \in captures' <=> r \in captures)
    <3>1. ~StartRecording(a, r)
      BY <1>1, <1>3 DEF StartRecording, Report, TypeOK
    <3> QED
      BY <3>1, CapturesAfter DEF OverReports
  <2> QED
    BY <1>2, <1>3, <2>1, <2>3, <2>4, <2>5
<1>4. CASE told'[r] # told[r]
  <2>1. CASE told'[r] = "captured" /\ StartRecording(a, r)
    BY <2>1 DEF StartRecording
  <2>2. CASE r = ctx[a] /\ told'[r] = "failed" /\ ReportFailed(a)
    <3>1. told[r] = "captured"
      BY <1>1, <2>2 DEF HeldReported, ReportFailed
    <3> QED
      BY <1>2, <2>2, <3>1 DEF ReportFailed
  <2>3. CASE r = ctx[a] /\ told'[r] = "committed" /\ ReportCommitted(a)
    BY <2>3 DEF ReportCommitted
  <2>4. CASE told'[r] = "protected"
    BY <2>4
  <2>5. CASE r = journal.rec /\ told'[r] = "rolledback" /\ ReportUndone(a)
    BY <2>5 DEF ReportUndone
  <2>6. CASE r = journal.rec /\ told'[r] = "recovered" /\ ReportRecovered(a)
    BY <2>6 DEF ReportRecovered
  <2> QED
    BY <1>4, <2>1, <2>2, <2>3, <2>4, <2>5, <2>6, ToldAfter
<1> QED
  BY <1>3, <1>4

\* A bundle that was just created satisfies the whole invariant.
LEMMA InitReports == Init => IInv
<1> SUFFICES ASSUME Init PROVE IInv
  OBVIOUS
<1>1. HeldReported /\ JournalReported
  BY DEF Init, HeldReported, JournalReported, NoJournal
<1>2. ReportsHold
  BY DEF Init, ReportsHold
<1> QED
  BY <1>1, <1>2, InitInv DEF IInv

\* Every step preserves the whole invariant.
LEMMA NextReports == IInv /\ [Next]_vars => IInv'
<1> SUFFICES ASSUME IInv, [Next]_vars PROVE IInv'
  OBVIOUS
<1>1. Consistent'
  BY NextInv DEF IInv
<1>2. CASE UNCHANGED vars
  <2>1. HeldReported' /\ JournalReported' /\ ReportsHold'
    BY <1>2
    DEF IInv, vars, HeldReported, Active, JournalReported, ReportsHold, Whole, Absent
  <2> QED
    BY <1>1, <2>1 DEF IInv
<1>3. ASSUME NEW a \in Apps, Step(a) PROVE IInv'
  BY <1>1, <1>3, HeldStep, JournalReportedStep, ReportsStep DEF IInv
<1> QED
  BY <1>2, <1>3 DEF Next, Step

\* In every reachable state the bundle is consistent, and everything the user
\* was ever told about a recording fits it.
THEOREM Invariance == Spec => []IInv
  BY InitReports, NextReports, PTL DEF Spec

\* What the commit and the recovery reported stays true, whatever other windows,
\* crashes, failing writes and later commits do.
THEOREM ReportsTrue == Spec => []ReportsHold
<1>1. IInv => ReportsHold
  BY DEF IInv
<1> QED
  BY <1>1, Invariance, PTL
=============================================================================
