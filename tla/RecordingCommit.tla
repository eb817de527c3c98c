-------------------------- MODULE RecordingCommit --------------------------
(***************************************************************************)
(* The journaled commit of a finished Studio recording into a song project *)
(* bundle (core/project_recording_commit.py), with the stores it writes    *)
(* (song_project_store.py, song_studio_store.py) and the application that  *)
(* calls it (reference_studio_application.py).                             *)
(*                                                                         *)
(* One recording changes three documents and adds one media file per       *)
(* track.  No file system changes all of them at once, so the code writes  *)
(* a journal first and removes it last; between the two a process may      *)
(* crash, any write may fail before or after it took effect, and another   *)
(* window may save the same project.                                       *)
(*                                                                         *)
(* A document's token is the hash of its bytes, so a token is modelled by  *)
(* the document itself, and "same token" by equality.                      *)
(***************************************************************************)
EXTENDS Naturals, FiniteSets

CONSTANTS
  Apps,        \* WebJam windows (processes) that may open the bundle
  Recordings,  \* finished captures; each is committed under one fresh id
  Tracks,      \* the armed tracks of a recording, one WAV each
  NoRec,       \* "no recording"
  MaxEdits,    \* bound: explicit saves of project or arrangement by users
  MaxFaults,   \* bound: failed file operations
  MaxCrashes   \* bound: processes that die

ASSUME CommitAssumption ==
  /\ NoRec \notin Recordings
  /\ MaxEdits \in Nat
  /\ MaxFaults \in Nat
  /\ MaxCrashes \in Nat

VARIABLES
  proj,      \* saved manifest: user edits so far, recordings it declares
  studio,    \* saved arrangement: user edits so far, recordings it placed
  ledger,    \* recordings with an entry in the evidence ledger
  files,     \* collected media in Media/, as <<recording, track>>
  journal,   \* the recovery journal on disk
  captures,  \* recordings whose temporary capture WAVs still exist
  told,      \* what the commit module last reported about a recording
  ui,        \* what each application is doing with the bundle
  ctx,       \* the recording an application holds the capture of
  snap,      \* the documents (and so the tokens) an application loaded
  pc,        \* where the application's commit or recovery stands
  todo,      \* tracks its current loop over the media has not reached
  clean,     \* "succeeded" of _cleanup_media
  faults, crashes

bundle == <<proj, studio, ledger, files, journal>>
app    == <<ui, ctx, snap>>
loop   == <<todo, clean>>
bounds == <<faults, crashes>>
vars   == <<proj, studio, ledger, files, journal, captures, told,
            ui, ctx, snap, pc, todo, clean, faults, crashes>>
-----------------------------------------------------------------------------
Media        == Recordings \X Tracks
MediaOf(r)   == {r} \X Tracks
Document     == [edits : Nat, recs : SUBSET Recordings]
EmptyDoc     == [edits |-> 0, recs |-> {}]
With(doc, r) == [doc EXCEPT !.recs = @ \cup {r}]

NoJournal == [stage |-> "none", rec |-> NoRec,
              proj |-> EmptyDoc, studio |-> EmptyDoc]

Journal == [stage : {"prepared", "ready"}, rec : Recordings,
            proj : Document, studio : Document] \cup {NoJournal}

\* Mutant: the journal is written without its recording.
JournalOfMutant(a, stage) ==
  [stage |-> stage, rec |-> NoRec, proj |-> snap[a].proj, studio |-> snap[a].studio]

\* The journal carries the expected tokens; a ready one also carries the
\* planned project and document, which are the expected ones with the take.
JournalOf(a, stage) ==
  [stage |-> stage, rec |-> ctx[a], proj |-> snap[a].proj, studio |-> snap[a].studio]
PlannedProject  == With(journal.proj, journal.rec)
PlannedDocument == With(journal.studio, journal.rec)

CommitSteps  == {"prepare", "import", "ready", "project", "studio", "ledger",
                 "clear", "except", "rollback"}
RecoverSteps == {"undo", "rproject", "rstudio", "rledger", "rclear"}
LockedSteps  == CommitSteps \cup RecoverSteps
Steps        == LockedSteps \cup {"idle", "drop", "dropprotected", "rdone"}
Views        == {"closed", "opening", "reloading", "resolving", "open",
                 "recording", "busy", "asking", "pending"}
Reports      == {"none", "captured", "committed", "failed",
                 "protected", "recovered", "rolledback"}

\* Mutant: no commit lock.
LockFreeMutant == TRUE

\* _recording_commit_lock: a thread lock and an flock on the bundle, held for
\* a whole commit or recovery; the operating system frees it when a holder dies.
LockFree == \A a \in Apps : pc[a] \notin LockedSteps

Goto(a, step) == pc' = [pc EXCEPT ![a] = step]
Show(a, view) == ui' = [ui EXCEPT ![a] = view]
Report(r, what) == told' = [told EXCEPT ![r] = what]

\* A file operation that raises.  Whether it took effect is up to the step.
Fault   == /\ faults < MaxFaults
           /\ faults' = faults + 1
           /\ UNCHANGED crashes
NoFault == UNCHANGED bounds
-----------------------------------------------------------------------------
Init ==
  /\ proj = EmptyDoc /\ studio = EmptyDoc
  /\ ledger = {} /\ files = {} /\ journal = NoJournal
  /\ captures = {}
  /\ told = [r \in Recordings |-> "none"]
  /\ ui = [a \in Apps |-> "closed"]
  /\ ctx = [a \in Apps |-> NoRec]
  /\ snap = [a \in Apps |-> [proj |-> EmptyDoc, studio |-> EmptyDoc]]
  /\ pc = [a \in Apps |-> "idle"]
  /\ todo = [a \in Apps |-> {}]
  /\ clean = [a \in Apps |-> TRUE]
  /\ faults = 0 /\ crashes = 0
-----------------------------------------------------------------------------
(* The application: open, edit and save, record, close.                    *)

\* open_project loads both documents before it looks for a journal.
OpenProject(a) ==
  /\ ui[a] = "closed" /\ pc[a] = "idle"
  /\ Show(a, "opening")
  /\ snap' = [snap EXCEPT ![a] = [proj |-> proj, studio |-> studio]]
  /\ UNCHANGED <<bundle, captures, told, ctx, pc, loop, bounds>>

\* inspect_project_recording_recovery waits for the commit lock; with a journal
\* the user resolves it or the project stays closed.  The reload after a commit
\* passes recording_recovery="none" and offers no choice.
InspectNone(a) ==
  /\ ui[a] \in {"opening", "reloading"} /\ LockFree
  /\ journal = NoJournal
  /\ Show(a, "open")
  /\ UNCHANGED <<bundle, captures, told, ctx, snap, pc, loop, bounds>>

InspectResolve(a) ==
  /\ ui[a] = "opening" /\ LockFree
  /\ journal # NoJournal
  /\ Show(a, "resolving")
  /\ UNCHANGED <<bundle, captures, told, ctx, snap, pc, loop, bounds>>

InspectRefuse(a) ==
  /\ ui[a] \in {"opening", "reloading"} /\ LockFree
  /\ journal # NoJournal
  /\ Show(a, "closed")
  /\ UNCHANGED <<bundle, captures, told, ctx, snap, pc, loop, bounds>>

EditBound == proj.edits + studio.edits < MaxEdits

\* Mutant: a project save that does not compare the token it loaded.
SaveProjectMutant(a) ==
  /\ ui[a] = "open" /\ EditBound
  /\ proj' = [snap[a].proj EXCEPT !.edits = @ + 1]
  /\ snap' = [snap EXCEPT ![a].proj = proj']
  /\ UNCHANGED <<studio, ledger, files, journal, captures, told, ui, ctx, pc, loop, bounds>>

\* An explicit save of user edits: compare-and-swap on the loaded token.  It
\* never removes a media entry: a SongProject has no operation that does.
SaveProject(a) ==
  /\ ui[a] = "open" /\ EditBound
  /\ proj = snap[a].proj
  /\ proj' = [proj EXCEPT !.edits = @ + 1]
  /\ snap' = [snap EXCEPT ![a].proj = proj']
  /\ UNCHANGED <<studio, ledger, files, journal, captures, told, ui, ctx, pc, loop, bounds>>

SaveStudio(a) ==
  /\ ui[a] = "open" /\ EditBound
  /\ studio = snap[a].studio
  /\ studio' = [studio EXCEPT !.edits = @ + 1]
  /\ snap' = [snap EXCEPT ![a].studio = studio']
  /\ UNCHANGED <<proj, ledger, files, journal, captures, told, ui, ctx, pc, loop, bounds>>

\* A clean project is not compared with the disk when recording starts, so the
\* tokens kept for the commit may already be stale.
StartRecording(a, r) ==
  /\ ui[a] = "open" /\ told[r] = "none"
  /\ Show(a, "recording")
  /\ ctx' = [ctx EXCEPT ![a] = r]
  /\ captures' = captures \cup {r}
  /\ Report(r, "captured")
  /\ UNCHANGED <<bundle, snap, pc, loop, bounds>>

\* close_project is refused while a recording or its commit is in progress.
CloseProject(a) ==
  /\ ui[a] \in {"open", "pending"} /\ pc[a] = "idle"
  /\ Show(a, "closed")
  /\ ctx' = [ctx EXCEPT ![a] = NoRec]
  /\ UNCHANGED <<bundle, captures, told, snap, pc, loop, bounds>>
-----------------------------------------------------------------------------
(* commit_project_recording, under the commit lock.                        *)

Raised(a, r, what, view) ==
  /\ Goto(a, "idle") /\ Report(r, what) /\ Show(a, view)

\* Stale tokens, a journal, or a take with no usable track raise before anything
\* is written; the application reports it and forgets the recording's context.
StopRefused(a) ==
  /\ ui[a] = "recording" /\ pc[a] = "idle" /\ LockFree
  /\ Raised(a, ctx[a], "failed", "open")
  /\ ctx' = [ctx EXCEPT ![a] = NoRec]
  /\ UNCHANGED <<bundle, captures, snap, loop, bounds>>

\* Mutant: a commit begins over another recording's journal.
StopRecordingMutant(a) ==
  /\ ui[a] = "recording" /\ pc[a] = "idle" /\ LockFree
  /\ snap[a] = [proj |-> proj, studio |-> studio]
  /\ Goto(a, "prepare") /\ Show(a, "busy")
  /\ UNCHANGED <<bundle, captures, told, ctx, snap, loop, bounds>>

StopRecording(a) ==
  /\ ui[a] = "recording" /\ pc[a] = "idle" /\ LockFree
  /\ snap[a] = [proj |-> proj, studio |-> studio]
  /\ journal = NoJournal
  /\ Goto(a, "prepare") /\ Show(a, "busy")
  /\ UNCHANGED <<bundle, captures, told, ctx, snap, loop, bounds>>

\* The first journal write is outside the try block: its failure is a plain
\* error even when the journal reached the disk.
WritePrepared(a) ==
  /\ pc[a] = "prepare"
  /\ journal' = JournalOf(a, "prepared")
  /\ todo' = [todo EXCEPT ![a] = Tracks]
  /\ Goto(a, "import")
  /\ NoFault
  /\ UNCHANGED <<proj, studio, ledger, files, captures, told, app, clean>>

WritePreparedFails(a) ==
  /\ pc[a] = "prepare" /\ Fault
  /\ journal' \in {journal, JournalOf(a, "prepared")}
  /\ Raised(a, ctx[a], "failed", "open")
  /\ ctx' = [ctx EXCEPT ![a] = NoRec]
  /\ UNCHANGED <<proj, studio, ledger, files, captures, snap, loop>>

\* import_project_media links a fully written copy under its final name.
ImportMedia(a) ==
  /\ pc[a] = "import"
  /\ \E t \in todo[a] :
       /\ files' = files \cup {<<ctx[a], t>>}
       /\ todo' = [todo EXCEPT ![a] = @ \ {t}]
  /\ UNCHANGED <<proj, studio, ledger, journal, captures, told, app, pc, clean, bounds>>

\* It fails without a copy, or after the link when removing the copy fails too.
ImportMediaFails(a) ==
  /\ pc[a] = "import" /\ Fault
  /\ \E t \in todo[a] : files' \in {files, files \cup {<<ctx[a], t>>}}
  /\ Goto(a, "except")
  /\ UNCHANGED <<proj, studio, ledger, journal, captures, told, app, loop>>

\* Mutant: the documents are built before every track is collected.
BuildDocumentMutant(a) ==
  /\ pc[a] = "import"
  /\ Goto(a, "ready") \/ Goto(a, "except")
  /\ UNCHANGED <<bundle, captures, told, app, loop, bounds>>

\* Building the planned documents may fail too: the document or the ledger may
\* be at its limit.  No file operation is involved.
BuildDocument(a) ==
  /\ pc[a] = "import" /\ todo[a] = {}
  /\ Goto(a, "ready") \/ Goto(a, "except")
  /\ UNCHANGED <<bundle, captures, told, app, loop, bounds>>

WriteReady(a) ==
  /\ pc[a] = "ready"
  /\ \/ /\ journal' = JournalOf(a, "ready")
        /\ Goto(a, "project") /\ NoFault
     \/ /\ journal' \in {journal, JournalOf(a, "ready")}
        /\ Goto(a, "except") /\ Fault
  /\ UNCHANGED <<proj, studio, ledger, files, captures, told, app, loop>>

\* save_project_bundle and save_song_studio_document: compare-and-swap on the
\* tokens the recording started from.
CommitProject(a) ==
  /\ pc[a] = "project"
  /\ \/ /\ proj = snap[a].proj
        /\ proj' = With(proj, ctx[a])
        /\ Goto(a, "studio") /\ NoFault
     \/ /\ proj = snap[a].proj
        /\ proj' \in {proj, With(proj, ctx[a])}
        /\ Goto(a, "except") /\ Fault
     \/ /\ proj # snap[a].proj
        /\ Goto(a, "except") /\ NoFault /\ UNCHANGED proj
  /\ UNCHANGED <<studio, ledger, files, journal, captures, told, app, loop>>

CommitStudio(a) ==
  /\ pc[a] = "studio"
  /\ \/ /\ studio = snap[a].studio
        /\ studio' = With(studio, ctx[a])
        /\ Goto(a, "ledger") /\ NoFault
     \/ /\ studio = snap[a].studio
        /\ studio' \in {studio, With(studio, ctx[a])}
        /\ Goto(a, "except") /\ Fault
     \/ /\ studio # snap[a].studio
        /\ Goto(a, "except") /\ NoFault /\ UNCHANGED studio
  /\ UNCHANGED <<proj, ledger, files, journal, captures, told, app, loop>>

\* Mutant: a ledger that could not be written is not an error.
CommitLedgerMutant(a) ==
  /\ pc[a] = "ledger"
  /\ \/ ledger' = ledger \cup {ctx[a]} /\ NoFault
     \/ ledger' = ledger /\ Fault
  /\ Goto(a, "clear")
  /\ UNCHANGED <<proj, studio, files, journal, captures, told, app, loop>>

CommitLedger(a) ==
  /\ pc[a] = "ledger"
  /\ \/ /\ ledger' = ledger \cup {ctx[a]}
        /\ Goto(a, "clear") /\ NoFault
     \/ /\ ledger' \in {ledger, ledger \cup {ctx[a]}}
        /\ Goto(a, "except") /\ Fault
  /\ UNCHANGED <<proj, studio, files, journal, captures, told, app, loop>>

ClearJournal(a) ==
  /\ pc[a] = "clear"
  /\ \/ /\ journal' = NoJournal
        /\ Report(ctx[a], "committed")
        /\ Goto(a, "drop") /\ NoFault
     \/ /\ journal' \in {journal, NoJournal}
        /\ Goto(a, "except") /\ Fault /\ UNCHANGED told
  /\ UNCHANGED <<proj, studio, ledger, files, captures, app, loop>>

\* The except block: an unchanged manifest means the copies may be removed.  A
\* changed one, or one that cannot be read, leaves everything to recovery.
CommitExcept(a) ==
  /\ pc[a] = "except"
  /\ \/ /\ proj = snap[a].proj
        /\ Goto(a, "rollback")
        /\ todo' = [todo EXCEPT ![a] = Tracks]
        /\ clean' = [clean EXCEPT ![a] = TRUE]
        /\ NoFault /\ UNCHANGED told
     \/ /\ \/ proj # snap[a].proj /\ NoFault
           \/ proj = snap[a].proj /\ Fault
        /\ Goto(a, "dropprotected")
        /\ Report(ctx[a], "protected")
        /\ UNCHANGED loop
  /\ UNCHANGED <<bundle, captures, app>>

\* One turn of _cleanup_media: only an undeclared copy is removed, and a file
\* that cannot be removed does not stop the loop.
RemoveCopy(a, r) ==
  /\ \E t \in todo[a] :
       /\ todo' = [todo EXCEPT ![a] = @ \ {t}]
       /\ \/ /\ files' = IF r \in proj.recs THEN files ELSE files \ {<<r, t>>}
             /\ clean' = [clean EXCEPT ![a] = @ /\ r \notin proj.recs]
             /\ NoFault
          \/ /\ <<r, t>> \in files /\ r \notin proj.recs
             /\ files' \in {files, files \ {<<r, t>>}}
             /\ clean' = [clean EXCEPT ![a] = FALSE]
             /\ Fault
  /\ UNCHANGED <<proj, studio, ledger, journal, captures, told, app, pc>>

RollBackCopy(a) == pc[a] = "rollback" /\ RemoveCopy(a, ctx[a])

\* Mutant: the journal is removed although a copy could not be.
FinishRollbackMutant(a) ==
  /\ pc[a] = "rollback" /\ todo[a] = {}
  /\ journal' = NoJournal
  /\ Raised(a, ctx[a], "failed", "open")
  /\ ctx' = [ctx EXCEPT ![a] = NoRec]
  /\ UNCHANGED <<proj, studio, ledger, files, captures, snap, loop, bounds>>

\* Rolled back completely: the original error.  Otherwise the journal stays as
\* it is and the caller is told that the recording is protected.
FinishRollback(a) ==
  /\ pc[a] = "rollback" /\ todo[a] = {}
  /\ \/ /\ clean[a]
        /\ journal' = NoJournal
        /\ Raised(a, ctx[a], "failed", "open")
        /\ ctx' = [ctx EXCEPT ![a] = NoRec]
        /\ NoFault
     \/ /\ clean[a] /\ Fault
        /\ journal' \in {journal, NoJournal}
        /\ Goto(a, "dropprotected") /\ Report(ctx[a], "protected")
        /\ UNCHANGED <<ui, ctx>>
     \/ /\ ~clean[a]
        /\ Goto(a, "dropprotected") /\ Report(ctx[a], "protected")
        /\ UNCHANGED <<journal, ui, ctx, bounds>>
  /\ UNCHANGED <<proj, studio, ledger, files, captures, snap, loop>>

\* The worker removes the capture after a commit and, equally, after
\* ProjectRecordingCommitRecoveryRequired; a failed removal is only reported.
\* rmtree that fails part-way leaves something; the model keeps it whole.
DropCapture(a) ==
  /\ pc[a] \in {"drop", "dropprotected"}
  /\ \/ captures' = captures \ {ctx[a]} /\ NoFault
     \/ captures' = captures /\ Fault
  /\ Goto(a, "idle")
  /\ IF pc[a] = "drop"
     THEN /\ Show(a, "reloading")
          /\ ctx' = [ctx EXCEPT ![a] = NoRec]
          /\ snap' = [snap EXCEPT ![a] = [proj |-> proj, studio |-> studio]]
     ELSE /\ Show(a, "asking")
          /\ UNCHANGED <<ctx, snap>>
  /\ UNCHANGED <<bundle, told, loop>>

\* "Resolve it now?"  No: edits stay refused until the project is reopened.
ResolveLater(a) ==
  /\ ui[a] = "asking"
  /\ Show(a, "pending")
  /\ UNCHANGED <<bundle, captures, told, ctx, snap, pc, loop, bounds>>
-----------------------------------------------------------------------------
(* recover_project_recording_commit, under the commit lock.                *)

\* Where a recovery that raised leaves its caller.
Unresolved(a) == IF ctx[a] = NoRec THEN "closed" ELSE "pending"
GiveUp(a)     == Goto(a, "idle") /\ Show(a, Unresolved(a))

Recovering(a) == ui[a] \in {"asking", "resolving"} /\ pc[a] = "idle" /\ LockFree

RecoverNothing(a) ==
  /\ Recovering(a) /\ journal = NoJournal
  /\ GiveUp(a)
  /\ UNCHANGED <<bundle, captures, told, ctx, snap, loop, bounds>>

RecoverPrepared(a) ==
  /\ Recovering(a) /\ journal.stage = "prepared"
  /\ IF proj = journal.proj
     THEN /\ Goto(a, "undo") /\ Show(a, "busy")
          /\ todo' = [todo EXCEPT ![a] = Tracks]
          /\ clean' = [clean EXCEPT ![a] = TRUE]
     ELSE GiveUp(a) /\ UNCHANGED loop
  /\ UNCHANGED <<bundle, captures, told, ctx, snap, bounds>>

UndoCopy(a) == pc[a] = "undo" /\ RemoveCopy(a, journal.rec)

FinishUndo(a) ==
  /\ pc[a] = "undo" /\ todo[a] = {}
  /\ \/ /\ clean[a]
        /\ journal' = NoJournal
        /\ Report(journal.rec, "rolledback")
        /\ Goto(a, "rdone") /\ NoFault /\ UNCHANGED ui
     \/ /\ clean[a] /\ Fault
        /\ journal' \in {journal, NoJournal}
        /\ GiveUp(a) /\ UNCHANGED told
     \/ /\ ~clean[a]
        /\ GiveUp(a)
        /\ UNCHANGED <<journal, told, bounds>>
  /\ UNCHANGED <<proj, studio, ledger, files, captures, ctx, snap, loop>>

\* Mutant: a manifest that already holds the recording is not recognised.
RecoverReadyMutant(a) ==
  /\ Recovering(a) /\ journal.stage = "ready"
  /\ IF proj = journal.proj
     THEN Goto(a, "rproject") /\ Show(a, "busy")
     ELSE GiveUp(a)
  /\ UNCHANGED <<bundle, captures, told, ctx, snap, loop, bounds>>

\* A ready journal goes forward only from the project it was prepared for.
RecoverReady(a) ==
  /\ Recovering(a) /\ journal.stage = "ready"
  /\ \/ /\ proj = PlannedProject
        /\ Goto(a, "rstudio") /\ Show(a, "busy")
     \/ /\ proj # PlannedProject /\ proj = journal.proj
        /\ Goto(a, "rproject") /\ Show(a, "busy")
     \/ /\ proj # PlannedProject /\ proj # journal.proj
        /\ GiveUp(a)
  /\ UNCHANGED <<bundle, captures, told, ctx, snap, loop, bounds>>

\* Mutant: a recovery that does not verify the media.
VerifiedMutant == TRUE

\* verify_project_media reads every file the planned project declares.
Verified == \A r \in PlannedProject.recs : MediaOf(r) \subseteq files

RecoverProject(a) ==
  /\ pc[a] = "rproject"
  /\ \/ /\ Verified /\ proj = journal.proj
        /\ proj' = PlannedProject
        /\ Goto(a, "rstudio") /\ NoFault /\ UNCHANGED ui
     \/ /\ Verified /\ proj = journal.proj /\ Fault
        /\ proj' \in {proj, PlannedProject}
        /\ GiveUp(a)
     \/ /\ ~Verified \/ proj # journal.proj
        /\ GiveUp(a) /\ NoFault /\ UNCHANGED proj
  /\ UNCHANGED <<studio, ledger, files, journal, captures, told, ctx, snap, loop>>

RecoverStudio(a) ==
  /\ pc[a] = "rstudio"
  /\ \/ /\ studio = PlannedDocument
        /\ Goto(a, "rledger") /\ NoFault /\ UNCHANGED <<studio, ui>>
     \/ /\ studio # PlannedDocument /\ studio = journal.studio
        /\ studio' = PlannedDocument
        /\ Goto(a, "rledger") /\ NoFault /\ UNCHANGED ui
     \/ /\ studio # PlannedDocument /\ studio = journal.studio /\ Fault
        /\ studio' \in {studio, PlannedDocument}
        /\ GiveUp(a)
     \/ /\ studio # PlannedDocument /\ studio # journal.studio
        /\ GiveUp(a) /\ NoFault /\ UNCHANGED studio
  /\ UNCHANGED <<proj, ledger, files, journal, captures, told, ctx, snap, loop>>

RecoverLedger(a) ==
  /\ pc[a] = "rledger"
  /\ \/ /\ ledger' = ledger \cup {journal.rec}
        /\ Goto(a, "rclear") /\ NoFault /\ UNCHANGED ui
     \/ /\ ledger' \in {ledger, ledger \cup {journal.rec}}
        /\ GiveUp(a) /\ Fault
  /\ UNCHANGED <<proj, studio, files, journal, captures, told, ctx, snap, loop>>

RecoverClear(a) ==
  /\ pc[a] = "rclear"
  /\ \/ /\ journal' = NoJournal
        /\ Report(journal.rec, "recovered")
        /\ Goto(a, "rdone") /\ NoFault /\ UNCHANGED ui
     \/ /\ journal' \in {journal, NoJournal}
        /\ GiveUp(a) /\ Fault /\ UNCHANGED told
  /\ UNCHANGED <<proj, studio, ledger, files, captures, ctx, snap, loop>>

\* In-app recovery removes the capture the application still remembers, whatever
\* the outcome; then both callers load the project again.
FinishRecovery(a) ==
  /\ pc[a] = "rdone"
  /\ \/ captures' = captures \ {ctx[a]} /\ NoFault
     \/ captures' = captures /\ ctx[a] # NoRec /\ Fault
  /\ Goto(a, "idle")
  /\ Show(a, IF ctx[a] = NoRec THEN "open" ELSE "reloading")
  /\ ctx' = [ctx EXCEPT ![a] = NoRec]
  /\ snap' = [snap EXCEPT ![a] = [proj |-> proj, studio |-> studio]]
  /\ UNCHANGED <<bundle, told, loop>>
-----------------------------------------------------------------------------
\* A process dies: its lock is freed, its memory and context are gone, the
\* bundle and the capture directory stay as the last finished step left them.
Crash(a) ==
  /\ crashes < MaxCrashes
  /\ crashes' = crashes + 1
  /\ ui[a] # "closed"
  /\ Goto(a, "idle") /\ Show(a, "closed")
  /\ ctx' = [ctx EXCEPT ![a] = NoRec]
  /\ UNCHANGED <<bundle, captures, told, snap, loop, faults>>

UserStep(a) ==
  \/ OpenProject(a) \/ InspectRefuse(a) \/ CloseProject(a)
  \/ SaveProject(a) \/ SaveStudio(a)
  \/ \E r \in Recordings : StartRecording(a, r)
  \/ ResolveLater(a)

CommitStep(a) ==
  \/ StopRefused(a) \/ StopRecording(a)
  \/ WritePrepared(a) \/ WritePreparedFails(a)
  \/ ImportMedia(a) \/ ImportMediaFails(a) \/ BuildDocument(a) \/ WriteReady(a)
  \/ CommitProject(a) \/ CommitStudio(a) \/ CommitLedger(a) \/ ClearJournal(a)
  \/ CommitExcept(a) \/ RollBackCopy(a) \/ FinishRollback(a) \/ DropCapture(a)

RecoverStep(a) ==
  \/ InspectNone(a) \/ InspectResolve(a)
  \/ RecoverNothing(a) \/ RecoverPrepared(a) \/ UndoCopy(a) \/ FinishUndo(a)
  \/ RecoverReady(a) \/ RecoverProject(a) \/ RecoverStudio(a)
  \/ RecoverLedger(a) \/ RecoverClear(a) \/ FinishRecovery(a)

Next == \E a \in Apps : UserStep(a) \/ CommitStep(a) \/ RecoverStep(a) \/ Crash(a)

Spec == Init /\ [][Next]_vars
\* Fair processes: a commit or recovery that can take a step eventually does,
\* a closed project is eventually opened again, and a user who is asked to
\* resolve a pending recording does not refuse for ever.
FairSpec ==
  /\ Spec
  /\ \A a \in Apps :
       /\ WF_vars(OpenProject(a))
       /\ WF_vars(CommitStep(a))
       /\ WF_vars(RecoverStep(a))
       /\ WF_vars(ui[a] = "pending" /\ CloseProject(a))
       /\ SF_vars(InspectResolve(a))
-----------------------------------------------------------------------------
Whole(r)  == /\ r \in proj.recs \cap studio.recs \cap ledger
             /\ MediaOf(r) \subseteq files
Absent(r) == r \notin proj.recs \cup studio.recs \cup ledger

TypeOK ==
  /\ proj \in Document /\ studio \in Document
  /\ ledger \subseteq Recordings /\ files \subseteq Media
  /\ journal \in Journal
  /\ captures \subseteq Recordings
  /\ told \in [Recordings -> Reports]
  /\ ui \in [Apps -> Views]
  /\ ctx \in [Apps -> Recordings \cup {NoRec}]
  /\ snap \in [Apps -> [proj : Document, studio : Document]]
  /\ pc \in [Apps -> Steps]
  /\ todo \in [Apps -> SUBSET Tracks]
  /\ clean \in [Apps -> BOOLEAN]
  /\ faults \in 0 .. MaxFaults /\ crashes \in 0 .. MaxCrashes

\* Every recording the saved manifest declares has all its media files: no
\* rollback, crash or interrupted cleanup may take them away.
MediaBacked == \A r \in proj.recs : MediaOf(r) \subseteq files

\* A collected copy that no manifest declares is always named by the recovery
\* journal, so that a crash never leaves audio nobody will ever clean up.
OrphansJournaled == \A m \in files : m[1] \in proj.recs \/ m[1] = journal.rec

\* A recording that some of the three documents show and others do not is the
\* one a ready journal can complete; an entry is placed after the manifest
\* declares it and recorded in the ledger after it is placed.
PartialTakeJournaled ==
  /\ ledger \subseteq studio.recs /\ studio.recs \subseteq proj.recs
  /\ \A r \in proj.recs : r \in ledger \/ (journal.rec = r /\ journal.stage = "ready")

\* What the commit module reported stays true whatever other windows, crashes
\* and later commits do: "committed" and "recovered" mean the whole take, an
\* error means no document shows it and its capture is kept, "rolled back"
\* means nothing of it is left in the bundle.
ReportsHold == \A r \in Recordings :
  /\ told[r] \in {"committed", "recovered"} => Whole(r)
  /\ told[r] = "failed" => Absent(r) /\ r \in captures
  /\ told[r] = "rolledback" => Absent(r) /\ MediaOf(r) \cap files = {}
  /\ told[r] \in {"none", "captured"} => (r \in captures <=> told[r] = "captured")

\* No save, commit or recovery ever drops an edit another window saved, a
\* recording already declared or placed, or a ledger entry.
NoLostUpdate ==
  [][/\ proj'.edits >= proj.edits /\ proj.recs \subseteq proj'.recs
     /\ studio'.edits >= studio.edits /\ studio.recs \subseteq studio'.recs
     /\ ledger \subseteq ledger']_vars

\* Without failing file operations and foreign edits, every journal is cleared
\* in the end, however many times processes die on the way.
JournalResolves == journal # NoJournal ~> journal = NoJournal

\* "The recording is protected": its audio exists somewhere until recovery has
\* resolved it.  (What the message promises; the code breaks it.)
ProtectedKept == \A r \in Recordings :
  told[r] = "protected" => r \in captures \/ MediaOf(r) \subseteq files

\* can_resume of inspect_project_recording_recovery.
CanResume == journal.stage = "ready" /\ (proj = journal.proj \/ proj = PlannedProject)

\* "A Studio recording commit can be resumed": the media the planned project
\* needs is there.  (What the notice says; the code breaks it.)
ResumeNoticeTrue == LockFree /\ CanResume => Verified
-----------------------------------------------------------------------------
(* The commit implements one atomic transaction per recording.             *)
Shown     == proj.recs \cup studio.recs \cup ledger
Committed == {r \in proj.recs \cap studio.recs \cap ledger : r # journal.rec}

Transaction == INSTANCE TakeTransaction
  WITH visible <- Shown, committed <- Committed, inflight <- journal.rec

\* The abstract transaction: a recording becomes visible only inside its
\* transaction, which ends by committing all of it or, if none of it is
\* visible, by aborting; two transactions never overlap.
AtomicTake == Transaction!Spec
=============================================================================
