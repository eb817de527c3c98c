# WebJam in TLA+

This directory holds the formal model of WebJam: TLA+ modules for the parts of the
program whose correctness depends on the order of events, TLC configurations that
check them on small instances, and TLAPS proofs of the properties that matter most.
Every definition follows the code; `PROJECT.json` ("map") names the lines.

## The system

WebJam is a Python/Qt desktop application for making music and art together. It
starts and supervises Jamulus, records takes, keeps song projects, and connects rooms
directly, through a Go sidecar, or through a small relay.

| component | code | state it keeps | operations | what makes it hard, and what must hold |
|---|---|---|---|---|
| Studio recording commit | `core/project_recording_commit.py`, `webjam_qt/controllers/reference_studio_application.py` | recovery journal, evidence ledger, temporary captures, loaded tokens | commit, rollback, inspect, recover | crash or failing write between any two of about ten file operations, other windows; a take is committed whole or not at all, audio is never lost, the journal is resolved |
| Song project store | `core/song_project_store.py`, `core/song_project_controller.py` | manifest, backup, autosave, `Media/` | load, compare-and-swap save, autosave, import, verify | concurrent windows, crash in a save; no lost update, no declared file missing |
| Song Studio store | `core/song_studio_store.py`, `core/song_studio_controller.py` | arrangement document, autosave, undo | load, compare-and-swap save, reconcile | the same, and agreement with the manifest |
| Replay window | `reference_service/webjam_reference/protocol.py` | highest sequence, bit mask | accept | reordering and duplicates at the edges of the window; nothing twice, nothing fresh refused |
| Session registry | `reference_service/webjam_reference/state.py` | sessions, tombstones, byte and host counters | register, enroll, publish, poll, close, datagrams, cleanup | interleaved clients, expiry, limits; exact accounting, no early reuse of an id, no shared credential |
| Reference service front end | `reference_service/webjam_reference/server.py`, `control_listener.py`, `host_admission.py` | connections, rate windows, admission policy | accept, dispatch, shut down | overload, shutdown during requests |
| Transport sidecar | `transport/internal/...` (Go) | control client, room membership, datagram queues, IPC | connect, bootstrap, forward, close | retries over a lossy channel, goroutine races at close |
| Relay mailbox | `deploy/relay/cloudflare-worker/src`, `core/signaling_mailbox.py` | write-once slots, alarm, waiters, quotas | put, get, delete, wait, poll | retried and late requests, expiry against a late answer |
| Managed component store | `core/component_store.py`, `component_lock.py`, `services/jamulus_component_update.py` | staging areas, installed versions, current/previous/ready pointers | stage, commit, activate, roll back, prune | crash between publication and pointer update, several processes; a pointer always names a whole version |
| Take recording | `webjam_qt/controllers/recording_coordinator.py`, control state of `core/session_transfer.py`, capture side of `core/session_transfer_runtime.py` | phase, active take, arm, what the guests are told, open captures | record, arm, start, observe, stop, validate; poll, open, acknowledge, keep, discard | late RPC answers against notifications, slow guests, failing writes; a take's audio is kept, it is validated once, the Record button comes back |
| Take finalization | validation in `webjam_qt/controllers/recording_coordinator.py`, `HostPeerSession` of `core/session_transfer_runtime.py`, `core/take_project.py`, the end of a jam in `webjam_qt/controllers/audio_coordinator.py` | manifest and media of each take, what guests owe, registered takes, lifecycle of the peer session, pending refreshes | validate, reconcile, note, show, refresh, stop | three threads write one manifest, originals arrive minutes later, a stop meets a pass; nothing attached is lost, what is shown is true, nothing comes after the end |
| Take transfer | `TransferStore` of `core/session_transfer.py`, upload queue of `core/session_transfer_runtime.py` | partial and published segments, durable queue | queue, status, append, resume, verify | lost and late requests, torn appends, restarts; a segment is published whole, once, and delivered |
| Room state followers | `core/reference_video.py`, `shared_canvas.py`, `room_clock.py` | host facts and their followers' projections | publish, observe, resolve | stale and reordered updates |
| Session lifecycle, library, notes | `core/session_lifecycle.py`, `session_library.py`, `notes_recovery.py`, `storage/repository.py` | phase, sessions, drafts | transition, checkpoint, restore | compare-then-write by two processes |
| Secure transport | `core/secure_media_plane.py`, `services/transport_runtime.py`, ... | keys, child process, invitations | connect, supervise, retire | restarts, late answers of a dead child |
| Pocket Stage | `core/pocket_stage.py`, `services/pocket_stage_gateway.py` | commands and receipts | submit, acknowledge | duplicate and late commands |
| Jamulus bridge | `services/bridge_service.py`, `core/jamulus_adaptive_latency.py` | child processes, buffer settings | start, tune, stop | process and socket handling |
| Studio editing and export, Qt windows, web join, legacy | the rest | documents, widgets | | numeric, format and presentation work |

How they interact. The application calls the commit module on a worker thread and takes
its result back through a queued signal; all windows and processes that open a bundle
meet only in the files of the bundle and two advisory locks (store lock per save,
commit lock per commit or recovery). The rendezvous service is one event loop: its
handlers run to their end, and clients meet in the registry's dictionaries. The
sidecar talks to the application over IPC and to the service over control requests and
UDP. A take is made by four parties that share nothing: the host's coordinator, the
band server's recorder behind an RPC, and the guests, who poll the host's control state
over HTTP, keep their own originals and upload them afterwards. `PROJECT.json` lists
the hazards of these interactions at their lines.

## Modules

* `TakeTransaction` is the abstract specification of the commit: one recording at a
  time is in flight; what the documents show of it can only grow while it is; it ends
  committed, or aborted with nothing shown.
* `RecordingCommit` is the commit of a finished Studio recording as the code does it,
  together with the saves of the two stores and with the application that calls it.
* `RecordingCommitInv` states the inductive invariant. `RecordingCommitEffects` and
  `RecordingCommitProofs` prove it and its consequences. `MCRecordingCommit` adds the
  symmetry for TLC.
* `ReplayWindow` has the operators of the replay window, `ReplayFilter` the machine
  around one window with the history of what it accepted, `ReplayFilterProofs` the
  proofs about it for every width.
* `SessionRegistry` is the registry of the rendezvous service, over `ReplayWindow`;
  `MCSessionRegistry` adds the symmetry, `SessionRegistryProofs` has the proofs.
  `FoldLemmas` says what the sums and the selections of elements that the registry
  is built from compute.
* `TakeRecording` composes one jam's recording: the coordinator and the recorder, over
  `GuestCapture` (what a guest makes of a state it has read) and `CaptureControl` (the
  control state the host publishes). `TakeRecordingProofs` has the lemmas about the
  guests' operators and the proofs.
* `SegmentDelivery` is the abstract specification of the upload of a guest's originals:
  what may be uploaded is published at most once, and believed delivered only then.
* `TakeTransfer` is the upload as the code does it, `TakeTransferProofs` the proofs.
* `TakeManifest` says what one take's manifest holds and how each of its writers makes
  the next one. `TakeFinalization` is the host after a take: the validation worker, the
  peer session with its maintenance thread, the UI thread that shows the outcome, and
  the end of the jam. `TakeFinalizationInv` states the inductive invariant,
  `TakeFinalizationProofs` proves it and its consequences.

A definition that ends in `Mutant` is a plausible mistake in the definition after it.
No specification uses one; putting it in the place of the definition must make TLC
find a violation, which shows that the property depends on that piece of code.

### RecordingCommit and the code

| variables | in the code |
|---|---|
| `proj`, `studio`, `ledger`, `files`, `journal` | the manifest, the arrangement, the evidence ledger, `Media/` and the recovery journal in the bundle directory; durable |
| `captures` | the recorder's temporary directories; durable |
| `ui`, `ctx`, `snap` | what a window is doing, the `_recording_*` fields of the application, the documents and tokens of its controllers; lost in a crash |
| `pc`, `todo`, `clean` | where the worker stands in `_commit_project_recording_locked` or `_recover_project_recording_commit_locked`, what its current loop over the media has not reached, and `succeeded` of `_cleanup_media` |
| `told` | the result or exception the commit module last gave for a recording; history |
| `faults`, `crashes` | bounds of the model |

A document is the number of user edits in it and the set of recordings it has; its
token, the SHA-256 of its bytes, is the document itself. One action stands for one
step between two durable effects: `WritePrepared`, one `ImportMedia` per track,
`BuildDocument`, `WriteReady`, `CommitProject`, `CommitStudio`, `CommitLedger`,
`ClearJournal`; `CommitExcept`, `RollBackCopy` and `FinishRollback` are the except
block; `RecoverPrepared`, `UndoCopy`, `FinishUndo` and `RecoverReady`,
`RecoverProject`, `RecoverStudio`, `RecoverLedger`, `RecoverClear` are recovery. A
step that writes has a failing variant (`Fault`) that may or may not have taken
effect, since an atomic replace can succeed and the directory fsync after it fail. A
`Crash` can come between any two steps; the operating system frees the lock and
everything in memory is gone. Saves of other windows (`SaveProject`, `SaveStudio`)
are compare-and-swap and do not take the commit lock, as in the code.

Left out: what the evidence and the regions contain, latency compensation, autosave
and backup generations of the stores (a restored autosave is a foreign edit to the
commit), Save As, and damage to files by other programs.

### SessionRegistry and the code

`session`, `order`, `tombstones`, `signalBytes` and `hostCount` are the registry's
attributes; `now` is the monotonic clock; `closed` says that `close` ran; `gone` is
history for one property. Every method that changes state is one action, because the
service calls it from one event loop and it does not await. A request that is refused
before anything changed is no action; one that is refused after it changed something
is: a replay window advances although the queue is full (`PublishSignal`), although
the guest may not close (`CloseSession`), although the address is wrong (`Bind`,
`Relay`). Registration cleans up first, as the code does. Token buckets and counters
of the diagnostics are left out; sealed payloads are their lengths.

### TakeRecording and the code

| variables | in the code |
|---|---|
| `co`, `readiness`, `waits`, `workers`, `replies`, `validating` | the fields of `RecordingCoordinator` and its worker threads: readiness, the wait for the guests, recorder RPC, validation, and callbacks queued for the UI thread |
| `recording`, `wire`, `notices` | the band server: whether it records, RPC requests it may still execute, `recorderState` notifications on their way |
| `ctl`, `acks` | `SessionControlState`, and acknowledgements under way |
| `guest` | the capture fields of one `GuestPeerSession` per guest |
| `faults`, `story` | the kinds of fault that have happened; history |

A handler of the coordinator runs to its end on the UI thread, so each is one action;
whatever a worker thread, the recorder or a guest does comes between. The RPC worker
is four actions (send, confirm, give up, find its binding gone), because the recorder
may execute a request whose worker has given up. Notifications come over the Jamulus
client's own connection, so they may lag what the RPC already told. A publication
(`Publish`) is refused, written, or not written; `...Unwritten` says what a failing
write leaves in memory.

A guest's poll reads and applies a state in one step (`GuestPolls`), or, as a fault,
reads it and applies it late (`GuestReads`, `GuestApplies`): the answer was slow. What
applying does is an operator from a record to a set of records, since a device may not
open and a capture may not be finalized. `kept` joins captures queued for upload and
those set aside for recovery.

Validation is one action here, of a worker that posts its result; `TakeFinalization`
takes it apart and has the worker that does not. Left out: the
shutdown path of the coordinator, reading the control state back after
a restart (a session's control state never outlives its process), republishing after a
peer's reconciliation, the evidence journal, the shared track, the host's local
capture, and guests or hosts without arms. The wait for the guests is the set of arms
waited for, since its result is looked at again on the UI thread; there is one
readiness worker, since results of older generations change nothing.

Two remarks on what the model shows and no property states. If somebody else starts
the recorder while guests are being armed, the coordinator adopts it for the new take,
its publication of the start is refused, and the result of the wait cancels the arm:
guests discard their audio of a take that is shown as recording (a foreign start is
not a start of the take, which is what `RecordedKept` is about). And a guest that
misses the stop of a take and is not required by the next one goes on capturing.

### TakeTransfer and the code

| variables | in the code |
|---|---|
| `part`, `final`, `described` | the `.wav.part`, `.wav` and sidecar files of each segment in the `TransferStore` |
| `queue`, `saved`, `files` | `_pending` of the guest, the queue file, the source files |
| `client` | where the poll thread is in `_upload_pending` and `upload_file`, the request it waits for and its answer |
| `late` | requests the client gave up on and the host may still serve |
| `made`, `released`, `faults` | history; bound of the model |

The bytes of a segment are their positions in the source, so that a lost, doubled or
misplaced chunk is visible, and equality with `Source` is what the digest compares. A
request is one step, because the store serves it under its lock; `Torn` are the states
that an exception, or the death of the process, in the middle of it can leave: any
part of the chunk, and for the last chunk the published file. Giving up leaves the
request, a restart reads the queue back. One guest is enough: guests share nothing in
the store.

Left out: quotas and authentication, a source file that changes while it is uploaded. The queue is
saved after each pass, also when nothing changed (the code writes only then what it
had); a removed file does not come back. A host that dies and opens the same store
again is what the store's contract and tests are about; the application makes a new
store for each session. A guest that dies after a capture is finalized and before the
queue is saved leaves the audio in place, but nothing uploads it: the queue of the
model starts with what `_finalize_capture` has done as a whole.

### TakeFinalization and the code

| variables | in the code |
|---|---|
| `co`, `stop` | phase, active and last take of `RecordingCoordinator`, its marker of the first inventory and its pending reconciliations; the jam as `AudioCoordinator` sees it and the thread that ends it |
| `ui` | callbacks queued with `_ui_invoker`, in their order |
| `worker` | where `_validate_take_worker` stands and the result it carries |
| `peer`, `loop` | `HostPeerSession`: lifecycle generation, registered takes, frozen obligations, expected guests and readiness issue per take; its maintenance thread |
| `pass` | a `reconcile_take` under way, one by each of the two threads: what it read, what it has still to copy |
| `store`, `manifest`, `media` | the inventory of `TransferStore`, `webjam-take.json` and `transferred-isolated/` of each take; durable |
| `untold` | history: takes whose manifest was changed, or could not be read to be shown, by a step that raised, and of which no step has told since |
| `faults` | bound of the model |

An action is what a thread does between two points at which another can interfere: a
pass takes the lock of its take and reads (`PassLocks`), copies one original
(`PassAttaches`), publishes by compare and swap (`PassPublishes`) and tells the
application under a lease (`PassTells`); it looks whether its lifecycle is still the
current one wherever the code does. The three reads of a pass are one step: what a
take's guests owed when it was recorded is frozen, and the inventory only grows. The
worker does not hold the lock when it writes its note of a failure (`WorkerNotes`,
`WorkerReplaces`), which is why every writer compares and swaps. A manifest is reduced
to its revision, whether the validation and whether the originals left an error, the
originals it lists and how far each is aligned; the revision grows with every write,
so that equal revisions mean equal bytes. A guest has one original, which stands for
all that it declares. The wait for the inventory ends with or without it and its
result is not used, so it is part of `WorkerRegisters`.

A fault is a failing file operation, a validation with errors or without a manifest, a
damaged original, a guest that changes its plan, a server or a later service that does
not stop. A stopping thread that does not find the maintenance gone gives up
(`StopGivesUp`) and the user can end the jam again, as in the code.

What a failure does depends on where it is caught:

* Replacing a manifest syncs the folder after the rename (`core/file_io.py:115`), so it
  may raise after it took effect. `PassPublishes` then takes no lease and tells nobody,
  and since nothing has changed for the next pass, none follows by itself; the take is
  in `untold` until a step tells of it again. A manifest that cannot be read when it is
  to be shown (`WorkerLoads`, `ShowValidation`, `ShowRefresh`) has the same result.
* `_build_take_validation` may raise after the folder of the take was found
  (`WorkerValidates` with the manifest unchanged and `found`): the take is loaded
  without a final manifest, shown as needing attention and registered, but no pass
  attaches anything to it, because `_reconcile_take_once` wants the manifest.
* `_publish_take_attention` replaces the manifest outside any `try`, and so do the loads
  of the worker that end in a folder that cannot be read: the thread dies (`Lost`) and
  its result is never posted.

Left out: gaps in an original and their place, quotas and damage to files that were
verified, evidence of late recovery, a callback that stops the session from within (the
application's only queues a UI call), the publication of an interrupted take at
shutdown, and services whose stop fails before the peer session's turn comes.

Remarks on what the model shows:

* A guest whose plan changes after a take was recorded, but before its last outcome is
  told, marks the take as needing attention for good: nothing clears the readiness issue.
* A refresh for an earlier take that reaches the UI thread while the next is recorded
  is dropped: the manifest is right, what the library says of the earlier take stays as
  it was.
* A publication that raised late leaves a take on the screen as it was before. It is
  put right only by a later change of the manifest, not by looking again.
* A take whose validation failed after its folder was found never gets the originals
  that its guests uploaded; they stay in the store.
* A validation whose worker dies leaves the phase at finalizing, although the docstring
  of `_validate_take_worker` says that it never leaves the recorder UI stuck: the lease
  of the validation (`recording_coordinator.py:854`) is not given back, so no later stop
  starts another, and while it is finalizing no take can be recorded and the jam cannot
  be ended (`audio_coordinator.py:329`). `Concludes` excepts this case by name, and
  TLC finds it as a counterexample when the exception is taken out.

## Runs

| run | checks | instance |
|---|---|---|
| `recording_commit` | type, inductive invariant, `MediaBacked`, `OrphansJournaled`, `PartialTakeJournaled`, `ReportsHold`, `NoLostUpdate`, `AtomicTake` | 2 windows, 2 recordings, 2 tracks, 1 user edit, 2 failing operations, 1 crash; about 1.03 million states |
| `recording_commit_live` | `JournalResolves` | 2 windows, 2 recordings, 2 tracks, 2 crashes, no edits, no failing operations |
| `protected_kept` | `ProtectedKept`, violated | 1 window, 1 recording, 2 tracks |
| `resume_notice` | `ResumeNoticeTrue`, violated | 1 window, 1 recording, 2 tracks |
| `replay_filter` | type, `Remembers`, `Exact` | width 3, sequences 0 to 8 |
| `session_registry` | type, `OneDoor`, `Accounting`, `NoEarlyReuse` | 3 ids, 4 credentials, 2 hosts, 2 sessions, 2 tombstones, payloads of 1 and 2, 3 bytes in all |
| `session_traffic` | `UsedInTime` | 1 id, 2 addresses, 2 sequences per plane, lifetimes 1 to 3, idle 2 |
| `take_recording` | type, inductive invariant, `KeptWhileWritable`, `AckedCaptures`, `ValidatedOnce`, `BusyOwned`, `HistoryAdvances` | 1 guest, 2 takes, 1 message under way between them, faults of one of 4 kinds, any number of them; about 3.5 million states |
| `take_discard` | `RecordedKept`, violated | 1 guest, 1 take, a lost RPC answer and a failing write |
| `take_transfer` | type, inductive invariant, `PartsBegin`, `AckedKept`, `VerifiedPublished`, `DeliversOnce`, `Settles` | 2 segments of 5 bytes, chunks of 2, 3 failures; about 46 thousand states |
| `take_finalization` | type, inductive invariant, `CompleteTold`, `ShownTrue`, `EndedQuiet`, `TracksBacked`, `NothingDetached`, `Arrives`, `Concludes` | 1 guest, 1 take, 1 session, 2 faults; about 240 thousand states |
| `transfer_recovers` | `Recovers`, violated | 1 segment of 3 bytes, 1 failure |

Why the bounds are enough. Two windows, because every interference is between one
committer and one other; two recordings, so that one can be complete while the next is
in flight, or be refused over its journal; two tracks, so that a loop over the media can
stop in the middle; one edit is a stale token, two faults let the rollback of a failed
commit fail too, and one crash on top of them leaves any intermediate state to a
recovery that can itself fail. `NoLostUpdate` counts the edits of a document, so with
one edit it sees a commit that loses a save, not a save that loses another one: for that
the stale save must be two edits behind. The theorems below remove these bounds for the
safety properties. For the registry, three ids over two tombstones make eviction happen,
two hosts and a byte limit smaller than what two sessions may hold make every admission
check bind, and four credentials let one be offered for every role of two sessions. The
clock runs past every deadline. A width of 3 with nine sequences has jumps below, at and
beyond the width.

A recording goes wrong when something of one take meets the next: hence two takes, with
a callback, request, notification, acknowledgement or answer of the first still under
way when the second starts. Guests do not interact except through the host's set of
acknowledgements, which the theorems cover for any number. A behaviour has faults of one
kind, each as often as it pleases: any number of calls time out and of notices are lost,
but not together with a write that fails. What several kinds can do together is proved
for the safety properties, and the finding needs two. A transfer has three chunks, the
last one short, so that a late request can repeat or overtake any piece, and two
segments, so that one can wait for the other; three failures are a lost request, a torn
append and a restart.

A take is finalized by a worker, a maintenance thread, the UI and a stop; one take, one
guest and one session already give all their interleavings, and two faults let the note
of a failed inventory meet a failing pass. With a second take or a second session the
state space grows to millions; the theorems cover them for the safety properties.

Deadlock is not checked where the system may stop: a jam of `take_finalization` that
has ended, with no session or take left, and the two registry runs, where a closed
registry does not act any more and the clock of the model is bounded.

### Liveness and fairness

`JournalResolves` says that a journal is eventually removed. `FairSpec` assumes that a
process that is inside a commit or a recovery goes on (the worker thread is
scheduled), that a closed project is eventually opened again and a project with a
pending recording eventually closed, and that a user who is asked time and again to
resolve a pending recording does not refuse for ever (strong fairness, because another
window can make the question go away in between). Nothing forces a user to save,
record or stop. It is checked without failing operations and without foreign edits:
with them it is false, because recovery refuses a project that is neither the expected
nor the planned one, and because of the second finding below.

`Settles` says that a pending segment is eventually delivered or found missing.
`FairSpec` of `TakeTransfer` assumes that the poll thread runs, which it does until the
session stops, and that the host answers a request; failures are bounded, so this is a
claim about what happens after the last one. It excepts a segment whose last byte was
written and not published, and those behind it, because of the last finding below.

`Arrives` says that an original that is complete at the host is attached to its
registered take, if that has a manifest, unless the session stops; `Concludes` that a
take is not validated for ever, unless its validation raised where nothing catches it,
and that ending a jam has a result. `FairSpec` of `TakeFinalization` assumes that
the UI thread, the worker, the maintenance, the stopping thread and a pass that holds
its lock run, each with weak fairness. Entering the lock of a take is strongly fair:
the maintenance leaves it free between two ticks, three quarters of a second each, in
which a waiting worker gets it. Nothing forces the user to stop a recording or to end
the jam, and no guest has to upload.

`BusyOwned` is the safety form of "the Record button comes back": a phase in which it
is ignored has a worker or callback under way that ends the phase. Workers have
timeouts and callbacks are queued, so each of these ends; the state space of
`take_recording` is too large to check that as liveness.

### Findings

* `protected_kept`: after `ProjectRecordingCommitRecoveryRequired` the worker deletes
  the capture, although the exception says that the recording is protected and is also
  raised when nothing, or not everything, was collected. The audio can be lost.
* `resume_notice`: a rollback of a commit that failed after writing the ready journal
  removes the copies before the journal. Interrupted in between, it leaves a journal
  that is reported as resumable, whose media are gone; recovery always fails and
  the bundle accepts no recording again.
* `take_discard`: only audio from before the start is said to be discarded. If the
  answer of the start is lost and the state file cannot be written when the stop is
  published, retiring the take cancels an arm whose take was recorded in full, and the
  guests discard it.
* `transfer_recovers`: an append that writes the last byte and then fails to publish
  leaves a complete partial file. Every status says that all bytes are there and
  nothing is left to send, so no retry publishes it, and the segments behind it wait.

## Proofs

The proofs hold for every finite or infinite set of windows, recordings and tracks and
every bound, of guests, takes, sessions, late messages and faults, of segments, sizes
and chunks. They assume `CommitAssumption` (the "no recording" value is not a recording,
the bounds are natural numbers), `WindowAssumption`, `SequenceAssumption` (the width is
positive, the greatest sequence a natural number), `RecordingAssumption` (finitely many
guests, bounds that are natural numbers, faults of the four kinds), `RegistryAssumption`
(limits and lifetimes are positive, sizes and sequences natural numbers, "none" is no
credential and no address), `TransferAssumption` (sizes and chunks are positive) and
`FinalizationAssumption` (the bounds are natural numbers), which TLC evaluates in the
runs.

### The commit

The safety properties are not inductive: that a save adds a recording whose media are
all there follows from what the commit did several steps before. `IInv` says, for
every value of `pc`, what has been done by then: the journal is the holder's own and
in the right stage; tracks not in `todo` are collected (or, during a rollback that is
still clean, removed); the documents show the recording as far as the step before. It
adds that the lock has one holder, that a window inside a transaction does nothing
else, that what a window loaded and what a journal expects is a past of the documents
(recordings are never removed, which is why a save from an old snapshot that passes
the compare-and-swap cannot lose one), and that a recording nobody tried to commit has
left no trace. This much is `Consistent`.

What the user was told needs more (`ReportsHold`): an error promises that the capture is
kept, and the application that goes on to remove a capture knows only the recording it
remembers. `HeldReported` ties the two: what an application remembers has only been
captured while it records or commits it, and its transaction is over, and was reported
so, when it comes to remove the capture. `JournalReported` says the same from the other
side: a journal that can still be carried forward or undone is not about a recording
that was called committed, recovered or rolled back, and a ready one is not about one
that was called failed, so that no late recovery makes an earlier report untrue. `IInv`
is all three with `ReportsHold`; TLC checks it in `recording_commit`.

The proof that it is preserved goes through effects. `RecordingCommitEffects` proves
that steps preserve the type invariant, which actions can touch each variable, and that
under `Consistent` every step changes the bundle in one of a few ways: begin, make
ready, declare, place, enter, end or drop a take, add or take a copy, or nothing.
`RecordingCommitProofs` then proves each part of `Consistent` from the effects
(`Consistency`), and the reports from `Consistent` and the five ways a transaction can
report its end (`Invariance`). The results:

* `TypeCorrect`, `Exclusive`, `MediaSafe`, `OrphansSafe`, `PartialSafe`: `TypeOK`,
  mutual exclusion, `MediaBacked`, `OrphansJournaled`, `PartialTakeJournaled`;
* `ReportsTrue`: `ReportsHold`;
* `NothingLost`: the action property `NoLostUpdate`;
* `Atomic`: `Spec => AtomicTake`, the commit implements `TakeTransaction`. A recording
  is visible when any document shows it, in flight while the journal names it,
  committed when all three documents have it and the journal does not name it.

### The replay window

`TypeCorrect`, `Memory`, `ExactlyOnce` (`ReplayFilterProofs`): the type invariant,
`Remembers` and `Exact`, for every width and range. `Remembers` is what makes `Exact`
inductive.

### The session registry

The counters that the admission checks read are right when they are the sums over all
sessions, so the proof needs to know what a sum over a set or a sequence is when an
element is added, taken away or changed. The folds of the community
modules are choices of recursive functions; `FoldLemmas` proves what they compute for
every input. The library's induction theorems cannot be used (they take an operator),
but their common ground can: a set of natural numbers that is not empty has a least
member. From it follow induction over the members of a set, with numbers or finite
subsets in the role of the members, the existence of the function a fold chooses, and
its equations.

`TypeOK`, `OneDoor` and `Accounting` together are inductive: a removal subtracts exactly
the bytes its session has because the session's own counter is the sum of its queues.
`NoEarlyReuse` rests on `Remembered`: the tombstone of a removed id that may not come
back is in the list, as far from its end as there were removals after it, so that the
trimming to `MaxTombstones` cannot have reached it; the cleanup drops tombstones from
the front and stops at the first that has not expired. `UsedInTime` rests on `Aged`: no
session is expired in the instant that it is registered, so that an id that a
registration finds expired and gives out again is seen to be another session. `IInv` is
their conjunction; TLC agreed on the instances of the two registry runs.

`TypeCorrect`, `DoorsApart` and `CountersExact` are `TypeOK`, `OneDoor` and `Accounting`;
`IdsNotReusedEarly` and `SessionsUsedInTime` are the action properties `NoEarlyReuse`
and `UsedInTime`.

### The recording of a take

`Coherent` numbers takes and arms upwards, so that nothing under way can be taken for
something of a later take, and says what stands behind each thing under way: behind an
acknowledgement, audio of its arm's take or an arm that is gone; behind a phase, a
worker. It falls apart into `Room` (control state, arms, acknowledgements, guests) and
`Host` (the coordinator's phase and its traffic), which touch only through the arm and
the number of the last take. A guest loses audio only of an arm that it is shown
cancelled, whatever it reads and however its devices fail; what the guests are told only
goes forward; and each action follows from the effects on the two halves (`Coherence`).

That the audio of a recorded take is kept while the host can write its control state
(`KeptWhileWritable`) spans a whole take: the request to start is sent before the host
publishes the start, the recorder may execute it after its worker has given up, and the
stop may come from anywhere. `Asks` says that the recorder is asked to start only for
an arm that every required guest has confirmed and that nobody waits for any more, so
that no late end of a wait cancels it, and that a take whose audio was dropped is not
armed again. `Spared` says, while the host can write, that no guest drops the audio of a
take that was recorded, or that is the current one and may still be (`Launched`), nor is
told to, and that seeing the stop settles the arm of the take. `IInv` is `Coherent` with both; TLC checks it in `take_recording`.

`AudioKept` is `KeptWhileWritable`. `TypeCorrect`, `Acknowledged`, `Validates`,
`Returns` and `Advances` are `TypeOK`, `AckedCaptures`, `ValidatedOnce`, `BusyOwned`
and the action property `HistoryAdvances`.

### The transfer

`IInv` says that a request, however late, carries the bytes of the source from an
offset its host has reached, and that what the client takes from an answer is still
true when it acts on it: a late request has at most added the very piece that is sent
next. Every served request then grows a prefix of the source or changes nothing.
`TypeCorrect`, `Resumable`, `Acknowledged` and `Verified` are `TypeOK`, `PartsBegin`,
`AckedKept` and `VerifiedPublished`; `Delivers` is `Spec => DeliversOnce`, the transfer
implements `SegmentDelivery`.

### The finalization of a take

`IInv` (`TakeFinalizationInv`) has one part per kind of reliance. `SessionHolds`: a
session that is up has its thread, one that is down has nothing left. `EndHolds`: from
the moment a stop has waited for the leases no callback comes any more, and the result
of a stop is the last thing queued. `ValidationHolds`: from the stop of a take to its
showing exactly one thread or queued result is responsible for it. `NumbersHold`: takes
are recorded in order, a later one has no traces. `PassesHold`: what a pass has read is
backed by media that are there or that it has still to copy, and contains what was
owed. `ShownHolds`: what was loaded of a take says what the manifest says, or was loaded
with an error, or a refresh that will correct it is under way, or the step that was to
send one raised (`untold`). `OwedHolds`: a reconciled manifest without
open errors has everything that was owed, and so has a take that is shown, or about to
be shown, without errors. That a take shown as complete is complete needs all of them:
the manifest is right when it is published, what is loaded without errors was right
then and nothing attached is ever taken away, and no other writer can come between. It
does not depend on the news: however many of them raise, a take is never shown as
complete without an original that it was owed. `CompleteIsTold`,
`ShownIsTrue`, `EndIsQuiet`, `TracksAreBacked` and `TypeCorrect` are `CompleteTold`,
`ShownTrue`, `EndedQuiet`, `TracksBacked` and `TypeOK`; `NothingIsDetached` is the
action property `NothingDetached`.

Every invariant and every action property that a passing run checks is proved, and so
are both refinements. Only model-checked: `JournalResolves`, `Settles`, `Arrives` and
`Concludes`, because liveness under fairness is beyond the prover. The four violated
properties are TLC's counterexamples.

## Plan

Done: the recording commit with its abstract specification; the replay window; the
registry; the recording of a take, the upload of its originals and its finalization at
the host; each with its proofs.

Left, in this order:

1. The rendezvous client over `SessionRegistry`, with a channel that loses answers.
2. The relay mailbox and its polling client.

## Not modelled

* *Relay mailbox and signaling client.* Slots that are written once, an alarm and a
  poller. The hazard at its lines stays uncovered.
* *Managed component store.* No part of the application installs, activates or prunes
  a version yet, only the rollback of a failed update; the interleavings of a running
  system are not known.
* *Rendezvous client and native transport.* The profile that uses the registry is for
  the laboratory; its client never retries, so that any lost answer ends the operation.
  The production profile is another protocol.
* *Room followers, notes, library, lifecycle, Pocket Stage, bridge.* Independent
  smaller parts whose state is mostly that of one process.
* *Studio editing, rendering and export, Qt views, web and phone front ends, legacy
  application, packaging.* Numeric, presentation or build code. Of the controllers,
  what takes part in the modelled protocols is in the modules above.

## Running

In this directory, with TLC and TLAPS on the path: `tlc -config TakeTransfer.cfg
TakeTransfer`, and so on for each line of "runs" in `PROJECT.json`; `tlapm
RecordingCommitProofs.tla` for the proofs, and likewise `RecordingCommitEffects`,
`ReplayFilterProofs`, `FoldLemmas`, `SessionRegistryProofs`, `TakeRecordingProofs`,
`TakeTransferProofs` and `TakeFinalizationProofs`.
