-------------------------- MODULE TakeFinalization --------------------------
(***************************************************************************)
(* What becomes of a recorded take at the host: RecordingCoordinator       *)
(* validates it on a worker thread, HostPeerSession brings the originals   *)
(* its guests upload into the take's manifest, once for the validation and *)
(* then on its maintenance thread, and the UI thread shows the outcome and *)
(* corrects it when an original arrives late.  Ending the jam stops the    *)
(* peer session, whose maintenance may be in the middle of a pass.         *)
(***************************************************************************)
EXTENDS TakeManifest, Sequences

CONSTANTS
  MaxTakes,   \* bounds: takes recorded,
  MaxSessions,\* peer sessions started,
  MaxFaults   \* and things that go wrong: a file operation fails or raises after
              \* it took effect, a validation raises, a guest changes its plan, an
              \* original or a recording is not what it should be

ASSUME FinalizationAssumption ==
  MaxTakes \in Nat /\ MaxSessions \in Nat /\ MaxFaults \in Nat

VARIABLES
  co,       \* RecordingCoordinator and the end of a jam: UI state
  ui,       \* callbacks queued for the UI thread
  worker,   \* the validation worker
  peer,     \* HostPeerSession: its lifecycle and what it knows of takes
  loop,     \* its maintenance thread
  pass,     \* a reconciliation of the maintenance and of the validation
  stop,     \* the thread that ends the jam: where it is
  store,    \* originals in the TransferStore
  manifest, \* of each take, and
  media,    \* the originals copied into its folder
  untold,   \* history: takes whose manifest was changed, or could not be read to
            \* be shown, by a step that raised, and of which no step has told since
  faults    \* things that may still go wrong

vars == <<co, ui, worker, peer, loop, pass, stop, store, manifest, media, untold,
          faults>>

Takes  == 1..MaxTakes
Passes == {"maintenance", "validation"}
Busy   == {"recording", "finalizing"}

NoPass == [at |-> "rest", take |-> 0, gen |-> 0, left |-> 0, seen |-> NoManifest,
           inv |-> NoManifest.seen, owed |-> {}, issue |-> FALSE, todo |-> {}]
NoWork == [at |-> "rest", take |-> 0, found |-> FALSE, attention |-> FALSE,
           left |-> 0, seen |-> NoManifest]
NoThread == [alive |-> FALSE, gen |-> 0, todo |-> {}]

Fault == faults > 0 /\ faults' = faults - 1
-----------------------------------------------------------------------------
(* The peer session.                                                       *)

Active     == peer.state # "down"
Current(g) == peer.state = "up" /\ peer.gen = g

\* Everything that start and stop clear.
Cleared(r) ==
  [r EXCEPT !.registered = {}, !.known = {},
            !.planned  = [t \in Takes |-> {}],
            !.expected = [t \in Takes |-> {}],
            !.issue    = [t \in Takes |-> FALSE]]

\* _update_expected_capture_participants, of the session r: the first call
\* freezes the obligations of a take; any call may find guests that are there
\* now, and then note for ever that they are not as they should be.
Frozen(r, t) ==
  IF t \in r.known THEN {r}
  ELSE {[r EXCEPT !.known = @ \cup {t}, !.planned[t] = plan, !.expected[t] = plan] :
          plan \in SUBSET Guests}

Froze(r, t) == IF r.state = "down" THEN peer' = r ELSE peer' \in Frozen(r, t)

Widen(r, t) ==
  \/ Froze(r, t) /\ UNCHANGED faults
  \/ /\ r.state # "down" /\ Fault
     /\ \E s \in Frozen(r, t), present \in SUBSET Guests, amiss \in BOOLEAN :
          peer' = [s EXCEPT !.expected[t] = @ \cup present, !.issue[t] = @ \/ amiss]

Owed(t) == peer.planned[t] \cup peer.expected[t]

\* Ensuring the peer session: start.
PeerStarts ==
  /\ co.jam = "open" /\ peer.state = "down" /\ peer.gen + 1 < 2 * MaxSessions
  /\ peer' = Cleared([peer EXCEPT !.state = "up", !.gen = @ + 1])
  /\ loop' = [NoThread EXCEPT !.alive = TRUE, !.gen = peer'.gen]
  /\ store' = [t \in Takes |-> NoManifest.seen]
  /\ UNCHANGED <<co, ui, worker, pass, stop, manifest, media, untold, faults>>

\* A guest completes its original of a take that was stopped.
GuestUploads(t, g) ==
  /\ Active /\ t \in peer.known /\ (t = co.take => co.phase = "finalizing")
  /\ store[t][g] = "absent"
  /\ \/ store' = [store EXCEPT ![t][g] = "whole"] /\ UNCHANGED faults
     \/ store' = [store EXCEPT ![t][g] = "flawed"] /\ Fault
  /\ UNCHANGED <<co, ui, worker, peer, loop, pass, stop, manifest, media, untold>>
-----------------------------------------------------------------------------
(* A reconciliation, under the lock of its take.                           *)

Become(p, r) == pass' = [pass EXCEPT ![p] = r]
At(p, at)    == Become(p, [pass[p] EXCEPT !.at = at])
\* What a pass returns, or raises, is of no use to the maintenance.
Ends(p, how) == IF p = "maintenance" THEN Become(p, NoPass) ELSE Become(p, [NoPass EXCEPT !.at = how])
Holds(p, t)  == pass[p].at \in {"again", "attaching", "told"} /\ pass[p].take = t
Locked(t)    == \E p \in Passes : Holds(p, t)
Called(t)    == [NoPass EXCEPT !.at = "called", !.take = t, !.left = 3]

\* The maintenance belongs to its lifecycle, the validation to whichever is.
Generation(p) == IF p = "maintenance" THEN loop.gen ELSE peer.gen

\* With the lock taken, the manifest is read, then the inventory.
PassReads(p) ==
  /\ LET t == pass[p].take
     IN IF Current(Generation(p)) /\ manifest[t].rev > 0
        THEN Become(p, [pass[p] EXCEPT
               !.at = "attaching", !.gen = Generation(p), !.seen = manifest[t],
               !.inv = store[t], !.owed = Owed(t), !.issue = peer.issue[t],
               !.todo = {g \in Guests : store[t][g] \in Arrived}])
        ELSE Ends(p, "done")
  /\ UNCHANGED <<co, ui, worker, peer, loop, stop, store, manifest, media, untold, faults>>

PassLocks(p) == pass[p].at = "called" /\ ~Locked(pass[p].take) /\ PassReads(p)

\* Mutant: an original that cannot be copied is left out.
PassAttachesMutant(p, g) ==
  /\ pass[p].at = "attaching" /\ g \in pass[p].todo /\ Current(pass[p].gen)
  /\ \/ media' = [media EXCEPT ![pass[p].take] = @ \cup {g}] /\ UNCHANGED faults
     \/ Fault /\ UNCHANGED media
  /\ Become(p, [pass[p] EXCEPT !.todo = @ \ {g}])
  /\ UNCHANGED <<co, ui, worker, peer, loop, stop, store, manifest, untold>>

\* An original is copied and put in place, unless the session has stopped.
PassAttaches(p, g) ==
  /\ pass[p].at = "attaching" /\ g \in pass[p].todo
  /\ \/ /\ Current(pass[p].gen)
        /\ media' = [media EXCEPT ![pass[p].take] = @ \cup {g}]
        /\ Become(p, [pass[p] EXCEPT !.todo = @ \ {g}])
        /\ UNCHANGED faults
     \/ ~Current(pass[p].gen) /\ Ends(p, "done") /\ UNCHANGED <<media, faults>>
     \/ Fault /\ Ends(p, "failed") /\ UNCHANGED media
  /\ UNCHANGED <<co, ui, worker, peer, loop, stop, store, manifest, untold>>

\* A pass whose manifest has changed under it starts again, three times.
PassAgain(p) ==
  IF pass[p].left > 1
  THEN Become(p, [Called(pass[p].take) EXCEPT !.at = "again", !.left = pass[p].left - 1])
  ELSE Ends(p, "done")

\* Mutant: the manifest is replaced without a comparison.
UnchangedMutant(t, m) == TRUE
Unchanged(t, m) == manifest[t] = m

\* Replacing a manifest may raise before it takes effect or, when the folder
\* cannot be synced, after it (_atomic_write); then nobody is told.
PassPublishes(p) ==
  /\ pass[p].at = "attaching" /\ pass[p].todo = {}
  /\ LET r == pass[p]
         t == r.take
         replaced(n) == manifest' = [manifest EXCEPT ![t] = [n EXCEPT !.rev = @ + 1]]
     IN \/ ~Current(r.gen) /\ Ends(p, "done") /\ UNCHANGED <<manifest, untold, faults>>
        \/ /\ Current(r.gen) /\ ~Unchanged(t, r.seen) /\ PassAgain(p)
           /\ UNCHANGED <<manifest, untold, faults>>
        \/ /\ Current(r.gen) /\ Unchanged(t, r.seen)
           /\ \E n \in Reconciled(r.seen, r.owed, r.inv, r.issue) :
                \/ n = r.seen /\ Ends(p, "done") /\ UNCHANGED <<manifest, untold, faults>>
                \/ /\ n # r.seen /\ replaced(n) /\ At(p, "told")
                   /\ untold' = untold \ {t} /\ UNCHANGED faults
                \/ /\ n # r.seen /\ replaced(n) /\ Ends(p, "failed")
                   /\ untold' = untold \cup {t} /\ Fault
        \/ Fault /\ Ends(p, "failed") /\ UNCHANGED <<manifest, untold>>
  /\ UNCHANGED <<co, ui, worker, peer, loop, stop, store, media>>

\* The callback, under a lease that a stop waits for.
PassTells(p) ==
  /\ pass[p].at = "told"
  /\ ui' = Append(ui, [is |-> "refresh", take |-> pass[p].take, found |-> TRUE,
                       attention |-> FALSE])
  /\ Ends(p, "done")
  /\ UNCHANGED <<co, worker, peer, loop, stop, store, manifest, media, untold, faults>>

PassStep(p) ==
  \/ pass[p].at = "again" /\ PassReads(p)
  \/ PassPublishes(p) \/ PassTells(p)
  \/ \E g \in Guests : PassAttaches(p, g)
-----------------------------------------------------------------------------
(* The maintenance thread.                                                 *)

\* Mutant: a take that has been reconciled is not looked at again.
DueMutant == {t \in IF loop.todo = {} THEN peer.registered ELSE loop.todo : ~manifest[t].marked}
\* A tick goes through the takes registered by then, in their order.
Due == IF loop.todo = {} THEN peer.registered ELSE loop.todo

MaintenanceCalls ==
  /\ loop.alive /\ pass["maintenance"].at = "rest" /\ Current(loop.gen)
  /\ \E t \in Due : /\ \A u \in Due : t <= u
                    /\ Become("maintenance", Called(t))
                    /\ loop' = [loop EXCEPT !.todo = Due \ {t}]
  /\ UNCHANGED <<co, ui, worker, peer, stop, store, manifest, media, untold, faults>>

MaintenanceEnds ==
  /\ loop.alive /\ pass["maintenance"].at = "rest" /\ ~Current(loop.gen)
  /\ loop' = NoThread
  /\ UNCHANGED <<co, ui, worker, peer, pass, stop, store, manifest, media, untold, faults>>

MaintenanceStep == MaintenanceCalls \/ MaintenanceEnds
-----------------------------------------------------------------------------
(* The validation worker.                                                  *)

\* Nothing catches what is raised: the outcome is lost with the thread.
Lost(t) == worker' = [NoWork EXCEPT !.at = "lost", !.take = t]

Result(found, attention) ==
  worker' = [worker EXCEPT !.at = IF found /\ Active THEN "inventory" ELSE "posting",
                           !.found = found, !.attention = attention]

\* _build_take_validation, and what is made of its failure: a take that is not
\* found, or is found without the manifest that was to be written.
WorkerValidates ==
  /\ worker.at = "validating"
  /\ \E m \in {manifest[worker.take], Validated(FALSE), Validated(TRUE)} :
       /\ manifest' = [manifest EXCEPT ![worker.take] = m]
       /\ \/ m = Validated(FALSE) /\ Result(TRUE, FALSE) /\ UNCHANGED faults
          \/ Fault /\ \E found \in BOOLEAN : Result(found, TRUE)
          \/ Fault /\ Lost(worker.take)
  /\ UNCHANGED <<co, ui, peer, loop, pass, stop, store, media, untold>>

\* The wait for the inventory has no result; the take is then registered
\* and reconciled.
WorkerRegisters ==
  /\ worker.at = "inventory"
  /\ Widen([peer EXCEPT !.registered = @ \cup {worker.take}], worker.take)
  /\ worker' = [worker EXCEPT !.at = "reconciling"]
  /\ Become("validation", Called(worker.take))
  /\ UNCHANGED <<co, ui, loop, stop, store, manifest, media, untold>>

\* Only what the manifest says counts, not what the pass returned; whatever
\* was raised on the way, a note is made of it.
WorkerReadsMarker ==
  /\ worker.at = "reconciling" /\ pass["validation"].at \in {"done", "failed"}
  /\ Become("validation", NoPass)
  /\ LET marked == pass["validation"].at = "done" /\ manifest[worker.take].marked
     IN \/ /\ marked /\ UNCHANGED faults
           /\ co' = [co EXCEPT !.marked = worker.take]
           /\ worker' = [worker EXCEPT !.at = "loading"]
        \/ /\ (~marked /\ UNCHANGED faults) \/ Fault
           /\ worker' = [worker EXCEPT !.at = "noting", !.left = 3]
           /\ UNCHANGED co
  /\ UNCHANGED <<ui, peer, loop, stop, store, manifest, media, untold>>

\* _publish_take_attention, up to three times: without a manifest, or one that
\* can be read, there is no note.
WorkerNotes ==
  /\ worker.at = "noting"
  /\ \/ /\ manifest[worker.take].rev > 0 /\ UNCHANGED faults
        /\ worker' = [worker EXCEPT !.at = "replacing", !.seen = manifest[worker.take]]
     \/ /\ (manifest[worker.take].rev = 0 /\ UNCHANGED faults) \/ Fault
        /\ worker' = [worker EXCEPT !.at = "loading"]
  /\ UNCHANGED <<co, ui, peer, loop, pass, stop, store, manifest, media, untold>>

\* The comparison may fail to read the manifest, and then finds it changed;
\* nothing catches what replacing it raises, before or after it took effect.
WorkerReplaces ==
  /\ worker.at = "replacing"
  /\ LET t == worker.take
         goes(at) == worker' = [worker EXCEPT !.at = at, !.left = @ - 1, !.seen = NoManifest]
         noted == /\ Unchanged(t, worker.seen)
                  /\ manifest' = [manifest EXCEPT ![t] = Noted(worker.seen)]
     IN \/ noted /\ goes("loading") /\ UNCHANGED faults
        \/ /\ (~Unchanged(t, worker.seen) /\ UNCHANGED faults) \/ Fault
           /\ goes(IF worker.left > 1 THEN "noting" ELSE "loading") /\ UNCHANGED manifest
        \/ (noted \/ UNCHANGED manifest) /\ Lost(t) /\ Fault
  /\ UNCHANGED <<co, ui, peer, loop, pass, stop, store, media, untold>>

\* What is loaded, with the error that a note without a file would leave; a
\* manifest that cannot be read needs attention, a folder raises.
WorkerLoads ==
  /\ worker.at = "loading"
  /\ LET t == worker.take
         shows(found, attention) ==
           worker' = [worker EXCEPT !.at = "posting", !.found = found, !.attention = attention]
     IN \/ /\ shows(TRUE, Attention(manifest[t]) \/ co.marked # t)
           /\ untold' = untold \ {t} /\ UNCHANGED faults
        \/ /\ \E found \in BOOLEAN : shows(found, TRUE)
           /\ untold' = untold \cup {t} /\ Fault
        \/ Lost(t) /\ Fault /\ UNCHANGED untold
  /\ UNCHANGED <<co, ui, peer, loop, pass, stop, store, manifest, media>>

\* Mutant: the worker of a take that is not found ends without a word.
WorkerPostsMutant ==
  /\ worker.at = "posting" /\ worker' = NoWork
  /\ ui' = IF worker.found
           THEN Append(ui, [is |-> "show", take |-> worker.take, found |-> TRUE,
                            attention |-> worker.attention])
           ELSE ui
  /\ UNCHANGED <<co, peer, loop, pass, stop, store, manifest, media, untold, faults>>

WorkerPosts ==
  /\ worker.at = "posting" /\ worker' = NoWork
  /\ ui' = Append(ui, [is |-> "show", take |-> worker.take, found |-> worker.found,
                       attention |-> worker.attention])
  /\ UNCHANGED <<co, peer, loop, pass, stop, store, manifest, media, untold, faults>>

WorkerStep ==
  \/ WorkerValidates \/ WorkerRegisters \/ WorkerReadsMarker \/ WorkerNotes
  \/ WorkerReplaces \/ WorkerLoads \/ WorkerPosts
-----------------------------------------------------------------------------
(* The UI thread: the user, and the callbacks in the order they were       *)
(* queued.                                                                 *)

PhaseOf(attention) == IF attention THEN "attention" ELSE "complete"

JamStarts ==
  /\ co.jam = "closed" /\ co' = [co EXCEPT !.jam = "open"]
  /\ UNCHANGED <<ui, worker, peer, loop, pass, stop, store, manifest, media, untold, faults>>

\* The obligations of the guests are frozen and the take begins.
Record ==
  /\ co.jam = "open" /\ co.phase \notin Busy /\ co.number < MaxTakes
  /\ co' = [co EXCEPT !.phase = "recording", !.number = @ + 1, !.take = co.number + 1]
  /\ Widen(peer, co.number + 1)
  /\ UNCHANGED <<ui, worker, loop, pass, stop, store, manifest, media, untold>>

\* The recorder has stopped: the guests are told and the take is validated.
StopRecording ==
  /\ co.phase = "recording"
  /\ co' = [co EXCEPT !.phase = "finalizing"]
  /\ Widen(peer, co.take)
  /\ worker' = [NoWork EXCEPT !.at = "validating", !.take = co.take]
  /\ UNCHANGED <<ui, loop, pass, stop, store, manifest, media, untold>>

\* _show_validation_result: a refresh that came before it counts more.  If its
\* manifest cannot be loaded that needs attention; if its folder cannot, the
\* callback raises, and the invoker only logs it.
ShowValidation(e) ==
  LET t == e.take
      unmarked == e.found /\ Active /\ co.marked # t
      shown(attention) ==
        co' = [co EXCEPT !.phase = PhaseOf(attention \/ unmarked), !.take = 0,
                         !.last = IF e.found THEN t ELSE 0,
                         !.lastAttention = attention, !.news = @ \ {t}]
      queued == IF unmarked THEN [peer EXCEPT !.registered = @ \cup {t}] ELSE peer
  IN /\ e.is = "show"
     /\ \/ /\ shown(IF t \in co.news THEN Attention(manifest[t]) ELSE e.attention)
           /\ Widen(queued, t) /\ UNCHANGED <<worker, untold>>
        \/ /\ t \in co.news /\ shown(TRUE) /\ Froze(queued, t) /\ Fault
           /\ untold' = untold \cup {t} /\ UNCHANGED worker
        \/ /\ t \in co.news /\ co' = [co EXCEPT !.news = @ \ {t}] /\ Lost(t) /\ Fault
           /\ UNCHANGED <<peer, untold>>

\* Mutant: a refresh while the take is validated is dropped.
RefreshWaitsMutant(t) == FALSE
\* on_peer_take_reconciled.
RefreshWaits(t)   == co.phase = "finalizing" /\ co.take \in {0, t}
RefreshApplies(t) == co.phase # "finalizing" /\ co.take \in {0, t} /\ co.last = t

ShowRefresh(e) ==
  LET t == e.take
      attention == Attention(manifest[t])
  IN /\ e.is = "refresh"
     /\ \/ /\ RefreshWaits(t) /\ co' = [co EXCEPT !.news = @ \cup {t}]
           /\ UNCHANGED <<peer, untold, faults>>
        \/ /\ RefreshApplies(t) /\ UNCHANGED untold /\ Widen(peer, t)
           /\ co' = [co EXCEPT !.lastAttention = attention, !.phase =
                       IF attention = co.lastAttention THEN @ ELSE PhaseOf(attention)]
        \/ /\ RefreshApplies(t) /\ Fault \* it cannot be loaded
           /\ untold' = untold \cup {t} /\ UNCHANGED <<co, peer>>
        \/ ~RefreshWaits(t) /\ ~RefreshApplies(t) /\ UNCHANGED <<co, peer, untold, faults>>
     /\ UNCHANGED worker

\* Stopping was not proven, and may be tried again; or the jam has ended.
ShowEnd(e) ==
  /\ \/ e.is = "retry" /\ co' = [co EXCEPT !.jam = "retry"]
     \/ e.is = "ended" /\ co' = [co EXCEPT !.jam = "closed", !.phase = "idle"]
  /\ UNCHANGED <<worker, peer, untold, faults>>

UiHandles ==
  /\ ui # <<>> /\ ui' = Tail(ui)
  /\ ShowValidation(Head(ui)) \/ ShowRefresh(Head(ui)) \/ ShowEnd(Head(ui))
  /\ UNCHANGED <<loop, pass, stop, store, manifest, media>>

\* A jam is not ended while a take is recorded or validated.
EndJam ==
  /\ co.jam \in {"open", "retry"} /\ co.phase \notin Busy
  /\ co' = [co EXCEPT !.jam = "ending"] /\ stop' = "asked"
  /\ UNCHANGED <<ui, worker, peer, loop, pass, store, manifest, media, untold, faults>>
-----------------------------------------------------------------------------
(* HostPeerSession.stop, on the thread that ends the jam.                  *)

Post(is) == ui' = Append(ui, [is |-> is, take |-> 0, found |-> FALSE, attention |-> FALSE])

\* Mutant: every request is a lifecycle of its own.
StopRequestsMutant ==
  /\ stop = "asked" /\ stop' = "waiting"
  /\ peer' = [peer EXCEPT !.state = "stopping", !.gen = @ + 1]
  /\ UNCHANGED <<co, ui, worker, loop, pass, store, manifest, media, untold, faults>>

\* The first request invalidates the lifecycle.
StopRequests ==
  /\ stop = "asked" /\ stop' = "waiting"
  /\ peer' = IF peer.state = "up" THEN [peer EXCEPT !.state = "stopping", !.gen = @ + 1]
             ELSE peer
  /\ UNCHANGED <<co, ui, worker, loop, pass, store, manifest, media, untold, faults>>

\* The leases of callbacks, which a stop waits for.
Leases == \E p \in Passes : pass[p].at = "told"

StopWaits ==
  /\ stop = "waiting" /\ ~Leases /\ stop' = "joining"
  /\ UNCHANGED <<co, ui, worker, peer, loop, pass, store, manifest, media, untold, faults>>

\* Mutant: a thread that has not ended is taken for gone.
StopFinishesMutant ==
  /\ stop = "joining" /\ stop' = "rest"
  /\ peer' = Cleared([peer EXCEPT !.state = "down"])
  /\ Post("ended")
  /\ UNCHANGED <<co, worker, loop, pass, store, manifest, media, untold, faults>>

\* The maintenance thread is gone, the server stops, the session is cleared;
\* a later service may not stop.
StopFinishes ==
  /\ stop = "joining" /\ ~loop.alive /\ stop' = "rest"
  /\ peer' = Cleared([peer EXCEPT !.state = "down"])
  /\ \/ Post("ended") /\ UNCHANGED faults
     \/ Post("retry") /\ Fault
  /\ UNCHANGED <<co, worker, loop, pass, store, manifest, media, untold>>

\* The thread has not ended in three seconds, or the server does not stop.
StopGivesUp ==
  /\ stop = "joining" /\ stop' = "rest"
  /\ (loop.alive /\ UNCHANGED faults) \/ Fault
  /\ Post("retry")
  /\ UNCHANGED <<co, worker, peer, loop, pass, store, manifest, media, untold>>

StopStep == StopRequests \/ StopWaits \/ StopFinishes \/ StopGivesUp
-----------------------------------------------------------------------------
Init ==
  /\ co = [jam |-> "closed", phase |-> "idle", number |-> 0, take |-> 0, last |-> 0,
           lastAttention |-> FALSE, marked |-> 0, news |-> {}]
  /\ peer = [state |-> "down", gen |-> 0, registered |-> {}, known |-> {},
             planned |-> [t \in Takes |-> {}], expected |-> [t \in Takes |-> {}],
             issue |-> [t \in Takes |-> FALSE]]
  /\ ui = <<>> /\ worker = NoWork /\ loop = NoThread /\ stop = "rest"
  /\ pass = [p \in Passes |-> NoPass]
  /\ store = [t \in Takes |-> NoManifest.seen]
  /\ manifest = [t \in Takes |-> NoManifest] /\ media = [t \in Takes |-> {}]
  /\ untold = {} /\ faults = MaxFaults

User == JamStarts \/ PeerStarts \/ Record \/ StopRecording \/ EndJam

Next ==
  \/ User \/ UiHandles \/ WorkerStep \/ MaintenanceStep \/ StopStep
  \/ \E p \in Passes : PassLocks(p) \/ PassStep(p)
  \/ \E t \in Takes, g \in Guests : GuestUploads(t, g)

Spec == Init /\ [][Next]_vars

\* The threads run, and the maintenance leaves a take's lock free between
\* its ticks for long enough.
FairSpec ==
  /\ Spec
  /\ WF_vars(UiHandles) /\ WF_vars(WorkerStep) /\ WF_vars(MaintenanceStep) /\ WF_vars(StopStep)
  /\ \A p \in Passes : WF_vars(PassStep(p)) /\ SF_vars(PassLocks(p))
-----------------------------------------------------------------------------
Generations == 0..2 * MaxSessions
CoStates ==
  [jam: {"closed", "open", "ending", "retry"},
   phase: {"idle", "recording", "finalizing", "attention", "complete"},
   number: 0..MaxTakes, take: 0..MaxTakes, last: 0..MaxTakes,
   lastAttention: BOOLEAN, marked: 0..MaxTakes, news: SUBSET Takes]
Events ==
  [is: {"show", "refresh"}, take: Takes, found: BOOLEAN, attention: BOOLEAN] \cup
  [is: {"ended", "retry"}, take: {0}, found: {FALSE}, attention: {FALSE}]
Workers ==
  [at: {"rest", "validating", "inventory", "reconciling", "noting", "replacing",
        "loading", "posting", "lost"},
   take: 0..MaxTakes, found: BOOLEAN, attention: BOOLEAN, left: 0..3, seen: Manifests]
Sessions ==
  [state: {"up", "stopping", "down"}, gen: Generations, registered: SUBSET Takes,
   known: SUBSET Takes, planned: [Takes -> SUBSET Guests],
   expected: [Takes -> SUBSET Guests], issue: [Takes -> BOOLEAN]]
PassStates ==
  [at: {"rest", "called", "again", "attaching", "told", "done", "failed"},
   take: 0..MaxTakes, gen: Generations, left: 0..3, seen: Manifests,
   inv: [Guests -> Originals], owed: SUBSET Guests, issue: BOOLEAN, todo: SUBSET Guests]

TypeOK ==
  /\ co \in CoStates /\ ui \in Seq(Events) /\ worker \in Workers /\ peer \in Sessions
  /\ loop \in [alive: BOOLEAN, gen: Generations, todo: SUBSET Takes]
  /\ pass \in [Passes -> PassStates]
  /\ stop \in {"rest", "asked", "waiting", "joining"}
  /\ store \in [Takes -> [Guests -> Originals]]
  /\ manifest \in [Takes -> Manifests] /\ media \in [Takes -> SUBSET Guests]
  /\ untold \subseteq Takes /\ faults \in Nat

\* News of a take are on their way to the UI.
News(t) ==
  \/ \E i \in 1..Len(ui) : ui[i].take = t /\ ui[i].is \in {"show", "refresh"}
  \/ \E p \in Passes : Holds(p, t) /\ pass[p].at = "told"

\* A take that is shown as complete has all that its guests owed, whatever went
\* wrong on the way; and when its manifest comes to need attention, that is
\* about to be shown, unless the step that was to tell of it has raised
\* (_reconcile_initial_peer_inventory, _show_validation_result).
CompleteTold ==
  LET t == co.last
  IN co.phase = "complete" /\ t # 0
       => /\ peer.planned[t] \subseteq Attached(manifest[t])
          /\ Attention(manifest[t]) => News(t) \/ t \in untold

\* What is shown of a take that was reconciled is what its manifest says,
\* however validation and late originals overtake each other, unless the step
\* that was to tell of it has raised (on_peer_take_reconciled).
ShownTrue ==
  LET t == co.last
  IN /\ co.phase \in {"complete", "attention"} /\ t # 0 /\ co.marked = t
     /\ ~News(t) /\ t \notin untold
     => (co.phase = "attention" <=> Attention(manifest[t]))

\* An ended jam is quiet: no take of it is shown and no callback is to come
\* (the comment of on_audio_session_stopped).
EndedQuiet ==
  co.jam = "closed" => co.phase = "idle" /\ ui = <<>> /\ ~loop.alive /\ ~Leases

\* A track in the manifest has its file in the folder of the take.
TracksBacked == \A t \in Takes : Attached(manifest[t]) \subseteq media[t]

\* Writers do not undo each other (replace_take_project_manifest_if_unchanged).
NothingDetached ==
  [][\A t \in Takes : MayFollow(manifest[t], manifest'[t])]_vars

\* A complete original of a registered take that has its manifest is attached,
\* or the session stops.
Arrives ==
  \A t \in Takes, g \in Guests :
    (/\ peer.state = "up" /\ t \in peer.registered /\ manifest[t].rev > 0
     /\ store[t][g] \in Arrived)
      ~> (g \in Attached(manifest[t]) \/ peer.state # "up")

\* A take is not validated for ever, unless what its validation raised was
\* caught by nobody, and an end of the jam has a result.
Concludes ==
  /\ co.phase = "finalizing" ~> co.phase # "finalizing" \/ worker.at = "lost"
  /\ co.jam = "ending" ~> co.jam # "ending"
=============================================================================
