------------------------ MODULE TakeFinalizationInv ------------------------
(***************************************************************************)
(* The inductive invariant of TakeFinalization: what each thread may rely  *)
(* on while the others run.                                                *)
(***************************************************************************)
EXTENDS TakeFinalization

Queued(is, t) == \E i \in 1..Len(ui) : ui[i].is = is /\ ui[i].take = t
IsEnd(e) == e.is \in {"ended", "retry"}
EndQueued     == \E i \in 1..Len(ui) : IsEnd(ui[i])
\* The peer session has been told to stop and no callback has its lease.
Quiet         == peer.state # "up" /\ ~Leases

\* The pass p is under way.
Going(p)      == pass[p].at \notin {"rest", "done", "failed"}

\* The peer session, its thread and what is cleared with them.
SessionHolds ==
  /\ peer.state = "up" => loop.alive /\ loop.gen = peer.gen /\ peer.gen < 2 * MaxSessions
  /\ peer.state = "down" =>
       ~loop.alive /\ peer.known = {} /\ peer.registered = {} /\ peer.planned = [t \in Takes |-> {}]
  /\ ~loop.alive => pass["maintenance"].at = "rest" /\ loop.todo = {}
  /\ pass["maintenance"].at \notin {"done", "failed"}

\* The end of a jam: at most one result is queued, and it is the last thing
\* when the jam has ended.
EndHolds ==
  /\ co.jam # "ending" => stop = "rest" /\ ~EndQueued
  /\ stop # "rest" => ~EndQueued
  /\ stop = "waiting" => peer.state # "up"
  /\ stop = "joining" \/ co.jam = "retry" \/ EndQueued => Quiet
  /\ \A i, j \in 1..Len(ui) : IsEnd(ui[i]) /\ IsEnd(ui[j]) => i = j
  /\ \A i \in 1..Len(ui) : ui[i].is = "ended" => i = Len(ui) /\ peer.state = "down"
  /\ co.jam = "closed" => ui = <<>> /\ peer.state = "down" /\ co.phase = "idle"
  /\ co.jam = "open" => peer.state # "stopping"
  /\ co.jam # "open" => co.phase \notin Busy

\* The validation of a take is one thread's, from its stop to its showing.
ValidationHolds ==
  /\ worker.at # "rest" =>
       co.phase = "finalizing" /\ worker.take = co.take /\ \A i \in 1..Len(ui) : ui[i].is # "show"
  /\ \A i \in 1..Len(ui) : ui[i].is = "show" => co.phase = "finalizing" /\ ui[i].take = co.take
  /\ \A i, j \in 1..Len(ui) : ui[i].is = "show" /\ ui[j].is = "show" => i = j
  /\ pass["validation"].at # "rest" => worker.at = "reconciling"
  /\ Going("validation") => pass["validation"].take = co.take
  /\ worker.at \notin {"rest", "validating", "posting", "lost"} => peer.state = "up"
  /\ worker.at \in {"noting", "replacing"} => worker.left > 0

\* Takes are numbered as they are recorded.
NumbersHold ==
  /\ co.phase \in Busy => co.take = co.number /\ co.last < co.number
  /\ co.phase \notin Busy => co.take = 0
  /\ co.last <= co.number /\ co.marked <= co.number
  /\ co.phase = "recording" \/ worker.at = "validating" =>
       co.marked < co.number /\ manifest[co.number] = NoManifest
  /\ \A t \in Takes : t > co.number => manifest[t] = NoManifest /\ t \notin peer.known

\* A take that anything refers to has its obligations frozen, and a pass has
\* read those of its own session.
Named(t) ==
  \/ t \in peer.registered \cup loop.todo \/ Queued("refresh", t)
  \/ \E p \in Passes : Going(p) /\ pass[p].take = t

PassesHold ==
  /\ \A p \in Passes : Going(p) => pass[p].take \in Takes
  /\ \A t \in Takes : peer.state # "down" /\ Named(t) => t \in peer.known
  /\ \A t \in Takes : Queued("refresh", t) =>
       manifest[t].marked /\ ~(co.jam = "open" /\ peer.state = "down")
  /\ \A p \in Passes : pass[p].at = "attaching" =>
       /\ pass[p].seen.rev > 0
       /\ Attached(pass[p].seen) \cup {g \in Guests : pass[p].inv[g] \in Arrived}
            \subseteq media[pass[p].take] \cup pass[p].todo
       /\ Current(pass[p].gen) => peer.planned[pass[p].take] \subseteq pass[p].owed
  /\ \A p \in Passes : pass[p].at = "told" => manifest[pass[p].take].marked

\* Whether what was loaded of a take is what its manifest says, or was
\* loaded with an error, or is about to be corrected, or the step that was to
\* correct it has raised.
Fresh(t, attention) ==
  \/ attention = Attention(manifest[t]) \/ (attention /\ co.marked # t)
  \/ t \in co.news \cup untold \/ Queued("refresh", t) \/ \E p \in Passes : Holds(p, t) /\ pass[p].at = "told"

ShownHolds ==
  /\ worker.at = "posting" /\ worker.found => Fresh(worker.take, worker.attention)
  /\ \A i \in 1..Len(ui) : ui[i].is = "show" /\ ui[i].found => Fresh(ui[i].take, ui[i].attention)
  /\ co.phase \notin Busy /\ co.last # 0 => Fresh(co.last, co.lastAttention)
  /\ co.phase = "complete" => ~co.lastAttention
  /\ co.phase = "attention" /\ co.last # 0 /\ co.marked = co.last => co.lastAttention
  /\ \A t \in Takes : t \in co.news => co.phase = "finalizing" /\ t = co.take

\* An outcome without errors of a take that was reconciled.
Whole(t, attention) ==
  ~attention /\ co.marked = t => peer.planned[t] \subseteq Attached(manifest[t])

\* A reconciled manifest without open errors has everything that was owed, and
\* so has a take that is about to be shown, or shown, without errors.
OwedHolds ==
  /\ \A t \in Takes : t \in peer.known /\ manifest[t].marked /\ ~manifest[t].open =>
       peer.planned[t] \subseteq Attached(manifest[t])
  /\ \A t \in Takes : t \notin peer.known => peer.planned[t] = {}
  /\ co.take # 0 /\ manifest[co.take].marked => co.take \in peer.known /\ peer.state = "up"
  /\ co.marked # 0 => manifest[co.marked].marked
  /\ co.phase = "complete" /\ co.last # 0 =>
       peer.planned[co.last] \subseteq Attached(manifest[co.last])
  /\ worker.at = "posting" /\ worker.found => Whole(worker.take, worker.attention)
  /\ \A i \in 1..Len(ui) : ui[i].is = "show" /\ ui[i].found => Whole(ui[i].take, ui[i].attention)

IInv ==
  /\ TypeOK /\ SessionHolds /\ EndHolds /\ ValidationHolds /\ NumbersHold /\ PassesHold
  /\ ShownHolds /\ OwedHolds /\ TracksBacked
=============================================================================
