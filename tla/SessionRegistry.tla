-------------------------- MODULE SessionRegistry --------------------------
(***************************************************************************)
(* SessionRegistry of reference_service/webjam_reference/state.py: the     *)
(* bounded in-memory state of the rendezvous and relay service.  Every     *)
(* handler runs to its end on one event loop, so a handler is one action.  *)
(*                                                                         *)
(* A handler that refuses a request without changing anything (a wrong     *)
(* token or generation, a malformed field, an empty rate bucket) has no    *)
(* action; one that has already changed something when it refuses does.    *)
(* Time advances in whole units by Tick.                                   *)
(***************************************************************************)
EXTENDS ReplayWindow, FiniteSets, Sequences, SequencesExt, FiniteSetsExt, Functions, TLC

CONSTANTS
  Ids,              \* opaque session identifiers
  Tokens,           \* host, enrollment and guest credentials
  Principals,       \* approved hosts, known from their TLS certificate
  Endpoints,        \* observed UDP source addresses
  None,
  ControlSequences, \* sequence numbers of control requests,
  DatagramSequences,\* and of datagrams
  Sizes,            \* lengths of sealed payloads
  Ttls,             \* admission lifetimes a host may ask for
  MaxActive, Idle, TombstoneTtl,
  MaxSessions, MaxPerHost, MaxTombstones,
  MaxPerRecipient, MaxSessionBytes, MaxGlobalBytes,
  MaxTime           \* bound of the model on the clock

ASSUME RegistryAssumption ==
  /\ None \notin Tokens \cup Endpoints
  /\ \A n \in {MaxActive, Idle, TombstoneTtl, MaxSessions, MaxPerHost, MaxTombstones,
               MaxPerRecipient, MaxSessionBytes, MaxGlobalBytes} : n \in Nat \ {0}
  /\ Sizes \subseteq Nat \ {0} /\ ControlSequences \cup DatagramSequences \subseteq Nat /\ MaxTime \in Nat
  /\ \A ttl \in Ttls : ttl \in Nat \ {0} /\ ttl <= MaxActive

VARIABLES
  now,         \* the monotonic clock
  session,     \* _sessions: a function on the ids of the live sessions
  order,       \* insertion order of that dictionary
  tombstones,  \* closed and expired ids with their expiry, oldest first
  signalBytes, \* _signal_bytes
  hostCount,   \* _host_session_counts
  closed,      \* the service has shut its registry down
  gone         \* history: when an id was last removed, and how many ids since

vars == <<now, session, order, tombstones, signalBytes, hostCount, closed, gone>>
-----------------------------------------------------------------------------
Roles       == {"host", "guest"}
Planes      == {"control", "datagram"}
Other(role) == IF role = "host" THEN "guest" ELSE "host"
Live        == DOMAIN session

NewSession(h, e, p, ttl) ==
  [host |-> h, guest |-> None, enrollment |-> e, principal |-> p,
   created |-> now, expires |-> now + ttl, active |-> now + MaxActive, last |-> now,
   endpoint |-> [r \in Roles |-> None],
   window |-> [r \in Roles |-> [plane \in Planes |-> NewWindow]],
   queue |-> [r \in Roles |-> <<>>], bytes |-> 0]

\* An unenrolled session lives until its admission deadline, an enrolled one
\* until its active ceiling, and either until it has been idle too long.
Deadline(s)  == IF s.guest = None THEN s.expires ELSE s.active
IsExpired(s) == now >= Deadline(s) \/ now - s.last >= Idle

\* What the queues of a session hold, and what the sessions say they hold.
Size(s)          == FoldSeq(+, 0, s.queue["host"] \o s.queue["guest"])
Queued(live, ids) == MapThenSumSet(LAMBDA id : live[id].bytes, ids)

HasPeer(s, role) == role = "host" \/ s.guest # None
Credentials(s)   == {s.host, s.guest, s.enrollment} \ {None}

\* Mutant: an enrollment credential that is still to be used does not count.
InUseMutant(t, live) == \E id \in DOMAIN live : t \in {live[id].host, live[id].guest}

InUse(t, live) == \E id \in DOMAIN live : t \in Credentials(live[id])
-----------------------------------------------------------------------------
(* _remove, for a sequence of ids.                                         *)

InOrder(ids) == FoldLeft(LAMBDA found, id : IF id \in ids THEN Append(found, id) ELSE found,
                         <<>>, order)

Expired == InOrder({id \in Live : IsExpired(session[id])})

Kept(ids)      == Restrict(session, Live \ ToSet(ids))

\* Mutant: the removed ids keep their place.
KeptOrderMutant(ids) == order

KeptOrder(ids) == InOrder(Live \ ToSet(ids))
HostsAfter(ids) ==
  [p \in Principals |-> hostCount[p] - Quantify(ToSet(ids), LAMBDA id : session[id].principal = p)]

\* Mutant: what a removed session had queued is not released.
BytesAfterMutant(ids) == signalBytes

BytesAfter(ids) == signalBytes - Queued(session, ToSet(ids))

\* Mutant: a full list keeps its oldest tombstones and loses the new ones.
BuriedMutant(ids) ==
  LET all == tombstones
             \o [i \in 1 .. Len(ids) |-> [id |-> ids[i], until |-> now + TombstoneTtl]]
  IN  SubSeq(all, 1, Min({Len(all), MaxTombstones}))

\* Tombstones are appended, and the oldest dropped beyond the bound.
Buried(ids) ==
  LET all == tombstones
             \o [i \in 1 .. Len(ids) |-> [id |-> ids[i], until |-> now + TombstoneTtl]]
  IN  SubSeq(all, Max({1, Len(all) - MaxTombstones + 1}), Len(all))

\* cleanup drops tombstones up to the first that has not expired.
Purged(tombs) ==
  LET kept == {i \in DOMAIN tombs : tombs[i].until > now}
  IN  IF kept = {} THEN <<>> ELSE SubSeq(tombs, Min(kept), Len(tombs))

GoneAfter(ids) ==
  [id \in Ids |->
     IF id \in ToSet(ids)
     THEN [at |-> now, since |-> Min({MaxTombstones,
                                      Len(ids) - SelectInSeq(ids, LAMBDA x : x = id)})]
     ELSE [gone[id] EXCEPT !.since = Min({MaxTombstones, @ + Len(ids)})]]

Drop(ids) ==
  /\ session' = Kept(ids) /\ order' = KeptOrder(ids)
  /\ signalBytes' = BytesAfter(ids) /\ hostCount' = HostsAfter(ids)
  /\ gone' = GoneAfter(ids)
-----------------------------------------------------------------------------
Init ==
  /\ now = 0 /\ session = <<>> /\ order = <<>> /\ tombstones = <<>>
  /\ signalBytes = 0 /\ hostCount = [p \in Principals |-> 0]
  /\ closed = FALSE
  /\ gone = [id \in Ids |-> [at |-> 0, since |-> MaxTombstones]]

Tick ==
  /\ now < MaxTime
  /\ now' = now + 1
  /\ UNCHANGED <<session, order, tombstones, signalBytes, hostCount, closed, gone>>

\* The cleanup task, and the first thing a registration or a diagnosis does.
Cleanup ==
  /\ ~closed
  /\ Drop(Expired)
  /\ tombstones' = Purged(Buried(Expired))
  /\ UNCHANGED <<now, closed>>

\* register: clean up, refuse a live or recently removed id, an id beyond the
\* capacities and a credential any live session holds; otherwise enter it.
Register(id, h, e, p, ttl) ==
  LET dead == Expired
      kept == Kept(dead)
      tombs == Purged(Buried(dead))
  IN
  /\ ~closed
  /\ id \notin DOMAIN kept
  /\ \A i \in DOMAIN tombs : tombs[i].id # id
  /\ Cardinality(DOMAIN kept) < MaxSessions
  /\ HostsAfter(dead)[p] < Min({MaxSessions, MaxPerHost})
  /\ h # e /\ ~InUse(h, kept) /\ ~InUse(e, kept)
  /\ session' = [i \in DOMAIN kept \cup {id} |->
                   IF i = id THEN NewSession(h, e, p, ttl) ELSE kept[i]]
  /\ order' = Append(KeptOrder(dead), id)
  /\ tombstones' = tombs
  /\ signalBytes' = BytesAfter(dead)
  /\ hostCount' = [HostsAfter(dead) EXCEPT ![p] = @ + 1]
  /\ gone' = GoneAfter(dead)
  /\ UNCHANGED <<now, closed>>

\* _live_session and handle_datagram remove the expired session they are asked
\* for, and refuse.
FindExpired(id) ==
  /\ ~closed /\ id \in Live /\ IsExpired(session[id])
  /\ Drop(<<id>>)
  /\ tombstones' = Buried(<<id>>)
  /\ UNCHANGED <<now, closed>>

\* Mutant: an idle session is still found.
FoundMutant(id) == ~closed /\ id \in Live /\ now < Deadline(session[id])

Found(id) == ~closed /\ id \in Live /\ ~IsExpired(session[id])

Update(id, s) ==
  /\ session' = [session EXCEPT ![id] = s]
  /\ UNCHANGED <<now, order, tombstones, hostCount, closed, gone>>

\* enroll consumes the enrollment credential and enters the guest's.
Enroll(id, e, g) ==
  /\ Found(id)
  /\ LET s == session[id] IN
     /\ s.guest = None /\ s.enrollment = e /\ e # None
     /\ g # s.host /\ g # e /\ ~InUse(g, session)
     /\ Update(id, [s EXCEPT !.guest = g, !.enrollment = None, !.last = now])
  /\ UNCHANGED signalBytes

\* _authenticate: the peer's token, then its replay window, which remembers the
\* sequence whatever becomes of the request.
Authentic(id, role, plane, seq) ==
  /\ Found(id) /\ HasPeer(session[id], role)
  /\ Accepts(session[id].window[role][plane], seq)
Heard(s, role, plane, seq) ==
  [s EXCEPT !.window[role][plane] = Accepted(@, seq)]

HasRoom(s, to, size) ==
  /\ Len(s.queue[to]) < MaxPerRecipient
  /\ s.bytes + size <= MaxSessionBytes
  /\ signalBytes + size <= MaxGlobalBytes

PublishSignal(id, role, seq, size) ==
  /\ Authentic(id, role, "control", seq)
  /\ LET s == Heard(session[id], role, "control", seq) IN
     \/ /\ HasRoom(s, Other(role), size)
        /\ Update(id, [s EXCEPT !.queue[Other(role)] = Append(@, size),
                                !.bytes = @ + size, !.last = now])
        /\ signalBytes' = signalBytes + size
     \/ /\ ~HasRoom(s, Other(role), size)
        /\ Update(id, s)
        /\ UNCHANGED signalBytes

PollSignals(id, role, seq) ==
  /\ Authentic(id, role, "control", seq)
  /\ LET s == Heard(session[id], role, "control", seq)
         q == s.queue[role]
         size == IF q = <<>> THEN 0 ELSE Head(q)
     IN
     /\ Update(id, [s EXCEPT !.queue[role] = IF q = <<>> THEN q ELSE Tail(q),
                             !.bytes = @ - size, !.last = now])
     /\ signalBytes' = signalBytes - size

\* Only the host may close.
CloseSession(id, role, seq) ==
  /\ Authentic(id, role, "control", seq)
  /\ \/ /\ role = "host"
        /\ Drop(<<id>>)
        /\ tombstones' = Buried(<<id>>)
        /\ UNCHANGED <<now, closed>>
     \/ /\ role # "host"
        /\ Update(id, Heard(session[id], role, "control", seq))
        /\ UNCHANGED signalBytes

\* The first BIND pins the peer's endpoint.
Bind(id, role, seq, source) ==
  /\ Authentic(id, role, "datagram", seq)
  /\ LET s == Heard(session[id], role, "datagram", seq) IN
     \/ /\ s.endpoint[role] \in {None, source}
        /\ Update(id, [s EXCEPT !.endpoint[role] = source, !.last = now])
     \/ /\ s.endpoint[role] \notin {None, source}
        /\ Update(id, s)
  /\ UNCHANGED signalBytes

\* KEEPALIVE and DATA: only from the pinned endpoint.  DATA without a bound
\* recipient is dropped, but has counted as activity by then.
Relay(id, role, seq, source) ==
  /\ Authentic(id, role, "datagram", seq)
  /\ LET s == Heard(session[id], role, "datagram", seq) IN
     \/ s.endpoint[role] = source /\ Update(id, [s EXCEPT !.last = now])
     \/ s.endpoint[role] # source /\ Update(id, s)
  /\ UNCHANGED signalBytes

\* close: everything goes, without tombstones; the service does not come back.
Close ==
  /\ ~closed
  /\ Drop(order)
  /\ tombstones' = <<>>
  /\ closed' = TRUE
  /\ UNCHANGED now

Control(id) ==
  \E role \in Roles, seq \in ControlSequences :
    \/ \E size \in Sizes : PublishSignal(id, role, seq, size)
    \/ PollSignals(id, role, seq)
    \/ CloseSession(id, role, seq)

Datagram(id) ==
  \E role \in Roles, seq \in DatagramSequences, source \in Endpoints :
    Bind(id, role, seq, source) \/ Relay(id, role, seq, source)

Next ==
  \/ Tick \/ Cleanup \/ Close
  \/ \E id \in Ids :
       \/ FindExpired(id) \/ Control(id) \/ Datagram(id)
       \/ \E h, e \in Tokens, p \in Principals, ttl \in Ttls : Register(id, h, e, p, ttl)
       \/ \E e, g \in Tokens : Enroll(id, e, g)

Spec == Init /\ [][Next]_vars
-----------------------------------------------------------------------------
Session ==
  [host : Tokens, guest : Tokens \cup {None}, enrollment : Tokens \cup {None},
   principal : Principals, created : Nat, expires : Nat, active : Nat, last : Nat,
   endpoint : [Roles -> Endpoints \cup {None}],
   window : [Roles -> [Planes -> Window]],
   queue : [Roles -> Seq(Sizes)], bytes : Nat]

TypeOK ==
  /\ now \in 0 .. MaxTime /\ closed \in BOOLEAN
  /\ Live \subseteq Ids /\ session \in [Live -> Session]
  /\ order \in Seq(Ids) /\ ToSet(order) = Live /\ Len(order) = Cardinality(Live)
  /\ tombstones \in Seq([id : Ids, until : Nat])
  /\ signalBytes \in Nat /\ hostCount \in [Principals -> Nat]
  /\ gone \in [Ids -> [at : Nat, since : 0 .. MaxTombstones]]

\* The counters the admission checks read are what the sessions add up to,
\* through every refusal, expiry, close and shutdown, and within their bounds.
Accounting ==
  /\ signalBytes = Queued(session, Live)
  /\ \A id \in Live : session[id].bytes = Size(session[id])
  /\ \A p \in Principals :
       hostCount[p] = Cardinality({id \in Live : session[id].principal = p})
  /\ signalBytes <= MaxGlobalBytes /\ Cardinality(Live) <= MaxSessions
  /\ \A p \in Principals : hostCount[p] <= MaxPerHost

\* No credential opens two doors: it is held by one session, in one role.
OneDoor ==
  /\ \A i, j \in Live : i # j => Credentials(session[i]) \cap Credentials(session[j]) = {}
  /\ \A id \in Live : LET s == session[id] IN
       s.host \notin {s.guest, s.enrollment} /\ (s.guest # None => s.enrollment = None)

\* Until its tombstone has expired or MaxTombstones later removals have pushed
\* it out, a removed session's id is not registered again.
NoEarlyReuse ==
  [][\A id \in DOMAIN session' :
       id \notin Live \/ session'[id].created # session[id].created =>
         now >= gone'[id].at + TombstoneTtl \/ gone'[id].since >= MaxTombstones]_vars

\* A session is used, enrolled or refreshed only before its deadline and before
\* it has been idle too long; no activity moves its deadlines, and its host,
\* once its guest, and once pinned its endpoints, never change.
UsedInTime ==
  [][\A id \in Live \cap DOMAIN session' :
       LET s == session[id]  t == session'[id] IN
       s # t /\ t.created = s.created /\ t.host = s.host =>
         /\ now < Deadline(s) /\ now - s.last < Idle
         /\ t.expires = s.expires /\ t.active = s.active
         /\ s.guest # None => t.guest = s.guest
         /\ \A r \in Roles : s.endpoint[r] \in {None, t.endpoint[r]}]_vars
-----------------------------------------------------------------------------
(* Why the above hold.                                                     *)

\* A removed id that may not be registered again has its tombstone, as far
\* from the end of the list as there were removals after its own.
RememberedIn(live, tombs, removed) ==
  \A id \in Ids \ live :
    \/ now >= removed[id].at + TombstoneTtl
    \/ removed[id].since >= MaxTombstones
    \/ LET i == Len(tombs) - removed[id].since IN
       /\ i \in DOMAIN tombs
       /\ tombs[i] = [id |-> id, until |-> removed[id].at + TombstoneTtl]

Remembered == ~closed => RememberedIn(Live, tombstones, gone)

\* No session is expired in the instant that it is registered.
Aged ==
  \A id \in Live : LET s == session[id] IN
    /\ s.created <= s.last /\ s.last <= now
    /\ s.created < s.expires /\ s.created < s.active

\* The inductive invariant: the counters and the tombstones are what the
\* sessions and the removals of the past make them.
IInv == TypeOK /\ OneDoor /\ Accounting /\ Remembered /\ Aged
=============================================================================
