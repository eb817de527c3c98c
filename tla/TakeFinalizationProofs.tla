----------------------- MODULE TakeFinalizationProofs -----------------------
(***************************************************************************)
(* The theorems of TakeFinalization, for any number of guests, takes,      *)
(* sessions and faults.  The invariant is proved part by part; each lemma  *)
(* goes through the steps of Next.                                         *)
(***************************************************************************)
EXTENDS TakeFinalizationInv, TLAPS

LEMMA Bounds == MaxTakes \in Nat /\ MaxSessions \in Nat /\ MaxFaults \in Nat
  BY FinalizationAssumption DEF FinalizationAssumption

\* The queue of the UI thread: what is put in is its last, what is taken out
\* was its first.
LEMMA Put ==
  ASSUME NEW q \in Seq(Events), NEW e \in Events, NEW r, r = Append(q, e)
  PROVE  /\ r \in Seq(Events) /\ Len(r) = Len(q) + 1 /\ r[Len(r)] = e /\ r # <<>>
         /\ \A i \in 1..Len(q) : r[i] = q[i]
         /\ \A i \in 1..Len(r) : i \in 1..Len(q) \/ i = Len(r)
  OBVIOUS

LEMMA Taken ==
  ASSUME NEW q \in Seq(Events), q # <<>>, NEW r, r = Tail(q)
  PROVE  /\ r \in Seq(Events) /\ Len(r) = Len(q) - 1 /\ Len(q) \in Nat \ {0}
         /\ Head(q) = q[1] /\ q[1] \in Events
         /\ \A i \in 1..Len(r) : r[i] = q[i + 1] /\ i + 1 \in 2..Len(q)
         /\ Len(q) = 1 => r = <<>>
  OBVIOUS
-----------------------------------------------------------------------------
(* Types.                                                                  *)

LEMMA ManifestTypes ==
  /\ NoManifest \in Manifests /\ NoManifest.rev = 0 /\ NoManifest.seen \in [Guests -> Originals]
  /\ \A base \in BOOLEAN : Validated(base) \in Manifests
  /\ \A m \in Manifests : Noted(m) \in Manifests /\ [m EXCEPT !.rev = @ + 1] \in Manifests
<1>1. NoManifest \in Manifests /\ NoManifest.rev = 0 /\ NoManifest.seen \in [Guests -> Originals]
  BY DEF NoManifest, Manifests, Originals, Timings
<1>2. ASSUME NEW m \in Manifests, NEW n \in Nat, NEW b \in BOOLEAN
      PROVE  [m EXCEPT !.rev = n, !.base = b] \in Manifests /\ [m EXCEPT !.rev = n, !.open = b] \in Manifests
  BY DEF Manifests
<1>3. ASSUME NEW m \in Manifests
      PROVE  m.rev + 1 \in Nat /\ [m EXCEPT !.rev = @ + 1] \in Manifests
  BY DEF Manifests
<1>4. ASSUME NEW base \in BOOLEAN
      PROVE  Validated(base) \in Manifests
  BY <1>1, <1>2 DEF Validated
<1>5. ASSUME NEW m \in Manifests
      PROVE  Noted(m) \in Manifests
  BY <1>2, <1>3 DEF Noted
<1> QED
  BY <1>1, <1>3, <1>4, <1>5

\* What a pass makes of m.
LEMMA ReconciledIs ==
  ASSUME NEW m \in Manifests, NEW owed \in SUBSET Guests, NEW inv \in [Guests -> Originals],
         NEW issue \in BOOLEAN, NEW n \in Reconciled(m, owed, inv, issue)
  PROVE  /\ n \in Manifests /\ n.rev = m.rev /\ n.marked /\ n.base = m.base
         /\ n.open = Missing(owed, inv, issue)
         /\ \A g \in Guests : n.timing[g] \in TimingsAfter(m.timing[g], inv[g])
<1>1. PICK timing \in {t \in [Guests -> Timings] :
                   \A g \in Guests : t[g] \in TimingsAfter(m.timing[g], inv[g])} :
        n = [m EXCEPT !.open = Missing(owed, inv, issue), !.marked = TRUE,
             !.listed = Listed(owed, inv), !.seen = inv, !.timing = timing]
  BY DEF Reconciled
<1>2. timing \in [Guests -> Timings] /\ \A g \in Guests : timing[g] \in TimingsAfter(m.timing[g], inv[g])
  BY <1>1
<1>3. Missing(owed, inv, issue) \in BOOLEAN /\ Listed(owed, inv) \in SUBSET Guests
  BY DEF Missing, Listed
<1> QED
  BY <1>1, <1>2, <1>3 DEF Manifests

\* What start and stop clear, and what any call of Widen may do.
LEMMA ClearedType ==
  ASSUME NEW r \in Sessions
  PROVE  /\ Cleared(r) \in Sessions
         /\ Cleared(r).state = r.state /\ Cleared(r).gen = r.gen
         /\ Cleared(r).known = {} /\ Cleared(r).registered = {}
         /\ Cleared(r).planned = [t \in Takes |-> {}]
  BY DEF Cleared, Sessions

LEMMA FrozenEffect ==
  ASSUME NEW r \in Sessions, NEW t \in Takes, NEW s \in Frozen(r, t)
  PROVE  /\ s \in Sessions
         /\ s.state = r.state /\ s.gen = r.gen /\ s.registered = r.registered
         /\ s.known = r.known \cup {t}
         /\ \A u \in Takes : u # t \/ t \in r.known => s.planned[u] = r.planned[u]
<1>1. CASE t \in r.known
  BY <1>1 DEF Frozen, Sessions
<1>2. CASE t \notin r.known
  <2>1. PICK plan \in SUBSET Guests :
          s = [r EXCEPT !.known = @ \cup {t}, !.planned[t] = plan, !.expected[t] = plan]
    BY <1>2 DEF Frozen
  <2> QED
    BY <1>2, <2>1 DEF Sessions
<1> QED
  BY <1>1, <1>2

LEMMA FrozeEffect ==
  ASSUME NEW r \in Sessions, NEW t \in Takes, Froze(r, t)
  PROVE  /\ peer' \in Sessions
         /\ peer'.state = r.state /\ peer'.gen = r.gen /\ peer'.registered = r.registered
         /\ r.state = "down" => peer' = r
         /\ r.state # "down" => peer'.known = r.known \cup {t}
         /\ \A u \in Takes : u # t \/ t \in r.known => peer'.planned[u] = r.planned[u]
<1>1. CASE r.state = "down"
  BY <1>1 DEF Froze
<1>2. CASE r.state # "down"
  BY <1>2, FrozenEffect DEF Froze
<1> QED
  BY <1>1, <1>2

LEMMA WidenEffect ==
  ASSUME NEW r \in Sessions, NEW t \in Takes, faults \in Nat, Widen(r, t) \/ (Froze(r, t) /\ Fault)
  PROVE  /\ peer' \in Sessions /\ faults' \in Nat
         /\ peer'.state = r.state /\ peer'.gen = r.gen /\ peer'.registered = r.registered
         /\ r.state = "down" => peer' = r
         /\ r.state # "down" => peer'.known = r.known \cup {t}
         /\ \A u \in Takes : u # t \/ t \in r.known => peer'.planned[u] = r.planned[u]
<1>1. CASE Froze(r, t) /\ (UNCHANGED faults \/ Fault)
  <2>1. faults' \in Nat
    BY <1>1 DEF Fault
  <2> QED
    BY <1>1, <2>1, FrozeEffect
<1>3. CASE r.state # "down" /\ Fault /\ \E s \in Frozen(r, t), present \in SUBSET Guests, amiss \in BOOLEAN :
             peer' = [s EXCEPT !.expected[t] = @ \cup present, !.issue[t] = @ \/ amiss]
  <2>1. PICK s \in Frozen(r, t), present \in SUBSET Guests, amiss \in BOOLEAN :
          peer' = [s EXCEPT !.expected[t] = @ \cup present, !.issue[t] = @ \/ amiss]
    BY <1>3
  <2>2. faults' \in Nat
    BY <1>3 DEF Fault
  <2>3. s \in Sessions
    BY FrozenEffect
  <2>4. /\ peer' \in Sessions /\ peer'.state = s.state /\ peer'.gen = s.gen /\ peer'.registered = s.registered
        /\ peer'.known = s.known /\ peer'.planned = s.planned
    BY <2>1, <2>3 DEF Sessions
  <2> QED
    BY <1>3, <2>2, <2>4, FrozenEffect
<1> QED
  BY <1>1, <1>3 DEF Widen

\* The variables that do not change their type in the steps of a thread.
LEMMA Parts ==
  ASSUME IInv
  PROVE  /\ TypeOK /\ SessionHolds /\ EndHolds /\ ValidationHolds /\ NumbersHold
         /\ PassesHold /\ ShownHolds /\ OwedHolds /\ TracksBacked
  BY DEF IInv

\* The take of the worker.
LEMMA WorkersTake ==
  ASSUME IInv, worker.at # "rest"
  PROVE  worker.take \in Takes /\ worker.take = co.take /\ co.take = co.number /\ co.last < co.take
<1>1. worker.take = co.take /\ co.take = co.number /\ co.last < co.number
  BY DEF IInv, ValidationHolds, NumbersHold, Busy
<1> QED
  BY <1>1, Bounds DEF IInv, TypeOK, CoStates, Takes

LEMMA PassKinds == \A p \in Passes : p = "maintenance" \/ p = "validation"
  BY DEF Passes

\* A constant of the model.
LEMMA ConstantTypes ==
  /\ NoPass \in PassStates /\ NoWork \in Workers
  /\ \A how \in {"done", "failed"} : [NoPass EXCEPT !.at = how] \in PassStates
  /\ \A t \in Takes : Called(t) \in PassStates /\ Called(t).take = t /\ Called(t).at = "called"
  /\ \A gen \in Generations : [NoThread EXCEPT !.alive = TRUE, !.gen = gen] \in [alive: BOOLEAN, gen: Generations, todo: SUBSET Takes]
  /\ NoThread \in [alive: BOOLEAN, gen: Generations, todo: SUBSET Takes]
<1>1. 0 \in Generations /\ 0 \in 0..MaxTakes /\ Takes \subseteq 0..MaxTakes /\ 0 \in 0..3 /\ 3 \in 0..3
  BY Bounds DEF Generations, Takes
<1>2. NoPass \in PassStates
  BY <1>1, ManifestTypes DEF NoPass, PassStates
<1>3. NoWork \in Workers
  BY <1>1, ManifestTypes DEF NoWork, Workers
<1>4. ASSUME NEW how \in {"done", "failed"}
      PROVE  [NoPass EXCEPT !.at = how] \in PassStates
  BY <1>2 DEF PassStates
<1>5. ASSUME NEW t \in Takes
      PROVE  Called(t) \in PassStates /\ Called(t).take = t /\ Called(t).at = "called"
  <2>1. t \in 0..MaxTakes
    BY <1>1
  <2> QED
    BY <1>1, <1>2, <2>1 DEF Called, PassStates
<1>6. ASSUME NEW gen \in Generations
      PROVE  [NoThread EXCEPT !.alive = TRUE, !.gen = gen] \in [alive: BOOLEAN, gen: Generations, todo: SUBSET Takes]
  BY DEF NoThread
<1>7. NoThread \in [alive: BOOLEAN, gen: Generations, todo: SUBSET Takes]
  BY <1>1 DEF NoThread
<1> QED
  BY <1>2, <1>3, <1>4, <1>5, <1>6, <1>7

LEMMA BecomeEffect ==
  ASSUME TypeOK, NEW p \in Passes, NEW r \in PassStates, Become(p, r)
  PROVE  /\ pass' \in [Passes -> PassStates] /\ pass'[p] = r
         /\ \A q \in Passes : q # p => pass'[q] = pass[q]
  BY DEF TypeOK, Become

\* The end of a pass.
LEMMA EndsEffect ==
  ASSUME TypeOK, NEW p \in Passes, NEW how \in {"done", "failed"}, Ends(p, how)
  PROVE  /\ pass' \in [Passes -> PassStates]
         /\ pass'[p].at = IF p = "maintenance" THEN "rest" ELSE how
         /\ \A q \in Passes : q # p => pass'[q] = pass[q]
<1> DEFINE r == IF p = "maintenance" THEN NoPass ELSE [NoPass EXCEPT !.at = how]
<1>1. Become(p, r)
  BY DEF Ends
<1>2. NoPass.at = "rest" /\ [NoPass EXCEPT !.at = how].at = how
  BY DEF NoPass
<1>3. r \in PassStates
  BY ConstantTypes
<1>4. r.at = IF p = "maintenance" THEN "rest" ELSE how
  BY <1>2
<1> HIDE DEF r
<1> QED
  BY <1>1, <1>3, <1>4, BecomeEffect

\* The steps of a pass change what it knows in these ways only.
LEMMA PassReadsEffect ==
  ASSUME IInv, NEW p \in Passes, Going(p), PassReads(p)
  PROVE  /\ pass' \in [Passes -> PassStates]
         /\ \A q \in Passes : q # p => pass'[q] = pass[q]
         /\ \/ pass'[p].at = (IF p = "maintenance" THEN "rest" ELSE "done")
            \/ LET t == pass[p].take
               IN /\ Current(Generation(p)) /\ manifest[t].rev > 0
                  /\ pass'[p].at = "attaching" /\ pass'[p].take = t /\ t \in Takes
                  /\ pass'[p].gen = Generation(p) /\ pass'[p].seen = manifest[t]
                  /\ pass'[p].inv = store[t] /\ pass'[p].owed = Owed(t)
                  /\ pass'[p].todo = {g \in Guests : store[t][g] \in Arrived}
         /\ UNCHANGED <<co, ui, worker, peer, loop, stop, store, manifest, media, untold, faults>>
<1> DEFINE t == pass[p].take
           r == [pass[p] EXCEPT
               !.at = "attaching", !.gen = Generation(p), !.seen = manifest[t],
               !.inv = store[t], !.owed = Owed(t), !.issue = peer.issue[t],
               !.todo = {g \in Guests : store[t][g] \in Arrived}]
<1>1. t \in Takes /\ TypeOK
  BY DEF IInv, PassesHold
<1>2. CASE Current(Generation(p)) /\ manifest[t].rev > 0
  <2>1. Become(p, r)
    BY <1>2 DEF PassReads
  <2>2. /\ Generation(p) \in Generations /\ manifest[t] \in Manifests /\ store[t] \in [Guests -> Originals]
        /\ Owed(t) \in SUBSET Guests /\ peer.issue[t] \in BOOLEAN
        /\ {g \in Guests : store[t][g] \in Arrived} \in SUBSET Guests /\ pass[p] \in PassStates
    BY <1>1 DEF TypeOK, Generation, Owed, Sessions
  <2>3. r \in PassStates
    BY <2>2 DEF PassStates
  <2>5. /\ r.at = "attaching" /\ r.take = t /\ r.gen = Generation(p) /\ r.seen = manifest[t]
        /\ r.inv = store[t] /\ r.owed = Owed(t) /\ r.todo = {g \in Guests : store[t][g] \in Arrived}
    BY <2>2 DEF PassStates
  <2> HIDE DEF r
  <2>4. pass' \in [Passes -> PassStates] /\ pass'[p] = r /\ \A q \in Passes : q # p => pass'[q] = pass[q]
    BY <1>1, <2>1, <2>3, BecomeEffect
  <2> QED
    BY <1>1, <1>2, <2>4, <2>5 DEF PassReads
<1>3. CASE ~(Current(Generation(p)) /\ manifest[t].rev > 0)
  <2>1. Ends(p, "done")
    BY <1>3 DEF PassReads
  <2> QED
    BY <1>1, <2>1, EndsEffect DEF PassReads
<1> QED
  BY <1>2, <1>3

LEMMA PassAttachesEffect ==
  ASSUME IInv, NEW p \in Passes, NEW g \in Guests, PassAttaches(p, g)
  PROVE  /\ pass' \in [Passes -> PassStates] /\ faults' \in Nat
         /\ \A q \in Passes : q # p => pass'[q] = pass[q]
         /\ pass[p].at = "attaching" /\ pass[p].take \in Takes
         /\ \/ /\ Current(pass[p].gen)
               /\ media' = [media EXCEPT ![pass[p].take] = @ \cup {g}]
               /\ pass'[p].at = "attaching" /\ pass'[p].todo = pass[p].todo \ {g}
               /\ pass'[p].take = pass[p].take /\ pass'[p].gen = pass[p].gen /\ pass'[p].seen = pass[p].seen
               /\ pass'[p].inv = pass[p].inv /\ pass'[p].owed = pass[p].owed
               /\ UNCHANGED faults
            \/ /\ pass'[p].at \in (IF p = "maintenance" THEN {"rest"} ELSE {"done", "failed"})
               /\ UNCHANGED media
         /\ UNCHANGED <<co, ui, worker, peer, loop, stop, store, manifest, untold>>
<1>1. TypeOK /\ pass[p] \in PassStates /\ pass[p].at = "attaching" /\ pass[p].take \in Takes
  BY DEF IInv, TypeOK, PassesHold, Going, PassAttaches
<1>2. CASE /\ Current(pass[p].gen)
           /\ media' = [media EXCEPT ![pass[p].take] = @ \cup {g}]
           /\ Become(p, [pass[p] EXCEPT !.todo = @ \ {g}])
           /\ UNCHANGED faults
  <2>1. [pass[p] EXCEPT !.todo = @ \ {g}] \in PassStates
    BY <1>1 DEF PassStates
  <2>2. /\ pass' \in [Passes -> PassStates] /\ pass'[p] = [pass[p] EXCEPT !.todo = @ \ {g}]
        /\ \A q \in Passes : q # p => pass'[q] = pass[q]
    BY <1>1, <1>2, <2>1, BecomeEffect
  <2>3. /\ pass'[p].at = "attaching" /\ pass'[p].todo = pass[p].todo \ {g}
        /\ pass'[p].take = pass[p].take /\ pass'[p].gen = pass[p].gen /\ pass'[p].seen = pass[p].seen
        /\ pass'[p].inv = pass[p].inv /\ pass'[p].owed = pass[p].owed
    BY <1>1, <2>2 DEF PassStates
  <2> QED
    BY <1>1, <1>2, <2>2, <2>3 DEF PassAttaches, TypeOK
<1>3. CASE ~Current(pass[p].gen) /\ Ends(p, "done") /\ UNCHANGED <<media, faults>>
  BY <1>1, <1>3, EndsEffect DEF PassAttaches, TypeOK
<1>4. CASE Fault /\ Ends(p, "failed") /\ UNCHANGED media
  <2>1. faults' \in Nat
    BY <1>1, <1>4 DEF Fault, TypeOK
  <2> QED
    BY <1>1, <1>4, <2>1, EndsEffect DEF PassAttaches
<1> QED
  BY <1>2, <1>3, <1>4 DEF PassAttaches

\* A pass publishes, goes on, or ends without a change.
LEMMA PassPublishesEffect ==
  ASSUME IInv, NEW p \in Passes, PassPublishes(p)
  PROVE  LET r == pass[p]
             t == r.take
         IN /\ pass' \in [Passes -> PassStates] /\ faults' \in Nat
            /\ \A q \in Passes : q # p => pass'[q] = pass[q]
            /\ r.at = "attaching" /\ r.todo = {} /\ t \in Takes /\ r \in PassStates
            /\ \/ /\ pass'[p].at \in (IF p = "maintenance" THEN {"rest"} ELSE {"done", "failed"})
                  /\ UNCHANGED <<manifest, untold>>
               \/ pass'[p].at = "again" /\ pass'[p].take = t /\ UNCHANGED <<manifest, untold>>
               \/ /\ Current(r.gen) /\ manifest[t] = r.seen
                  /\ \E n \in Reconciled(r.seen, r.owed, r.inv, r.issue) :
                       manifest' = [manifest EXCEPT ![t] = [n EXCEPT !.rev = @ + 1]]
                  /\ \/ pass'[p].at = "told" /\ pass'[p].take = t /\ untold' = untold \ {t}
                     \/ /\ pass'[p].at = IF p = "maintenance" THEN "rest" ELSE "failed"
                        /\ untold' = untold \cup {t}
            /\ UNCHANGED <<co, ui, worker, peer, loop, stop, store, media>>
<1> DEFINE r == pass[p]
           t == r.take
           replaced == /\ Current(r.gen) /\ Unchanged(t, r.seen)
                       /\ \E n \in Reconciled(r.seen, r.owed, r.inv, r.issue) :
                            manifest' = [manifest EXCEPT ![t] = [n EXCEPT !.rev = @ + 1]]
<1>1. TypeOK /\ r \in PassStates /\ r.at = "attaching" /\ t \in Takes /\ r.todo = {} /\ faults \in Nat
  BY DEF IInv, TypeOK, PassesHold, Going, PassPublishes
<1>2. ASSUME NEW how \in {"done", "failed"}, Ends(p, how)
      PROVE  /\ pass' \in [Passes -> PassStates]
             /\ pass'[p].at = IF p = "maintenance" THEN "rest" ELSE how
             /\ \A q \in Passes : q # p => pass'[q] = pass[q]
  BY <1>1, <1>2, EndsEffect
<1>3. CASE (Ends(p, "done") \/ Ends(p, "failed")) /\ UNCHANGED <<manifest, untold>> /\ faults' \in Nat
  <2>1. /\ pass' \in [Passes -> PassStates]
        /\ pass'[p].at \in (IF p = "maintenance" THEN {"rest"} ELSE {"done", "failed"})
        /\ \A q \in Passes : q # p => pass'[q] = pass[q]
    BY <1>2, <1>3
  <2> QED
    BY <1>1, <1>3, <2>1 DEF PassPublishes
<1>4. CASE Current(r.gen) /\ ~Unchanged(t, r.seen) /\ PassAgain(p) /\ UNCHANGED <<manifest, untold, faults>>
  <2>1. CASE r.left > 1
    <3>1. Become(p, [Called(t) EXCEPT !.at = "again", !.left = r.left - 1])
      BY <1>4, <2>1 DEF PassAgain
    <3>2. r.left - 1 \in 0..3
      BY <1>1, <2>1 DEF PassStates
    <3>3. Called(t) \in PassStates /\ Called(t).take = t
      BY <1>1, ConstantTypes
    <3>4. /\ [Called(t) EXCEPT !.at = "again", !.left = r.left - 1] \in PassStates
          /\ [Called(t) EXCEPT !.at = "again", !.left = r.left - 1].at = "again"
          /\ [Called(t) EXCEPT !.at = "again", !.left = r.left - 1].take = t
      BY <3>2, <3>3 DEF PassStates
    <3> QED
      BY <1>1, <1>4, <3>1, <3>4, BecomeEffect DEF PassPublishes
  <2>2. CASE ~(r.left > 1)
    BY <1>1, <1>3, <1>4, <2>2 DEF PassAgain
  <2> QED
    BY <2>1, <2>2
<1>5. CASE replaced /\ At(p, "told") /\ untold' = untold \ {t} /\ UNCHANGED faults
  <2>1. [r EXCEPT !.at = "told"] \in PassStates /\ [r EXCEPT !.at = "told"].at = "told" /\ [r EXCEPT !.at = "told"].take = t
    BY <1>1 DEF PassStates
  <2>2. Become(p, [r EXCEPT !.at = "told"])
    BY <1>5 DEF At
  <2>3. /\ pass' \in [Passes -> PassStates] /\ pass'[p].at = "told" /\ pass'[p].take = t
        /\ \A q \in Passes : q # p => pass'[q] = pass[q]
    BY <1>1, <2>1, <2>2, BecomeEffect
  <2> QED
    BY <1>1, <1>5, <2>3 DEF PassPublishes, Unchanged
<1>6. CASE replaced /\ Ends(p, "failed") /\ untold' = untold \cup {t} /\ Fault
  <2>1. faults' \in Nat
    BY <1>1, <1>6 DEF Fault
  <2> QED
    BY <1>1, <1>2, <1>6, <2>1 DEF PassPublishes, Unchanged
<1>7. CASE Fault /\ Ends(p, "failed") /\ UNCHANGED <<manifest, untold>>
  <2>1. faults' \in Nat
    BY <1>1, <1>7 DEF Fault
  <2> QED
    BY <1>3, <1>7, <2>1
<1>8. \/ Ends(p, "done") /\ UNCHANGED <<manifest, untold, faults>>
      \/ Current(r.gen) /\ ~Unchanged(t, r.seen) /\ PassAgain(p) /\ UNCHANGED <<manifest, untold, faults>>
      \/ replaced /\ At(p, "told") /\ untold' = untold \ {t} /\ UNCHANGED faults
      \/ replaced /\ Ends(p, "failed") /\ untold' = untold \cup {t} /\ Fault
      \/ Fault /\ Ends(p, "failed") /\ UNCHANGED <<manifest, untold>>
  BY DEF PassPublishes
<1> QED
  BY <1>1, <1>3, <1>4, <1>5, <1>6, <1>7, <1>8

\* What is put in the queue.
LEMMA EventTypes ==
  /\ \A t \in Takes : [is |-> "refresh", take |-> t, found |-> TRUE, attention |-> FALSE] \in Events
  /\ \A t \in Takes, found, attention \in BOOLEAN :
       [is |-> "show", take |-> t, found |-> found, attention |-> attention] \in Events
  /\ \A is \in {"ended", "retry"} : [is |-> is, take |-> 0, found |-> FALSE, attention |-> FALSE] \in Events
  BY DEF Events

LEMMA PassTellsEffect ==
  ASSUME IInv, NEW p \in Passes, PassTells(p)
  PROVE  /\ pass' \in [Passes -> PassStates] /\ pass[p].at = "told" /\ pass[p].take \in Takes
         /\ \A q \in Passes : q # p => pass'[q] = pass[q]
         /\ pass'[p].at = (IF p = "maintenance" THEN "rest" ELSE "done")
         /\ ui' \in Seq(Events) /\ Len(ui') = Len(ui) + 1 /\ ui' # <<>>
         /\ ui'[Len(ui')] = [is |-> "refresh", take |-> pass[p].take, found |-> TRUE, attention |-> FALSE]
         /\ \A i \in 1..Len(ui) : ui'[i] = ui[i]
         /\ \A i \in 1..Len(ui') : i \in 1..Len(ui) \/ i = Len(ui')
         /\ UNCHANGED <<co, worker, peer, loop, stop, store, manifest, media, untold, faults>>
<1>1. TypeOK /\ pass[p].at = "told" /\ pass[p].take \in Takes /\ ui \in Seq(Events)
  BY DEF IInv, TypeOK, PassesHold, Going, PassTells
<1>2. [is |-> "refresh", take |-> pass[p].take, found |-> TRUE, attention |-> FALSE] \in Events
  BY <1>1, EventTypes
<1>3. Ends(p, "done") /\ ui' = Append(ui, [is |-> "refresh", take |-> pass[p].take, found |-> TRUE, attention |-> FALSE])
  BY DEF PassTells
<1> QED
  BY <1>1, <1>2, <1>3, EndsEffect, Put DEF PassTells

\* The three kinds of steps that put an event in the queue or take one out.
LEMMA QueuePut ==
  ASSUME ui \in Seq(Events), NEW e \in Events, ui' = Append(ui, e)
  PROVE  /\ ui' \in Seq(Events) /\ Len(ui') = Len(ui) + 1 /\ ui' # <<>> /\ ui'[Len(ui')] = e
         /\ \A i \in 1..Len(ui) : ui'[i] = ui[i] /\ i \in 1..Len(ui')
         /\ \A i \in 1..Len(ui') : i \in 1..Len(ui) \/ i = Len(ui')
         /\ \A is, t : Queued(is, t)' <=> Queued(is, t) \/ (e.is = is /\ e.take = t)
         /\ EndQueued' <=> EndQueued \/ IsEnd(e)
<1>1. /\ ui' \in Seq(Events) /\ Len(ui') = Len(ui) + 1 /\ ui'[Len(ui')] = e /\ ui' # <<>>
      /\ \A i \in 1..Len(ui) : ui'[i] = ui[i]
      /\ \A i \in 1..Len(ui') : i \in 1..Len(ui) \/ i = Len(ui')
  BY Put
<1>2. \A i \in 1..Len(ui) : i \in 1..Len(ui')
  BY <1>1
<1>3. Len(ui') \in 1..Len(ui')
  BY <1>1
<1> QED
  BY <1>1, <1>2, <1>3 DEF Queued, EndQueued, IsEnd

LEMMA QueueTaken ==
  ASSUME ui \in Seq(Events), ui # <<>>, ui' = Tail(ui)
  PROVE  /\ ui' \in Seq(Events) /\ Head(ui) = ui[1] /\ ui[1] \in Events /\ 1 \in 1..Len(ui)
         /\ Len(ui') = Len(ui) - 1 /\ Len(ui) \in Nat /\ Len(ui') \in Nat
         /\ \A i \in 1..Len(ui') : ui'[i] = ui[i + 1] /\ i + 1 \in 1..Len(ui) /\ i + 1 # 1
         /\ Len(ui) = 1 => ui' = <<>>
         /\ \A is, t : Queued(is, t)' => Queued(is, t)
         /\ \A is, t : Queued(is, t) => Queued(is, t)' \/ (ui[1].is = is /\ ui[1].take = t)
         /\ EndQueued' => EndQueued
         /\ IsEnd(ui[1]) => EndQueued
<1>1. /\ ui' \in Seq(Events) /\ Len(ui') = Len(ui) - 1 /\ Len(ui) \in Nat \ {0}
      /\ Head(ui) = ui[1] /\ ui[1] \in Events
      /\ \A i \in 1..Len(ui') : ui'[i] = ui[i + 1] /\ i + 1 \in 2..Len(ui)
      /\ Len(ui) = 1 => ui' = <<>>
  BY Taken
<1>2. \A i \in 1..Len(ui') : ui'[i] = ui[i + 1] /\ i + 1 \in 1..Len(ui) /\ i + 1 # 1
  BY <1>1
<1>3. 1 \in 1..Len(ui) /\ Len(ui') \in Nat
  BY <1>1
<1>4. ASSUME NEW i \in 1..Len(ui), i # 1
      PROVE  i - 1 \in 1..Len(ui') /\ ui'[i - 1] = ui[i]
  <2>1. i - 1 \in 1..Len(ui')
    BY <1>1, <1>4
  <2>2. ui'[i - 1] = ui[(i - 1) + 1] /\ (i - 1) + 1 = i
    BY <1>1, <2>1
  <2> QED
    BY <2>1, <2>2
<1>5. ASSUME NEW is, NEW t
      PROVE  /\ Queued(is, t)' => Queued(is, t)
             /\ Queued(is, t) => Queued(is, t)' \/ (ui[1].is = is /\ ui[1].take = t)
  <2>1. Queued(is, t)' => Queued(is, t)
    BY <1>2 DEF Queued
  <2>2. Queued(is, t) => Queued(is, t)' \/ (ui[1].is = is /\ ui[1].take = t)
    BY <1>4 DEF Queued
  <2> QED
    BY <2>1, <2>2
<1>6. EndQueued' => EndQueued
  BY <1>2 DEF EndQueued, IsEnd
<1>7. IsEnd(ui[1]) => EndQueued
  BY <1>3 DEF EndQueued
<1> QED
  BY <1>1, <1>2, <1>3, <1>5, <1>6, <1>7

\* What a call of Widen does to the session, which may register t before it.
Widened(t) ==
  /\ peer' \in Sessions /\ faults' \in Nat
  /\ peer'.state = peer.state /\ peer'.gen = peer.gen
  /\ peer'.registered \in {peer.registered, peer.registered \cup {t}}
  /\ peer.state = "down" => peer' = peer
  /\ peer.state # "down" => peer'.known = peer.known \cup {t}
  /\ \A u \in Takes : u # t \/ t \in peer.known => peer'.planned[u] = peer.planned[u]

LEMMA Widens ==
  ASSUME TypeOK, NEW t \in Takes, NEW r, r = peer \/ (Active /\ r = [peer EXCEPT !.registered = @ \cup {t}]),
         Widen(r, t) \/ (Froze(r, t) /\ Fault)
  PROVE  Widened(t)
<1>1. peer \in Sessions /\ faults \in Nat
  BY DEF TypeOK
<1>2. CASE r = peer
  BY <1>1, <1>2, WidenEffect DEF Widened
<1>3. CASE Active /\ r = [peer EXCEPT !.registered = @ \cup {t}]
  <2>1. /\ r \in Sessions /\ r.state = peer.state /\ r.gen = peer.gen /\ r.known = peer.known
        /\ r.planned = peer.planned /\ r.registered = peer.registered \cup {t}
    BY <1>1, <1>3 DEF Sessions
  <2>2. peer.state # "down"
    BY <1>3 DEF Active
  <2> QED
    BY <1>1, <2>1, <2>2, WidenEffect DEF Widened
<1> QED
  BY <1>2, <1>3

\* Validations that are lost.
LEMMA LostEffect ==
  ASSUME NEW t \in 0..MaxTakes, Lost(t)
  PROVE  worker' \in Workers /\ worker'.at = "lost" /\ worker'.take = t
  BY ConstantTypes DEF Lost, Workers

\* What the UI thread does with the event e.
Shows(e, attention) ==
  LET t == e.take
      unmarked == e.found /\ Active /\ co.marked # t
  IN /\ attention \in BOOLEAN /\ Widened(t) /\ UNCHANGED worker
     /\ unmarked => Active
     /\ co'.jam = co.jam /\ co'.number = co.number /\ co'.marked = co.marked /\ co'.take = 0
     /\ co'.phase = PhaseOf(attention \/ unmarked) /\ co'.lastAttention = attention
     /\ co'.last = (IF e.found THEN t ELSE 0) /\ co'.news = co.news \ {t}
     /\ \/ attention = (IF t \in co.news THEN Attention(manifest[t]) ELSE e.attention) /\ UNCHANGED untold
        \/ attention = TRUE /\ untold' = untold \cup {t}

Raises(t) ==
  /\ worker' \in Workers /\ worker'.at = "lost" /\ worker'.take = t
  /\ co'.jam = co.jam /\ co'.number = co.number /\ co'.marked = co.marked /\ co'.take = co.take
  /\ co'.phase = co.phase /\ co'.lastAttention = co.lastAttention /\ co'.last = co.last
  /\ co'.news = co.news \ {t} /\ UNCHANGED <<peer, untold>>

LEMMA ShowValidationEffect ==
  ASSUME IInv, NEW e \in Events, ShowValidation(e)
  PROVE  /\ e.is = "show" /\ e.take \in Takes /\ co' \in CoStates /\ faults' \in Nat
         /\ (\E attention \in BOOLEAN : Shows(e, attention)) \/ Raises(e.take)
<1> DEFINE t == e.take
           unmarked  == e.found /\ Active /\ co.marked # t
           shown(attention) ==
             co' = [co EXCEPT !.phase = PhaseOf(attention \/ unmarked), !.take = 0,
                              !.last = IF e.found THEN t ELSE 0,
                              !.lastAttention = attention, !.news = @ \ {t}]
           queued == IF unmarked THEN [peer EXCEPT !.registered = @ \cup {t}] ELSE peer
<1>1. /\ TypeOK /\ e.is = "show" /\ t \in Takes /\ e.found \in BOOLEAN /\ e.attention \in BOOLEAN
      /\ co \in CoStates /\ faults \in Nat
  BY DEF IInv, TypeOK, Events, ShowValidation
<1>2. t \in 0..MaxTakes
  BY <1>1, Bounds DEF Takes
<1>3. queued = peer \/ (Active /\ queued = [peer EXCEPT !.registered = @ \cup {t}])
  OBVIOUS
<1>4. ASSUME NEW attention \in BOOLEAN, shown(attention)
      PROVE  /\ co' \in CoStates
             /\ co'.jam = co.jam /\ co'.number = co.number /\ co'.marked = co.marked /\ co'.take = 0
             /\ co'.phase = PhaseOf(attention \/ unmarked) /\ co'.lastAttention = attention
             /\ co'.last = (IF e.found THEN t ELSE 0) /\ co'.news = co.news \ {t}
  <2>1. PhaseOf(attention \/ unmarked) \in {"attention", "complete"}
    BY DEF PhaseOf
  <2>2. (IF e.found THEN t ELSE 0) \in 0..MaxTakes /\ 0 \in 0..MaxTakes
    BY <1>2, Bounds
  <2>3. co' = [co EXCEPT !.phase = PhaseOf(attention \/ unmarked), !.take = 0,
                         !.last = IF e.found THEN t ELSE 0,
                         !.lastAttention = attention, !.news = @ \ {t}]
    BY <1>4
  <2> HIDE DEF unmarked, t, shown
  <2> QED
    BY <1>1, <2>1, <2>2, <2>3 DEF CoStates
<1>5. CASE /\ shown(IF t \in co.news THEN Attention(manifest[t]) ELSE e.attention)
           /\ Widen(queued, t) /\ UNCHANGED <<worker, untold>>
  <2> DEFINE attention == IF t \in co.news THEN Attention(manifest[t]) ELSE e.attention
  <2>1. attention \in BOOLEAN
    BY <1>1 DEF TypeOK, Attention, Manifests
  <2>2. Widened(t)
    <3> HIDE DEF queued, t
    <3> QED
      BY <1>1, <1>3, <1>5, Widens
  <2>3. shown(attention)
    BY <1>5
  <2> HIDE DEF attention, shown
  <2>4. /\ co' \in CoStates
        /\ co'.jam = co.jam /\ co'.number = co.number /\ co'.marked = co.marked /\ co'.take = 0
        /\ co'.phase = PhaseOf(attention \/ unmarked) /\ co'.lastAttention = attention
        /\ co'.last = (IF e.found THEN t ELSE 0) /\ co'.news = co.news \ {t}
    BY <1>4, <2>1, <2>3
  <2>5. attention = (IF t \in co.news THEN Attention(manifest[t]) ELSE e.attention)
    BY DEF attention
  <2>6. Shows(e, attention)
    BY <1>5, <2>1, <2>2, <2>4, <2>5 DEF Shows
  <2>7. faults' \in Nat
    BY <2>2 DEF Widened
  <2> QED
    BY <1>1, <2>1, <2>4, <2>6, <2>7
<1>6. CASE /\ shown(TRUE) /\ Froze(queued, t) /\ Fault
           /\ untold' = untold \cup {t} /\ UNCHANGED worker
  <2>1. Widened(t)
    <3> HIDE DEF queued, t, shown
    <3> QED
      BY <1>1, <1>3, <1>6, Widens
  <2>2. /\ co' \in CoStates
        /\ co'.jam = co.jam /\ co'.number = co.number /\ co'.marked = co.marked /\ co'.take = 0
        /\ co'.phase = PhaseOf(TRUE \/ unmarked) /\ co'.lastAttention = TRUE
        /\ co'.last = (IF e.found THEN t ELSE 0) /\ co'.news = co.news \ {t}
    <3> HIDE DEF shown
    <3> QED
      BY <1>4, <1>6
  <2>3. Shows(e, TRUE)
    BY <1>6, <2>1, <2>2 DEF Shows
  <2>4. faults' \in Nat
    BY <2>1 DEF Widened
  <2> QED
    BY <1>1, <2>2, <2>3, <2>4
<1>7. CASE /\ co' = [co EXCEPT !.news = @ \ {t}] /\ Lost(t) /\ Fault
           /\ UNCHANGED <<peer, untold>>
  <2>1. co' \in CoStates
    BY <1>1, <1>7 DEF CoStates
  <2>2. Raises(t)
    BY <1>1, <1>2, <1>7, LostEffect DEF Raises, CoStates
  <2>3. faults' \in Nat
    BY <1>1, <1>7 DEF Fault
  <2> QED
    BY <1>1, <2>1, <2>2, <2>3
<1> QED
  BY <1>5, <1>6, <1>7 DEF ShowValidation

LEMMA ShowRefreshEffect ==
  ASSUME IInv, NEW e \in Events, ShowRefresh(e)
  PROVE  LET t == e.take
             attention == Attention(manifest[t])
         IN /\ e.is = "refresh" /\ t \in Takes /\ co' \in CoStates /\ attention \in BOOLEAN
            /\ faults' \in Nat /\ UNCHANGED worker
            /\ co'.jam = co.jam /\ co'.number = co.number /\ co'.marked = co.marked
            /\ co'.take = co.take /\ co'.last = co.last
            /\ \/ /\ RefreshWaits(t) /\ co'.news = co.news \cup {t} /\ co'.phase = co.phase
                  /\ co'.lastAttention = co.lastAttention /\ UNCHANGED <<peer, untold>>
               \/ /\ RefreshApplies(t) /\ ~RefreshWaits(t) /\ co'.news = co.news
                  /\ co'.lastAttention = attention /\ Widened(t) /\ UNCHANGED untold
                  /\ co'.phase = IF attention = co.lastAttention THEN co.phase ELSE PhaseOf(attention)
               \/ /\ RefreshApplies(t) /\ ~RefreshWaits(t) /\ UNCHANGED <<co, peer>>
                  /\ untold' = untold \cup {t}
               \/ ~RefreshApplies(t) /\ ~RefreshWaits(t) /\ UNCHANGED <<co, peer, untold>>
<1> DEFINE t == e.take
           attention == Attention(manifest[t])
<1>1. TypeOK /\ e.is = "refresh" /\ t \in Takes /\ co \in CoStates /\ faults \in Nat /\ UNCHANGED worker
  BY DEF IInv, TypeOK, Events, ShowRefresh
<1>2. attention \in BOOLEAN /\ PhaseOf(attention) \in {"attention", "complete"}
  BY <1>1 DEF TypeOK, Attention, Manifests, PhaseOf
<1>3. RefreshApplies(t) => ~RefreshWaits(t)
  BY DEF RefreshApplies, RefreshWaits
<1>4. CASE RefreshWaits(t) /\ co' = [co EXCEPT !.news = @ \cup {t}] /\ UNCHANGED <<peer, untold, faults>>
  BY <1>1, <1>2, <1>4 DEF CoStates
<1>5. CASE /\ RefreshApplies(t) /\ UNCHANGED untold /\ Widen(peer, t)
           /\ co' = [co EXCEPT !.lastAttention = attention, !.phase =
                       IF attention = co.lastAttention THEN @ ELSE PhaseOf(attention)]
  <2>1. Widened(t)
    BY <1>1, <1>5, Widens
  <2>2. faults' \in Nat
    BY <2>1 DEF Widened
  <2> HIDE DEF t, attention
  <2>3. /\ co' \in CoStates /\ co'.jam = co.jam /\ co'.number = co.number /\ co'.marked = co.marked
        /\ co'.take = co.take /\ co'.last = co.last /\ co'.news = co.news /\ co'.lastAttention = attention
        /\ co'.phase = IF attention = co.lastAttention THEN co.phase ELSE PhaseOf(attention)
    BY <1>1, <1>2, <1>5 DEF CoStates
  <2> QED
    BY <1>1, <1>2, <1>3, <1>5, <2>1, <2>2, <2>3 DEF t, attention
<1>6. CASE RefreshApplies(t) /\ Fault /\ untold' = untold \cup {t} /\ UNCHANGED <<co, peer>>
  <2>1. faults' \in Nat
    BY <1>1, <1>6 DEF Fault
  <2> QED
    BY <1>1, <1>2, <1>3, <1>6, <2>1
<1>7. CASE ~RefreshWaits(t) /\ ~RefreshApplies(t) /\ UNCHANGED <<co, peer, untold, faults>>
  BY <1>1, <1>2, <1>7
<1> QED
  BY <1>4, <1>5, <1>6, <1>7 DEF ShowRefresh

LEMMA ShowEndEffect ==
  ASSUME IInv, NEW e \in Events, ShowEnd(e)
  PROVE  /\ co' \in CoStates /\ IsEnd(e)
         /\ co'.number = co.number /\ co'.marked = co.marked /\ co'.take = co.take /\ co'.last = co.last
         /\ co'.lastAttention = co.lastAttention /\ co'.news = co.news
         /\ \/ e.is = "retry" /\ co'.jam = "retry" /\ co'.phase = co.phase
            \/ e.is = "ended" /\ co'.jam = "closed" /\ co'.phase = "idle"
         /\ UNCHANGED <<worker, peer, untold, faults>>
<1>1. co \in CoStates
  BY DEF IInv, TypeOK
<1>2. CASE e.is = "retry" /\ co' = [co EXCEPT !.jam = "retry"]
  BY <1>1, <1>2 DEF ShowEnd, CoStates, IsEnd
<1>3. CASE e.is = "ended" /\ co' = [co EXCEPT !.jam = "closed", !.phase = "idle"]
  BY <1>1, <1>3 DEF ShowEnd, CoStates, IsEnd
<1> QED
  BY <1>2, <1>3 DEF ShowEnd

\* A callback on the UI thread: the event was the first of the queue.
LEMMA UiEffect ==
  ASSUME IInv, UiHandles
  PROVE  /\ ui \in Seq(Events) /\ ui # <<>> /\ ui' = Tail(ui) /\ ui[1] \in Events /\ 1 \in 1..Len(ui)
         /\ ShowValidation(ui[1]) \/ ShowRefresh(ui[1]) \/ ShowEnd(ui[1])
         /\ UNCHANGED <<loop, pass, stop, store, manifest, media>>
<1>1. ui \in Seq(Events) /\ ui # <<>> /\ ui' = Tail(ui)
  BY DEF IInv, TypeOK, UiHandles
<1> QED
  BY <1>1, QueueTaken DEF UiHandles

LEMMA UiTypes ==
  ASSUME IInv, UiHandles
  PROVE  /\ co' \in CoStates /\ peer' \in Sessions /\ faults' \in Nat /\ ui' \in Seq(Events)
         /\ worker' \in Workers /\ untold' \subseteq Takes
<1>1. ui' \in Seq(Events) /\ ui[1] \in Events /\ TypeOK
  BY UiEffect, QueueTaken DEF IInv
<1>2. CASE ShowValidation(ui[1])
  <2>1. CASE Raises(ui[1].take)
    BY <1>1, <1>2, <2>1, ShowValidationEffect DEF Raises, TypeOK
  <2>2. ASSUME NEW attention \in BOOLEAN, Shows(ui[1], attention)
        PROVE  peer' \in Sessions /\ worker' \in Workers /\ untold' \subseteq Takes
    BY <1>1, <1>2, <2>2, ShowValidationEffect DEF Shows, Widened, TypeOK
  <2> QED
    BY <1>1, <1>2, <2>1, <2>2, ShowValidationEffect
<1>3. CASE ShowRefresh(ui[1])
  BY <1>1, <1>3, ShowRefreshEffect DEF Widened, TypeOK
<1>4. CASE ShowEnd(ui[1])
  BY <1>1, <1>4, ShowEndEffect DEF TypeOK
<1> QED
  BY <1>2, <1>3, <1>4, UiEffect
-----------------------------------------------------------------------------
(* Every step keeps the types.                                             *)

LEMMA UserTypes ==
  ASSUME IInv, User
  PROVE  TypeOK'
<1>1. TypeOK /\ co \in CoStates /\ peer \in Sessions
  BY DEF IInv, TypeOK
<1>2. CASE JamStarts
  BY <1>1, <1>2 DEF JamStarts, TypeOK, CoStates
<1>3. CASE PeerStarts
  <2>1. [peer EXCEPT !.state = "up", !.gen = @ + 1] \in Sessions /\ peer.gen + 1 \in Generations
    <3>1. peer.gen \in Nat /\ peer.gen + 1 \in 0..2 * MaxSessions
      BY <1>1, <1>3, Bounds DEF PeerStarts, Sessions, Generations
    <3> QED
      BY <1>1, <3>1 DEF Sessions, Generations
  <2>2. peer' \in Sessions /\ peer'.gen = peer.gen + 1
    BY <1>1, <1>3, <2>1, ClearedType DEF PeerStarts, Sessions
  <2>3. loop' \in [alive: BOOLEAN, gen: Generations, todo: SUBSET Takes]
    BY <1>3, <2>1, <2>2, ConstantTypes DEF PeerStarts
  <2>4. store' \in [Takes -> [Guests -> Originals]]
    BY <1>3, ManifestTypes DEF PeerStarts
  <2> QED
    BY <1>1, <1>3, <2>2, <2>3, <2>4 DEF PeerStarts, TypeOK
<1>4. CASE Record
  <2>1. co.number + 1 \in Takes /\ co.number + 1 \in 0..MaxTakes
    BY <1>1, <1>4, Bounds DEF Record, CoStates, Takes
  <2>2. Widened(co.number + 1)
    BY <1>1, <1>4, <2>1, Widens DEF Record
  <2>3. co' \in CoStates
    BY <1>1, <1>4, <2>1 DEF Record, CoStates
  <2> QED
    BY <1>1, <1>4, <2>2, <2>3 DEF Record, TypeOK, Widened
<1>5. CASE StopRecording
  <2>1. co.take \in Takes
    BY <1>1, <1>5, Bounds DEF IInv, NumbersHold, Busy, StopRecording, CoStates, Takes
  <2>2. Widened(co.take)
    BY <1>1, <1>5, <2>1, Widens DEF StopRecording
  <2>3. co' \in CoStates /\ co.take \in 0..MaxTakes
    BY <1>1, <1>5 DEF StopRecording, CoStates
  <2>4. [NoWork EXCEPT !.at = "validating", !.take = co.take] \in Workers
    BY <2>3, ConstantTypes DEF Workers
  <2>5. worker' \in Workers
    BY <1>5, <2>4 DEF StopRecording
  <2> QED
    BY <1>1, <1>5, <2>2, <2>3, <2>5 DEF StopRecording, TypeOK, Widened
<1>6. CASE EndJam
  BY <1>1, <1>6 DEF EndJam, TypeOK, CoStates
<1> QED
  BY <1>2, <1>3, <1>4, <1>5, <1>6 DEF User

LEMMA WorkerTypes ==
  ASSUME IInv, WorkerStep
  PROVE  TypeOK'
<1>1. TypeOK /\ worker \in Workers /\ co \in CoStates /\ faults \in Nat /\ manifest \in [Takes -> Manifests]
  BY DEF IInv, TypeOK
<1> DEFINE t == worker.take
<1>2. worker.at # "rest" => t \in Takes /\ t \in 0..MaxTakes
  BY WorkersTake, Bounds DEF Takes
<1>3. CASE WorkerValidates
  <2>1. PICK m \in {manifest[t], Validated(FALSE), Validated(TRUE)} :
          /\ manifest' = [manifest EXCEPT ![t] = m]
          /\ \/ m = Validated(FALSE) /\ Result(TRUE, FALSE) /\ UNCHANGED faults
             \/ Fault /\ \E found \in BOOLEAN : Result(found, TRUE)
             \/ Fault /\ Lost(t)
    BY <1>3 DEF WorkerValidates
  <2>2. t \in Takes /\ t \in 0..MaxTakes
    BY <1>2, <1>3 DEF WorkerValidates
  <2>3. manifest' \in [Takes -> Manifests]
    BY <1>1, <2>1, <2>2, ManifestTypes
  <2>4. ASSUME NEW found \in BOOLEAN, NEW attention \in BOOLEAN, Result(found, attention)
        PROVE  worker' \in Workers
    BY <1>1, <2>4 DEF Result, Workers
  <2>5. worker' \in Workers
    <3>1. CASE Result(TRUE, FALSE)
      BY <2>4, <3>1, Zenon
    <3>2. CASE \E found \in BOOLEAN : Result(found, TRUE)
      BY <2>4, <3>2, Zenon
    <3>3. CASE Lost(t)
      BY <2>2, <3>3, LostEffect, Zenon
    <3> QED
      BY <2>1, <3>1, <3>2, <3>3
  <2>6. faults' \in Nat
    <3>1. Fault \/ UNCHANGED faults
      BY <2>1
    <3> QED
      BY <1>1, <3>1 DEF Fault
  <2>7. UNCHANGED <<co, ui, peer, loop, pass, stop, store, media, untold>>
    BY <1>3 DEF WorkerValidates
  <2> QED
    BY <1>1, <2>3, <2>5, <2>6, <2>7 DEF TypeOK
<1>4. CASE WorkerRegisters
  <2>1. t \in Takes /\ Active
    BY <1>2, <1>4 DEF WorkerRegisters, IInv, ValidationHolds, Active
  <2>2. Widened(t)
    BY <1>1, <1>4, <2>1, Widens DEF WorkerRegisters
  <2>3. pass' \in [Passes -> PassStates]
    BY <1>1, <1>4, <2>1, ConstantTypes, BecomeEffect DEF WorkerRegisters, Passes
  <2>4. worker' \in Workers
    BY <1>1, <1>4 DEF WorkerRegisters, Workers
  <2> QED
    BY <1>1, <1>4, <2>2, <2>3, <2>4 DEF WorkerRegisters, TypeOK, Widened
<1>5. CASE WorkerReadsMarker
  <2>1. t \in 0..MaxTakes
    BY <1>2, <1>5 DEF WorkerReadsMarker
  <2>2. pass' \in [Passes -> PassStates]
    BY <1>1, <1>5, ConstantTypes, BecomeEffect DEF WorkerReadsMarker, Passes
  <2>3. co' \in CoStates
    BY <1>1, <1>5, <2>1 DEF WorkerReadsMarker, CoStates
  <2>4. worker' \in Workers
    <3>1. ASSUME NEW n \in 0..3
          PROVE  [worker EXCEPT !.at = "noting", !.left = n] \in Workers
      BY <1>1 DEF Workers
    <3>2. [worker EXCEPT !.at = "loading"] \in Workers
      BY <1>1 DEF Workers
    <3>3. 3 \in 0..3
      OBVIOUS
    <3>4. [worker EXCEPT !.at = "noting", !.left = 3] \in Workers
      BY <3>1, <3>3
    <3> QED
      BY <1>5, <3>2, <3>4 DEF WorkerReadsMarker
  <2>5. faults' \in Nat
    BY <1>1, <1>5 DEF WorkerReadsMarker, Fault
  <2> QED
    BY <1>1, <1>5, <2>2, <2>3, <2>4, <2>5 DEF WorkerReadsMarker, TypeOK
<1>6. CASE WorkerNotes
  <2>1. manifest[t] \in Manifests
    BY <1>1, <1>2, <1>6 DEF WorkerNotes
  <2>2. worker' \in Workers
    BY <1>1, <1>6, <2>1 DEF WorkerNotes, Workers
  <2>3. faults' \in Nat
    BY <1>1, <1>6 DEF WorkerNotes, Fault
  <2> QED
    BY <1>1, <1>6, <2>2, <2>3 DEF WorkerNotes, TypeOK
<1>7. CASE WorkerReplaces
  <2>1. \/ \E at \in {"noting", "loading"} : worker' = [worker EXCEPT !.at = at, !.left = @ - 1, !.seen = NoManifest]
        \/ Lost(t)
    BY <1>7 DEF WorkerReplaces
  <2>2. worker' \in Workers
    <3>1. worker.left - 1 \in 0..3
      BY <1>1, <1>7 DEF WorkerReplaces, IInv, ValidationHolds, Workers
    <3>2. t \in 0..MaxTakes
      BY <1>2, <1>7 DEF WorkerReplaces
    <3>3. ASSUME NEW at \in {"noting", "loading"},
                 worker' = [worker EXCEPT !.at = at, !.left = @ - 1, !.seen = NoManifest]
          PROVE  worker' \in Workers
      BY <1>1, <3>1, <3>3, ManifestTypes DEF Workers
    <3> QED
      BY <2>1, <3>2, <3>3, LostEffect
  <2>3. manifest' \in [Takes -> Manifests]
    <3>1. Noted(worker.seen) \in Manifests
      BY <1>1, ManifestTypes DEF Workers
    <3>2. manifest' = manifest \/ manifest' = [manifest EXCEPT ![t] = Noted(worker.seen)]
      BY <1>7 DEF WorkerReplaces
    <3> QED
      BY <1>1, <3>1, <3>2
  <2>4. faults' \in Nat
    BY <1>1, <1>7 DEF WorkerReplaces, Fault
  <2> QED
    BY <1>1, <1>7, <2>2, <2>3, <2>4 DEF WorkerReplaces, TypeOK
<1>8. CASE WorkerLoads
  <2>1. t \in Takes /\ t \in 0..MaxTakes
    BY <1>2, <1>8 DEF WorkerLoads
  <2>2. ASSUME NEW found \in BOOLEAN, NEW attention \in BOOLEAN,
               worker' = [worker EXCEPT !.at = "posting", !.found = found, !.attention = attention]
        PROVE  worker' \in Workers
    BY <1>1, <2>2 DEF Workers
  <2>3. (Attention(manifest[t]) \/ co.marked # t) \in BOOLEAN
    OBVIOUS
  <2>4. \/ \E found, attention \in BOOLEAN :
             worker' = [worker EXCEPT !.at = "posting", !.found = found, !.attention = attention]
        \/ Lost(t)
    BY <1>8, <2>3 DEF WorkerLoads
  <2>6. worker' \in Workers
    BY <2>1, <2>2, <2>4, LostEffect, Zenon
  <2>5. untold' \subseteq Takes /\ faults' \in Nat
    <3>1. /\ Fault \/ UNCHANGED faults
          /\ untold' = untold \ {t} \/ untold' = untold \cup {t} \/ UNCHANGED untold
      BY <1>8 DEF WorkerLoads
    <3> QED
      BY <1>1, <2>1, <3>1 DEF TypeOK, Fault
  <2>7. UNCHANGED <<co, ui, peer, loop, pass, stop, store, manifest, media>>
    BY <1>8 DEF WorkerLoads
  <2> QED
    BY <1>1, <2>5, <2>6, <2>7 DEF TypeOK
<1>9. CASE WorkerPosts
  <2>1. [is |-> "show", take |-> t, found |-> worker.found, attention |-> worker.attention] \in Events
    BY <1>1, <1>2, <1>9, EventTypes DEF WorkerPosts, Workers
  <2>2. ui' \in Seq(Events)
    BY <1>1, <1>9, <2>1, Put DEF WorkerPosts, TypeOK
  <2>3. worker' \in Workers
    BY <1>9, ConstantTypes DEF WorkerPosts
  <2> QED
    BY <1>1, <1>9, <2>2, <2>3 DEF WorkerPosts, TypeOK
<1> QED
  BY <1>3, <1>4, <1>5, <1>6, <1>7, <1>8, <1>9 DEF WorkerStep

LEMMA MaintenanceTypes ==
  ASSUME IInv, MaintenanceStep
  PROVE  TypeOK'
<1>1. TypeOK /\ peer \in Sessions
  BY DEF IInv, TypeOK
<1>2. CASE MaintenanceCalls
  <2>1. Due \in SUBSET Takes
    BY <1>1 DEF Due, TypeOK, Sessions
  <2>2. PICK t \in Due : Become("maintenance", Called(t)) /\ loop' = [loop EXCEPT !.todo = Due \ {t}]
    BY <1>2 DEF MaintenanceCalls
  <2>3. pass' \in [Passes -> PassStates]
    BY <1>1, <2>1, <2>2, ConstantTypes, BecomeEffect DEF Passes
  <2>4. loop' \in [alive: BOOLEAN, gen: Generations, todo: SUBSET Takes]
    BY <1>1, <2>1, <2>2 DEF TypeOK
  <2> QED
    BY <1>1, <1>2, <2>3, <2>4 DEF MaintenanceCalls, TypeOK
<1>3. CASE MaintenanceEnds
  BY <1>1, <1>3, ConstantTypes DEF MaintenanceEnds, TypeOK
<1> QED
  BY <1>2, <1>3 DEF MaintenanceStep

\* The result of the end of a jam.
LEMMA PostEffect ==
  ASSUME TypeOK, NEW is \in {"ended", "retry"}, Post(is)
  PROVE  /\ ui' \in Seq(Events)
         /\ ui' = Append(ui, [is |-> is, take |-> 0, found |-> FALSE, attention |-> FALSE])
         /\ [is |-> is, take |-> 0, found |-> FALSE, attention |-> FALSE] \in Events
<1> DEFINE e == [is |-> is, take |-> 0, found |-> FALSE, attention |-> FALSE]
<1>1. e \in Events
  BY EventTypes
<1>2. ui' = Append(ui, e) /\ ui \in Seq(Events)
  BY DEF TypeOK, Post
<1> HIDE DEF e
<1>3. ui' \in Seq(Events)
  BY <1>1, <1>2, Put
<1> QED
  BY <1>1, <1>2, <1>3 DEF e

LEMMA StopTypes ==
  ASSUME IInv, StopStep
  PROVE  TypeOK'
<1>1. TypeOK /\ peer \in Sessions
  BY DEF IInv, TypeOK
<1>2. CASE StopRequests
  <2>1. CASE peer.state = "up"
    <3>1. peer.gen + 1 \in Generations
      BY <1>1, <2>1, Bounds DEF IInv, SessionHolds, Sessions, Generations
    <3>2. [peer EXCEPT !.state = "stopping", !.gen = @ + 1] \in Sessions
      BY <1>1, <3>1 DEF Sessions
    <3> QED
      BY <1>1, <1>2, <2>1, <3>2 DEF StopRequests, TypeOK
  <2>2. CASE peer.state # "up"
    BY <1>1, <1>2, <2>2 DEF StopRequests, TypeOK
  <2> QED
    BY <2>1, <2>2
<1>3. CASE StopWaits
  BY <1>1, <1>3 DEF StopWaits, TypeOK
<1>4. CASE StopFinishes
  <2>1. [peer EXCEPT !.state = "down"] \in Sessions
    BY <1>1 DEF Sessions
  <2>2. peer' \in Sessions
    BY <1>4, <2>1, ClearedType DEF StopFinishes
  <2>3. ui' \in Seq(Events)
    BY <1>1, <1>4, PostEffect DEF StopFinishes
  <2>4. faults' \in Nat
    BY <1>1, <1>4 DEF StopFinishes, Fault, TypeOK
  <2> QED
    BY <1>1, <1>4, <2>2, <2>3, <2>4 DEF StopFinishes, TypeOK
<1>5. CASE StopGivesUp
  <2>1. ui' \in Seq(Events)
    BY <1>1, <1>5, PostEffect DEF StopGivesUp
  <2>2. faults' \in Nat
    BY <1>1, <1>5 DEF StopGivesUp, Fault, TypeOK
  <2> QED
    BY <1>1, <1>5, <2>1, <2>2 DEF StopGivesUp, TypeOK
<1> QED
  BY <1>2, <1>3, <1>4, <1>5 DEF StopStep

LEMMA PassTypes ==
  ASSUME IInv, NEW p \in Passes, PassLocks(p) \/ PassStep(p)
  PROVE  TypeOK'
<1>1. TypeOK
  BY DEF IInv
<1>2. CASE PassLocks(p) \/ (pass[p].at = "again" /\ PassReads(p))
  BY <1>1, <1>2, PassReadsEffect DEF PassLocks, Going, TypeOK
<1>3. CASE PassPublishes(p)
  <2>1. manifest' \in [Takes -> Manifests]
    <3>1. ASSUME NEW n \in Reconciled(pass[p].seen, pass[p].owed, pass[p].inv, pass[p].issue)
          PROVE  [n EXCEPT !.rev = @ + 1] \in Manifests
      BY <1>3, ReconciledIs, ManifestTypes, PassPublishesEffect DEF PassStates
    <3>2. manifest' = manifest \/ \E n \in Reconciled(pass[p].seen, pass[p].owed, pass[p].inv, pass[p].issue) :
                manifest' = [manifest EXCEPT ![pass[p].take] = [n EXCEPT !.rev = @ + 1]]
      BY <1>3, PassPublishesEffect
    <3> QED
      BY <1>1, <3>1, <3>2 DEF TypeOK
  <2>2. untold' \subseteq Takes
    BY <1>1, <1>3, PassPublishesEffect DEF TypeOK
  <2> QED
    BY <1>1, <1>3, <2>1, <2>2, PassPublishesEffect DEF TypeOK
<1>4. CASE PassTells(p)
  BY <1>1, <1>4, PassTellsEffect DEF TypeOK
<1>5. ASSUME NEW g \in Guests, PassAttaches(p, g)
      PROVE  TypeOK'
  <2>1. media' \in [Takes -> SUBSET Guests]
    <3>1. media' = media \/ media' = [media EXCEPT ![pass[p].take] = @ \cup {g}]
      BY <1>5, PassAttachesEffect
    <3> QED
      BY <1>1, <3>1 DEF TypeOK
  <2> QED
    BY <1>1, <1>5, <2>1, PassAttachesEffect DEF TypeOK
<1> QED
  BY <1>2, <1>3, <1>4, <1>5 DEF PassStep

LEMMA TypeStep ==
  ASSUME IInv, Next
  PROVE  TypeOK'
<1>1. CASE UiHandles
  BY <1>1, UiEffect, UiTypes DEF IInv, TypeOK
<1>2. ASSUME NEW t \in Takes, NEW g \in Guests, GuestUploads(t, g)
      PROVE  TypeOK'
  <2>1. PICK o \in Originals : store' = [store EXCEPT ![t][g] = o]
    BY <1>2 DEF GuestUploads, Originals
  <2>2. store' \in [Takes -> [Guests -> Originals]]
    BY <2>1 DEF IInv, TypeOK
  <2>3. faults' \in Nat
    BY <1>2 DEF IInv, TypeOK, GuestUploads, Fault
  <2> QED
    BY <1>2, <2>2, <2>3 DEF IInv, TypeOK, GuestUploads
<1> QED
  BY <1>1, <1>2, UserTypes, WorkerTypes, MaintenanceTypes, StopTypes, PassTypes DEF Next
-----------------------------------------------------------------------------
(* The peer session and its thread.                                        *)

\* Which take a step of the UI thread widens, if it does.
LEMMA UiPeer ==
  ASSUME IInv, UiHandles
  PROVE  (\E t \in Takes : Widened(t) /\ t = ui[1].take) \/ peer' = peer
  BY UiEffect, ShowValidationEffect, ShowRefreshEffect, ShowEndEffect DEF Shows, Raises

LEMMA SessionWidens ==
  ASSUME IInv, NEW t \in Takes, Widened(t), loop' = loop, pass'["maintenance"] = pass["maintenance"]
  PROVE  SessionHolds'
<1>1. SessionHolds
  BY DEF IInv
<1>2. CASE peer.state = "down"
  BY <1>1, <1>2 DEF SessionHolds, Widened
<1>3. CASE peer.state # "down"
  BY <1>1, <1>3 DEF SessionHolds, Widened
<1> QED
  BY <1>2, <1>3

LEMMA SessionStep ==
  ASSUME IInv, Next
  PROVE  SessionHolds'
<1>1. TypeOK /\ SessionHolds /\ peer \in Sessions /\ "maintenance" \in Passes /\ "validation" \in Passes
  BY DEF IInv, TypeOK, Passes
<1>2. ASSUME UNCHANGED <<peer, loop>>, pass'["maintenance"] = pass["maintenance"]
      PROVE  SessionHolds'
  BY <1>1, <1>2 DEF SessionHolds
<1>3. CASE UiHandles
  BY <1>2, <1>3, UiEffect, UiPeer, SessionWidens
<1>4. CASE JamStarts \/ EndJam
  BY <1>2, <1>4 DEF JamStarts, EndJam
<1>5. CASE PeerStarts
  <2>1. /\ peer'.state = "up" /\ peer'.gen = peer.gen + 1 /\ peer.gen \in Nat /\ loop'.alive /\ loop'.gen = peer'.gen
    <3>1. [peer EXCEPT !.state = "up", !.gen = @ + 1] \in Sessions /\ peer.gen \in Nat
      <4>1. peer.gen \in Nat /\ peer.gen + 1 \in 0..2 * MaxSessions
        BY <1>1, <1>5, Bounds DEF PeerStarts, Sessions, Generations
      <4> QED
        BY <1>1, <4>1 DEF Sessions, Generations
    <3>2. peer'.state = "up" /\ peer'.gen = peer.gen + 1
      BY <1>1, <1>5, <3>1, ClearedType DEF PeerStarts, Sessions
    <3> QED
      BY <1>5, <3>1, <3>2 DEF PeerStarts, NoThread
  <2>2. peer'.gen < 2 * MaxSessions
    BY <1>5, <2>1 DEF PeerStarts
  <2> QED
    BY <1>1, <1>5, <2>1, <2>2 DEF PeerStarts, SessionHolds
<1>6. CASE Record
  <2>1. co.number + 1 \in Takes
    BY <1>1, <1>6, Bounds DEF Record, TypeOK, CoStates, Takes
  <2> QED
    BY <1>1, <1>6, <2>1, Widens, SessionWidens DEF Record
<1>7. CASE StopRecording
  <2>1. co.take \in Takes
    BY <1>1, <1>7, Bounds DEF IInv, NumbersHold, Busy, StopRecording, TypeOK, CoStates, Takes
  <2> QED
    BY <1>1, <1>7, <2>1, Widens, SessionWidens DEF StopRecording
<1>8. CASE WorkerRegisters
  <2>1. worker.take \in Takes /\ Active
    BY <1>8, WorkersTake DEF WorkerRegisters, IInv, ValidationHolds, Active
  <2>2. pass'["maintenance"] = pass["maintenance"]
    BY <1>1, <1>8 DEF WorkerRegisters, Become, TypeOK
  <2> QED
    BY <1>1, <1>8, <2>1, <2>2, Widens, SessionWidens DEF WorkerRegisters
<1>9. CASE WorkerReadsMarker
  <2>1. pass'["maintenance"] = pass["maintenance"]
    BY <1>1, <1>9 DEF WorkerReadsMarker, Become, TypeOK
  <2> QED
    BY <1>2, <1>9, <2>1 DEF WorkerReadsMarker
<1>10. CASE WorkerValidates \/ WorkerNotes \/ WorkerReplaces \/ WorkerLoads \/ WorkerPosts
  BY <1>2, <1>10 DEF WorkerValidates, WorkerNotes, WorkerReplaces, WorkerLoads, WorkerPosts
<1>11. CASE MaintenanceCalls
  <2>1. PICK t \in Due : Become("maintenance", Called(t)) /\ loop' = [loop EXCEPT !.todo = Due \ {t}]
    BY <1>11 DEF MaintenanceCalls
  <2>2. t \in Takes
    BY <1>1 DEF Due, TypeOK, Sessions
  <2>3. pass'["maintenance"].at = "called"
    <3>1. Called(t) \in PassStates /\ Called(t).at = "called"
      BY <2>2, ConstantTypes
    <3>2. pass'["maintenance"] = Called(t)
      BY <1>1, <2>1, <3>1 DEF TypeOK, Become
    <3> QED
      BY <3>1, <3>2
  <2>4. loop'.alive = loop.alive /\ loop'.gen = loop.gen /\ loop.alive /\ peer' = peer
    BY <1>1, <1>11, <2>1 DEF TypeOK, MaintenanceCalls
  <2> QED
    BY <1>1, <2>3, <2>4 DEF SessionHolds
<1>12. CASE MaintenanceEnds
  BY <1>1, <1>12 DEF MaintenanceEnds, SessionHolds, NoThread, Current
<1>13. CASE StopRequests
  BY <1>1, <1>13 DEF StopRequests, SessionHolds, Sessions
<1>14. CASE StopFinishes
  <2>1. [peer EXCEPT !.state = "down"] \in Sessions /\ [peer EXCEPT !.state = "down"].state = "down"
    BY <1>1 DEF Sessions
  <2>2. /\ peer'.state = "down" /\ peer'.known = {} /\ peer'.registered = {}
        /\ peer'.planned = [t \in Takes |-> {}]
    BY <1>14, <2>1, ClearedType DEF StopFinishes
  <2> QED
    BY <1>1, <1>14, <2>2 DEF StopFinishes, SessionHolds
<1>15. CASE StopWaits \/ StopGivesUp
  BY <1>2, <1>15 DEF StopWaits, StopGivesUp
<1>16. ASSUME NEW p \in Passes, PassLocks(p) \/ PassStep(p)
       PROVE  SessionHolds'
  <2>1. /\ UNCHANGED <<peer, loop>>
        /\ p = "maintenance" => pass'[p].at \notin {"done", "failed"} /\ pass[p].at # "rest"
        /\ \A q \in Passes : q # p => pass'[q] = pass[q]
    <3>1. CASE PassLocks(p) \/ (pass[p].at = "again" /\ PassReads(p))
      <4>1. pass'[p].at \in (IF p = "maintenance" THEN {"rest", "attaching"} ELSE {"done", "attaching"})
        BY <1>1, <3>1, PassReadsEffect DEF PassLocks, Going, PassStates
      <4> QED
        BY <3>1, <4>1, PassReadsEffect DEF PassLocks, Going
    <3>2. CASE PassPublishes(p)
      BY <3>2, PassPublishesEffect
    <3>3. CASE PassTells(p)
      BY <3>3, PassTellsEffect
    <3>4. ASSUME NEW g \in Guests, PassAttaches(p, g)
          PROVE  <2>1!:
      <4>1. pass'[p].at \in (IF p = "maintenance" THEN {"rest", "attaching"} ELSE {"done", "failed", "attaching"})
        BY <1>1, <3>4, PassAttachesEffect DEF TypeOK, PassStates
      <4> QED
        BY <3>4, <4>1, PassAttachesEffect
    <3> QED
      BY <1>16, <3>1, <3>2, <3>3, <3>4 DEF PassStep
  <2> QED
    BY <1>1, <2>1, PassKinds DEF SessionHolds
<1>17. ASSUME NEW t \in Takes, NEW g \in Guests, GuestUploads(t, g)
       PROVE  SessionHolds'
  BY <1>2, <1>17 DEF GuestUploads
<1> QED
  BY <1>3, <1>4, <1>5, <1>6, <1>7, <1>8, <1>9, <1>10, <1>11, <1>12, <1>13, <1>14, <1>15, <1>16, <1>17
     DEF Next, User, WorkerStep, MaintenanceStep, StopStep
-----------------------------------------------------------------------------
(* The end of a jam.                                                       *)

\* Only a session that is up gives leases.
LEMMA LeasesGiven ==
  ASSUME IInv, NEW p \in Passes, PassLocks(p) \/ PassStep(p)
  PROVE  /\ Leases' => Leases \/ peer.state = "up"
         /\ UNCHANGED <<co, worker, peer, loop, stop, store>>
         /\ ui' = ui \/ PassTells(p)
<1> DEFINE Goal == /\ Leases' => Leases \/ peer.state = "up"
                   /\ UNCHANGED <<co, worker, peer, loop, stop, store>>
                   /\ ui' = ui \/ PassTells(p)
<1>1. ASSUME pass'[p].at # "told", \A q \in Passes : q # p => pass'[q] = pass[q],
             UNCHANGED <<co, worker, peer, loop, stop, store>>, ui' = ui \/ PassTells(p)
      PROVE  Goal
  BY <1>1 DEF Leases
<1>2. CASE PassLocks(p) \/ (pass[p].at = "again" /\ PassReads(p))
  BY <1>1, <1>2, PassReadsEffect DEF PassLocks, Going
<1>3. CASE PassPublishes(p)
  BY <1>1, <1>3, PassPublishesEffect DEF Current
<1>4. CASE PassTells(p)
  BY <1>1, <1>4, PassTellsEffect
<1>5. ASSUME NEW g \in Guests, PassAttaches(p, g)
      PROVE  Goal
  BY <1>1, <1>5, PassAttachesEffect
<1> QED
  BY <1>2, <1>3, <1>4, <1>5 DEF PassStep

\* No callback has a lease in a jam that has ended.
LEMMA ClosedQuiet ==
  ASSUME IInv, co.jam = "closed"
  PROVE  ~Leases /\ ~loop.alive /\ co.phase = "idle"
<1>1. peer.state = "down" /\ co.phase = "idle" /\ ~loop.alive
  BY DEF IInv, EndHolds, SessionHolds
<1>2. pass["maintenance"].at = "rest" /\ worker.at = "rest"
  BY <1>1 DEF IInv, SessionHolds, ValidationHolds
<1>3. pass["validation"].at = "rest"
  BY <1>2 DEF IInv, ValidationHolds
<1> QED
  BY <1>1, <1>2, <1>3, PassKinds DEF Leases

LEMMA EndSame ==
  ASSUME IInv, UNCHANGED <<stop, ui>>, co'.jam = co.jam, co'.phase = co.phase \/ co.jam = "open",
         peer'.state = peer.state, Leases' => Leases \/ peer.state = "up"
  PROVE  EndHolds'
  BY DEF IInv, EndHolds, EndQueued, Quiet

LEMMA EndAppends ==
  ASSUME IInv, NEW e \in Events, ~IsEnd(e), ui' = Append(ui, e), ~EndQueued, co.jam # "closed",
         UNCHANGED <<stop, co, peer>>, Leases' => Leases
  PROVE  EndHolds'
<1>1. EndHolds /\ ui \in Seq(Events)
  BY DEF IInv, TypeOK
<1>2. ~EndQueued'
  BY <1>1, QueuePut
<1>3. \A i \in 1..Len(ui') : ~IsEnd(ui'[i]) /\ ui'[i].is # "ended"
  BY <1>2 DEF EndQueued, IsEnd
<1> QED
  BY <1>1, <1>2, <1>3 DEF EndHolds, Quiet

\* The stop puts its result in the queue.
LEMMA EndPosts ==
  ASSUME IInv, NEW is \in {"ended", "retry"}, stop = "joining", stop' = "rest", Post(is), co' = co,
         peer'.state = "down" \/ (is = "retry" /\ peer'.state = peer.state), pass' = pass
  PROVE  EndHolds'
<1> DEFINE e == [is |-> is, take |-> 0, found |-> FALSE, attention |-> FALSE]
<1>1. EndHolds /\ TypeOK /\ ui \in Seq(Events)
  BY DEF IInv, TypeOK
<1>2. ui' = Append(ui, e) /\ e \in Events /\ e.is = is
  BY <1>1, PostEffect
<1> HIDE DEF e
<1>3. ~EndQueued /\ co.jam = "ending" /\ Quiet
  BY <1>1 DEF EndHolds
<1>4. /\ \A i \in 1..Len(ui) : ui'[i] = ui[i] /\ ~IsEnd(ui[i])
      /\ \A i \in 1..Len(ui') : i \in 1..Len(ui) \/ i = Len(ui')
      /\ ui'[Len(ui')] = e
  BY <1>1, <1>2, <1>3, QueuePut DEF EndQueued
<1>5. \A i \in 1..Len(ui') : IsEnd(ui'[i]) => i = Len(ui')
  BY <1>4
<1>6. \A i \in 1..Len(ui') : ui'[i].is = "ended" => i = Len(ui') /\ is = "ended"
  BY <1>2, <1>4, <1>5 DEF IsEnd
<1>7. Quiet'
  BY <1>3 DEF Quiet, Leases
<1> QED
  BY <1>1, <1>3, <1>5, <1>6, <1>7 DEF EndHolds

\* The UI thread takes an event out.
LEMMA EndHandled ==
  ASSUME IInv, UiHandles
  PROVE  EndHolds'
<1> DEFINE e == ui[1]
<1>1. /\ EndHolds /\ TypeOK /\ ui \in Seq(Events) /\ e \in Events /\ ui # <<>>
      /\ UNCHANGED <<loop, pass, stop, store, manifest, media>>
  BY UiEffect DEF IInv
<1>2. /\ Len(ui') = Len(ui) - 1 /\ Len(ui) \in Nat
      /\ \A i \in 1..Len(ui') : ui'[i] = ui[i + 1] /\ i + 1 \in 1..Len(ui) /\ i + 1 # 1
      /\ Len(ui) = 1 => ui' = <<>>
      /\ EndQueued' => EndQueued /\ 1 \in 1..Len(ui)
      /\ IsEnd(e) => EndQueued
  BY <1>1, UiEffect, QueueTaken
<1>3. co.jam # "closed"
  BY <1>1 DEF EndHolds
<1>4. peer'.state = peer.state
  BY UiPeer DEF Widened
<1>5. \A i, j \in 1..Len(ui') : IsEnd(ui'[i]) /\ IsEnd(ui'[j]) => i = j
  <2> SUFFICES ASSUME NEW i \in 1..Len(ui'), NEW j \in 1..Len(ui'), IsEnd(ui'[i]), IsEnd(ui'[j])
               PROVE  i = j
    OBVIOUS
  <2>1. IsEnd(ui[i + 1]) /\ IsEnd(ui[j + 1])
    BY <1>2
  <2>2. i + 1 = j + 1
    BY <1>1, <1>2, <2>1 DEF EndHolds
  <2> QED
    BY <1>2, <2>2
<1>6. \A i \in 1..Len(ui') : ui'[i].is = "ended" => i = Len(ui') /\ peer.state = "down"
  <2> SUFFICES ASSUME NEW i \in 1..Len(ui'), ui'[i].is = "ended"
               PROVE  i = Len(ui') /\ peer.state = "down"
    OBVIOUS
  <2>1. i + 1 = Len(ui) /\ peer.state = "down"
    BY <1>1, <1>2 DEF EndHolds
  <2> QED
    BY <1>2, <2>1
<1>7. ASSUME co'.jam = co.jam, co'.phase = co.phase \/ co'.phase \notin Busy
      PROVE  EndHolds'
  BY <1>1, <1>2, <1>3, <1>4, <1>5, <1>6, <1>7 DEF EndHolds, Quiet, Leases
<1>8. CASE ShowValidation(e)
  <2>1. ASSUME NEW attention \in BOOLEAN, Shows(e, attention)
        PROVE  EndHolds'
    BY <1>7, <2>1 DEF Shows, PhaseOf, Busy
  <2>2. CASE Raises(e.take)
    BY <1>7, <2>2 DEF Raises
  <2> QED
    BY <1>1, <1>8, <2>1, <2>2, ShowValidationEffect
<1>9. CASE ShowRefresh(e)
  BY <1>1, <1>7, <1>9, ShowRefreshEffect DEF PhaseOf, Busy
<1>10. CASE ShowEnd(e)
  <2>1. /\ IsEnd(e) /\ EndQueued /\ peer' = peer
        /\ \/ e.is = "retry" /\ co'.jam = "retry" /\ co'.phase = co.phase
           \/ e.is = "ended" /\ co'.jam = "closed" /\ co'.phase = "idle"
    BY <1>1, <1>2, <1>10, ShowEndEffect
  <2>2. co.jam = "ending" /\ stop = "rest" /\ Quiet /\ co.phase \notin Busy
    BY <1>1, <2>1 DEF EndHolds
  <2>3. ~EndQueued'
    <3>1. \A i \in 1..Len(ui') : ~IsEnd(ui'[i])
      BY <1>1, <1>2, <2>1 DEF EndHolds
    <3> QED
      BY <3>1 DEF EndQueued
  <2>4. e.is = "ended" => ui' = <<>> /\ peer.state = "down"
    BY <1>1, <1>2, <2>1 DEF EndHolds
  <2> QED
    BY <1>1, <1>5, <1>6, <2>1, <2>2, <2>3, <2>4 DEF EndHolds, Quiet, Leases, Busy
<1> QED
  BY <1>8, <1>9, <1>10, UiEffect

\* A take that is named is one of Takes.
LEMMA TakeTypes ==
  ASSUME IInv
  PROVE  /\ Record => co.number + 1 \in Takes
         /\ StopRecording => co.take \in Takes /\ co.take = co.number /\ co.jam = "open"
<1>1. ASSUME Record
      PROVE  co.number + 1 \in Takes
  BY <1>1, Bounds DEF IInv, Record, TypeOK, CoStates, Takes
<1>2. ASSUME StopRecording
      PROVE  co.take \in Takes /\ co.take = co.number /\ co.jam = "open"
  BY <1>2, Bounds DEF IInv, NumbersHold, EndHolds, Busy, StopRecording, TypeOK, CoStates, Takes
<1> QED
  BY <1>1, <1>2

LEMMA EndStep ==
  ASSUME IInv, Next
  PROVE  EndHolds'
<1>1. TypeOK /\ EndHolds /\ peer \in Sessions /\ "maintenance" \in Passes /\ "validation" \in Passes
  BY DEF IInv, TypeOK, Passes
<1>2. CASE JamStarts
  BY <1>1, <1>2, ClosedQuiet DEF JamStarts, EndHolds, EndQueued, Quiet, Leases, TypeOK, CoStates, Busy
<1>3. CASE EndJam
  BY <1>1, <1>3 DEF EndJam, EndHolds, EndQueued, Quiet, Leases, TypeOK, CoStates, Busy
<1>4. CASE PeerStarts
  <2>1. peer'.state = "up"
    <3>1. peer'.state = [peer EXCEPT !.state = "up", !.gen = @ + 1].state
      BY <1>4 DEF PeerStarts, Cleared
    <3> QED
      BY <1>1, <3>1 DEF Sessions
  <2>2. ~EndQueued /\ stop = "rest" /\ co.jam = "open"
    BY <1>1, <1>4 DEF PeerStarts, EndHolds
  <2> QED
    BY <1>1, <1>4, <2>1, <2>2 DEF PeerStarts, EndHolds, EndQueued, Quiet, IsEnd
<1>5. CASE Record
  BY <1>1, <1>5, TakeTypes, Widens, EndSame DEF Record, Widened, Leases, TypeOK, CoStates
<1>6. CASE StopRecording
  BY <1>1, <1>6, TakeTypes, Widens, EndSame DEF StopRecording, Widened, Leases, TypeOK, CoStates
<1>7. CASE UiHandles
  BY <1>7, EndHandled
<1>8. CASE WorkerValidates \/ WorkerNotes \/ WorkerReplaces \/ WorkerLoads
  BY <1>8, EndSame DEF WorkerValidates, WorkerNotes, WorkerReplaces, WorkerLoads, Leases
<1>9. CASE WorkerRegisters
  <2>1. worker.take \in Takes /\ Active
    BY <1>9, WorkersTake DEF WorkerRegisters, IInv, ValidationHolds, Active
  <2>2. Widened(worker.take)
    BY <1>1, <1>9, <2>1, Widens DEF WorkerRegisters
  <2>3. pass'["validation"].at = "called" /\ pass'["maintenance"] = pass["maintenance"]
    BY <1>1, <1>9, <2>1, ConstantTypes DEF WorkerRegisters, Become, TypeOK
  <2>4. Leases' => Leases
    BY <2>3, PassKinds DEF Leases
  <2> QED
    BY <1>9, <2>2, <2>4, EndSame DEF WorkerRegisters, Widened
<1>10. CASE WorkerReadsMarker
  <2>1. pass'["validation"].at = "rest" /\ pass'["maintenance"] = pass["maintenance"]
    BY <1>1, <1>10 DEF WorkerReadsMarker, Become, TypeOK, NoPass
  <2>2. Leases' => Leases
    BY <2>1, PassKinds DEF Leases
  <2>3. co'.jam = co.jam /\ co'.phase = co.phase
    BY <1>1, <1>10 DEF WorkerReadsMarker, TypeOK, CoStates
  <2> QED
    BY <1>10, <2>2, <2>3, EndSame DEF WorkerReadsMarker
<1>11. CASE WorkerPosts
  <2>1. worker.take \in Takes /\ co.phase = "finalizing"
    BY <1>11, WorkersTake DEF WorkerPosts, IInv, ValidationHolds
  <2>2. [is |-> "show", take |-> worker.take, found |-> worker.found, attention |-> worker.attention] \in Events
    BY <1>1, <2>1, EventTypes DEF TypeOK, Workers
  <2>3. ~IsEnd([is |-> "show", take |-> worker.take, found |-> worker.found, attention |-> worker.attention])
    BY DEF IsEnd
  <2>4. co.jam = "open" /\ ~EndQueued
    BY <1>1, <2>1 DEF EndHolds, Busy
  <2> QED
    BY <1>11, <2>2, <2>3, <2>4, EndAppends DEF WorkerPosts, Leases
<1>12. CASE MaintenanceCalls
  <2>1. PICK t \in Due : Become("maintenance", Called(t))
    BY <1>12 DEF MaintenanceCalls
  <2>2. t \in Takes
    BY <1>1 DEF Due, TypeOK, Sessions
  <2>3. pass'["maintenance"].at = "called" /\ pass'["validation"] = pass["validation"]
    BY <1>1, <2>1, <2>2, ConstantTypes DEF Become, TypeOK
  <2>4. Leases' => Leases
    BY <2>3, PassKinds DEF Leases
  <2> QED
    BY <1>12, <2>4, EndSame DEF MaintenanceCalls
<1>13. CASE MaintenanceEnds
  BY <1>13, EndSame DEF MaintenanceEnds, Leases
<1>14. CASE StopRequests
  <2>1. peer'.state # "up"
    BY <1>1, <1>14 DEF StopRequests, Sessions
  <2>2. co.jam = "ending" /\ ~EndQueued
    BY <1>1, <1>14 DEF StopRequests, EndHolds
  <2> QED
    BY <1>1, <1>14, <2>1, <2>2 DEF StopRequests, EndHolds, EndQueued, IsEnd
<1>15. CASE StopWaits
  BY <1>1, <1>15 DEF StopWaits, EndHolds, EndQueued, Quiet, Leases, IsEnd
<1>16. CASE StopFinishes
  <2>1. peer'.state = "down"
    <3>1. peer'.state = [peer EXCEPT !.state = "down"].state
      BY <1>16 DEF StopFinishes, Cleared
    <3> QED
      BY <1>1, <3>1 DEF Sessions
  <2> QED
    BY <1>16, <2>1, EndPosts DEF StopFinishes
<1>17. CASE StopGivesUp
  BY <1>17, EndPosts DEF StopGivesUp
<1>18. ASSUME NEW p \in Passes, PassLocks(p) \/ PassStep(p)
       PROVE  EndHolds'
  <2>1. CASE PassTells(p)
    <3> DEFINE e == [is |-> "refresh", take |-> pass[p].take, found |-> TRUE, attention |-> FALSE]
    <3>1. pass[p].take \in Takes /\ Leases
      BY <2>1, PassTellsEffect DEF Leases
    <3>2. e \in Events /\ ~IsEnd(e) /\ ui' = Append(ui, e)
      BY <2>1, <3>1, EventTypes DEF PassTells, IsEnd
    <3>3. ~EndQueued /\ co.jam # "closed"
      BY <1>1, <3>1, ClosedQuiet DEF EndHolds, Quiet
    <3> HIDE DEF e
    <3> QED
      BY <2>1, <3>1, <3>2, <3>3, EndAppends DEF PassTells
  <2>2. CASE ~PassTells(p)
    BY <1>18, <2>2, LeasesGiven, EndSame
  <2> QED
    BY <2>1, <2>2
<1>19. ASSUME NEW t \in Takes, NEW g \in Guests, GuestUploads(t, g)
       PROVE  EndHolds'
  BY <1>19, EndSame DEF GuestUploads, Leases
<1> QED
  BY <1>2, <1>3, <1>4, <1>5, <1>6, <1>7, <1>8, <1>9, <1>10, <1>11, <1>12, <1>13, <1>14, <1>15, <1>16, <1>17,
     <1>18, <1>19 DEF Next, User, WorkerStep, MaintenanceStep, StopStep
-----------------------------------------------------------------------------
(* The validation of a take.                                               *)

ShowNone == \A i \in 1..Len(ui) : ui[i].is # "show"

\* Nothing of a validation is there outside of the finalizing phase.
LEMMA NoValidation ==
  ASSUME IInv, co.phase # "finalizing"
  PROVE  worker.at = "rest" /\ ShowNone /\ pass["validation"].at = "rest"
  BY DEF IInv, ValidationHolds, ShowNone

LEMMA ValidationNone ==
  ASSUME worker'.at = "rest", ShowNone', pass'["validation"].at = "rest"
  PROVE  ValidationHolds'
  BY DEF ValidationHolds, ShowNone, Going

LEMMA ValidationSame ==
  ASSUME IInv, co'.phase = co.phase, co'.take = co.take, UNCHANGED <<ui, worker>>,
         pass'["validation"] = pass["validation"], peer.state = "up" => peer'.state = "up"
  PROVE  ValidationHolds'
  BY DEF IInv, ValidationHolds, Going

\* Another event than the result is put in the queue.
LEMMA ValidationAppends ==
  ASSUME IInv, NEW e \in Events, e.is # "show", ui' = Append(ui, e), UNCHANGED <<co, worker>>,
         worker.at = "rest" \/ peer' = peer,
         pass'["validation"] = pass["validation"] \/ (pass["validation"].at # "rest" /\ ~Going("validation")')
  PROVE  ValidationHolds'
<1>1. ValidationHolds /\ ui \in Seq(Events)
  BY DEF IInv, TypeOK
<1>2. /\ \A i \in 1..Len(ui) : ui'[i] = ui[i] /\ i \in 1..Len(ui')
      /\ \A i \in 1..Len(ui') : i \in 1..Len(ui) \/ i = Len(ui')
      /\ ui'[Len(ui')] = e
  BY <1>1, QueuePut
<1>3. \A i \in 1..Len(ui') : ui'[i].is = "show" => i \in 1..Len(ui) /\ ui'[i] = ui[i]
  BY <1>2
<1> QED
  BY <1>1, <1>3 DEF ValidationHolds, Going

LEMMA ValidationHandled ==
  ASSUME IInv, UiHandles
  PROVE  ValidationHolds'
<1> DEFINE e == ui[1]
<1>1. /\ ValidationHolds /\ TypeOK /\ ui \in Seq(Events) /\ e \in Events /\ ui # <<>>
      /\ UNCHANGED <<loop, pass, stop, store, manifest, media>> /\ peer'.state = peer.state
  BY UiEffect, UiPeer DEF IInv, Widened
<1>2. /\ \A i \in 1..Len(ui') : ui'[i] = ui[i + 1] /\ i + 1 \in 1..Len(ui) /\ i + 1 # 1
      /\ 1 \in 1..Len(ui) /\ Len(ui') \in Nat
  BY <1>1, UiEffect, QueueTaken
<1>3. ShowNone => ShowNone'
  BY <1>2 DEF ShowNone
<1>5. CASE ShowValidation(e)
  <2>1. e.is = "show" /\ e.take = co.take /\ co.phase = "finalizing"
    BY <1>1, <1>2, <1>5 DEF ShowValidation, ValidationHolds
  <2>2. worker.at = "rest" /\ pass["validation"].at = "rest"
    BY <1>1, <1>2, <2>1 DEF ValidationHolds
  <2>3. ShowNone'
    BY <1>1, <1>2, <2>1 DEF ShowNone, ValidationHolds
  <2>4. CASE Raises(e.take)
    BY <1>1, <2>1, <2>2, <2>3, <2>4 DEF Raises, ShowNone, ValidationHolds, Going
  <2>5. ASSUME NEW attention \in BOOLEAN, Shows(e, attention)
        PROVE  ValidationHolds'
    BY <1>1, <2>2, <2>3, <2>5, ValidationNone DEF Shows
  <2> QED
    BY <1>1, <1>5, <2>4, <2>5, ShowValidationEffect
<1>4. CASE co.phase # "finalizing" /\ ~ShowValidation(e)
  <2>1. worker' = worker
    BY <1>1, <1>4, UiEffect, ShowRefreshEffect, ShowEndEffect
  <2> QED
    BY <1>1, <1>3, <1>4, <2>1, NoValidation, ValidationNone
<1>6. CASE co.phase = "finalizing" /\ ShowRefresh(e)
  <2>1. co'.phase = co.phase /\ co'.take = co.take /\ worker' = worker
    BY <1>1, <1>6, ShowRefreshEffect DEF RefreshApplies
  <2>2. \A i, j \in 1..Len(ui') : ui'[i].is = "show" /\ ui'[j].is = "show" => i = j
    <3> SUFFICES ASSUME NEW i \in 1..Len(ui'), NEW j \in 1..Len(ui'), ui'[i].is = "show", ui'[j].is = "show"
                 PROVE  i = j
      OBVIOUS
    <3>1. i + 1 = j + 1
      BY <1>1, <1>2 DEF ValidationHolds
    <3> QED
      BY <1>2, <3>1
  <2> QED
    BY <1>1, <1>2, <2>1, <2>2 DEF ValidationHolds, Going
<1>7. CASE co.phase = "finalizing" /\ ShowEnd(e)
  <2>1. EndQueued
    BY <1>1, <1>7, UiEffect, QueueTaken, ShowEndEffect
  <2>2. co.phase \notin Busy
    BY <2>1 DEF IInv, EndHolds
  <2> QED
    BY <1>7, <2>2 DEF Busy
<1> QED
  BY <1>4, <1>5, <1>6, <1>7, UiEffect

LEMMA ValidationWorker ==
  ASSUME IInv, WorkerStep
  PROVE  ValidationHolds'
<1>1. /\ TypeOK /\ ValidationHolds /\ worker \in Workers /\ worker.at # "rest" /\ worker.take \in Takes
      /\ "validation" \in Passes /\ "maintenance" \in Passes
  BY WorkersTake DEF IInv, TypeOK, WorkerStep, WorkerValidates, WorkerRegisters, WorkerReadsMarker, WorkerNotes,
     WorkerReplaces, WorkerLoads, WorkerPosts, Passes
<1>2. co.phase = "finalizing" /\ worker.take = co.take /\ ShowNone
  BY <1>1 DEF ValidationHolds, ShowNone
<1>3. peer.state # "stopping"
  BY <1>2 DEF IInv, EndHolds, Busy
<1>4. ASSUME worker'.at # "rest", worker'.take = worker.take, ui' = ui,
             co'.phase = co.phase, co'.take = co.take, peer'.state = peer.state,
             pass'["validation"].at # "rest" => worker'.at = "reconciling",
             Going("validation")' => pass'["validation"].take = co.take,
             worker'.at \notin {"rest", "validating", "posting", "lost"} => peer.state = "up",
             worker'.at \in {"noting", "replacing"} => worker'.left > 0
      PROVE  ValidationHolds'
  BY <1>2, <1>4 DEF ValidationHolds, ShowNone
<1>5. CASE WorkerValidates
  <2>1. /\ worker'.take = worker.take /\ worker'.at \in {"inventory", "posting", "lost"}
        /\ worker'.at = "inventory" => Active
    <3>1. ASSUME NEW found \in BOOLEAN, NEW attention \in BOOLEAN, Result(found, attention)
          PROVE  <2>1!:
      BY <1>1, <3>1 DEF Result, Workers
    <3>2. CASE Lost(worker.take)
      BY <3>2 DEF Lost, NoWork
    <3>3. (\E found, attention \in BOOLEAN : Result(found, attention)) \/ Lost(worker.take)
      BY <1>5 DEF WorkerValidates
    <3> QED
      BY <3>1, <3>2, <3>3
  <2>2. worker'.at = "inventory" => peer.state = "up"
    BY <1>1, <1>3, <2>1 DEF Active, TypeOK, Sessions
  <2>3. pass["validation"].at = "rest"
    BY <1>1, <1>5 DEF WorkerValidates, ValidationHolds
  <2> QED
    BY <1>4, <1>5, <2>1, <2>2, <2>3 DEF WorkerValidates, Going
<1>6. CASE WorkerRegisters
  <2>1. Active /\ peer.state = "up"
    BY <1>1, <1>6 DEF WorkerRegisters, ValidationHolds, Active
  <2>2. peer'.state = peer.state
    BY <1>1, <1>6, <2>1, Widens DEF WorkerRegisters, Widened
  <2>3. pass'["validation"].at = "called" /\ pass'["validation"].take = worker.take
    BY <1>1, <1>6, ConstantTypes DEF WorkerRegisters, Become, TypeOK
  <2>4. worker'.take = worker.take /\ worker'.at = "reconciling"
    BY <1>1, <1>6 DEF WorkerRegisters, Workers
  <2> QED
    BY <1>2, <1>4, <1>6, <2>1, <2>2, <2>3, <2>4 DEF WorkerRegisters
<1>7. CASE WorkerReadsMarker
  <2>1. pass'["validation"].at = "rest"
    BY <1>1, <1>7 DEF WorkerReadsMarker, Become, TypeOK, NoPass
  <2>2. /\ worker'.take = worker.take /\ worker'.at \in {"loading", "noting"}
        /\ worker'.at = "noting" => worker'.left = 3
    BY <1>1, <1>7 DEF WorkerReadsMarker, Workers
  <2>3. co'.phase = co.phase /\ co'.take = co.take /\ peer' = peer /\ ui' = ui
    BY <1>1, <1>7 DEF WorkerReadsMarker, TypeOK, CoStates
  <2>4. peer.state = "up"
    BY <1>1, <1>7 DEF WorkerReadsMarker, ValidationHolds
  <2> QED
    BY <1>4, <2>1, <2>2, <2>3, <2>4 DEF Going
<1>8. CASE WorkerNotes
  <2>1. worker'.take = worker.take /\ worker'.at \in {"replacing", "loading"} /\ worker'.left = worker.left
    BY <1>1, <1>8 DEF WorkerNotes, Workers
  <2> QED
    BY <1>1, <1>4, <1>8, <2>1 DEF WorkerNotes, ValidationHolds, Going
<1>9. CASE WorkerReplaces
  <2>1. /\ worker'.take = worker.take /\ worker'.at \in {"noting", "loading", "lost"}
        /\ worker'.at = "noting" => worker.left > 1 /\ worker'.left = worker.left - 1
    BY <1>1, <1>9 DEF WorkerReplaces, Workers, Lost, NoWork
  <2>2. worker'.at = "noting" => worker'.left > 0
    BY <1>1, <2>1 DEF Workers
  <2> QED
    BY <1>1, <1>4, <1>9, <2>1, <2>2 DEF WorkerReplaces, ValidationHolds, Going
<1>10. CASE WorkerLoads
  <2>1. worker'.take = worker.take /\ worker'.at \in {"posting", "lost"}
    BY <1>1, <1>10 DEF WorkerLoads, Workers, Lost, NoWork
  <2> QED
    BY <1>1, <1>4, <1>10, <2>1 DEF WorkerLoads, ValidationHolds, Going
<1>11. CASE WorkerPosts
  <2> DEFINE e == [is |-> "show", take |-> worker.take, found |-> worker.found, attention |-> worker.attention]
  <2>1. e \in Events /\ ui' = Append(ui, e) /\ ui \in Seq(Events) /\ e.take = worker.take /\ e.is = "show"
    BY <1>1, <1>11, EventTypes DEF TypeOK, Workers, WorkerPosts
  <2> HIDE DEF e
  <2>2. /\ \A i \in 1..Len(ui) : ui'[i] = ui[i]
        /\ \A i \in 1..Len(ui') : i \in 1..Len(ui) \/ i = Len(ui')
        /\ ui'[Len(ui')] = e
    BY <2>1, QueuePut
  <2>3. \A i \in 1..Len(ui') : ui'[i].is = "show" => i = Len(ui') /\ ui'[i].take = co.take
    BY <1>2, <2>1, <2>2 DEF ShowNone
  <2>4. worker'.at = "rest" /\ UNCHANGED <<co, pass>> /\ pass["validation"].at = "rest"
    BY <1>1, <1>11 DEF WorkerPosts, NoWork, ValidationHolds
  <2> QED
    BY <1>2, <2>3, <2>4 DEF ValidationHolds, Going
<1> QED
  BY <1>5, <1>6, <1>7, <1>8, <1>9, <1>10, <1>11 DEF WorkerStep
\* The step of a pass, as the validation sees it.
LEMMA ValidationPasses ==
  ASSUME IInv, NEW p \in Passes, PassLocks(p) \/ PassStep(p)
  PROVE  ValidationHolds'
<1>1. TypeOK /\ ValidationHolds /\ "validation" \in Passes
  BY DEF IInv, TypeOK, Passes
<1>2. CASE PassTells(p)
  <2> DEFINE e == [is |-> "refresh", take |-> pass[p].take, found |-> TRUE, attention |-> FALSE]
  <2>1. pass[p].take \in Takes
    BY <1>2, PassTellsEffect
  <2>2. e \in Events /\ e.is # "show" /\ ui' = Append(ui, e)
    BY <1>2, <2>1, EventTypes DEF PassTells
  <2>3. pass'["validation"] = pass["validation"] \/ (pass["validation"].at # "rest" /\ ~Going("validation")')
    <3>1. CASE p = "validation"
      BY <1>1, <1>2, <3>1, PassTellsEffect DEF Going
    <3>2. CASE p = "maintenance"
      BY <1>1, <1>2, <3>2, PassTellsEffect
    <3> QED
      BY <3>1, <3>2, PassKinds
  <2> HIDE DEF e
  <2> QED
    BY <1>2, <2>2, <2>3, ValidationAppends DEF PassTells
<1>3. CASE ~PassTells(p)
  <2>1. UNCHANGED <<co, worker, peer, ui>>
    BY <1>3, LeasesGiven
  <2>2. CASE p = "maintenance"
    <3>1. pass'["validation"] = pass["validation"]
      BY <1>1, <1>3, <2>2, PassReadsEffect, PassAttachesEffect, PassPublishesEffect DEF PassLocks, PassStep, Going
    <3> QED
      BY <2>1, <3>1, ValidationSame
  <2>3. CASE p = "validation"
    <3>1. Going(p)
      BY <1>3 DEF PassLocks, PassStep, PassPublishes, PassAttaches, Going
    <3>2. worker.at = "reconciling" /\ pass[p].take = co.take
      BY <1>1, <2>3, <3>1 DEF ValidationHolds, Going
    <3>3. Going(p)' => pass'[p].take = pass[p].take
      <4>1. CASE PassReads(p)
        BY <2>3, <3>1, <4>1, PassReadsEffect DEF Going
      <4>2. CASE PassPublishes(p)
        BY <2>3, <4>2, PassPublishesEffect DEF Going
      <4>3. ASSUME NEW g \in Guests, PassAttaches(p, g)
            PROVE  Going(p)' => pass'[p].take = pass[p].take
        BY <2>3, <4>3, PassAttachesEffect DEF Going
      <4> QED
        BY <1>3, <4>1, <4>2, <4>3 DEF PassLocks, PassStep
    <3> QED
      BY <1>1, <2>1, <2>3, <3>2, <3>3 DEF ValidationHolds
  <2> QED
    BY <2>2, <2>3, PassKinds
<1> QED
  BY <1>2, <1>3

LEMMA ValidationStep ==
  ASSUME IInv, Next
  PROVE  ValidationHolds'
<1>1. TypeOK /\ ValidationHolds /\ "validation" \in Passes /\ "maintenance" \in Passes
  BY DEF IInv, TypeOK, Passes
<1>2. CASE JamStarts \/ EndJam
  <2>1. co'.phase = co.phase /\ co'.take = co.take
    BY <1>1, <1>2 DEF JamStarts, EndJam, TypeOK, CoStates
  <2> QED
    BY <1>2, <2>1, ValidationSame DEF JamStarts, EndJam
<1>3. CASE PeerStarts
  BY <1>3, ValidationSame DEF PeerStarts
<1>4. CASE Record
  <2>1. worker.at = "rest" /\ ShowNone /\ pass["validation"].at = "rest"
    BY <1>4, NoValidation DEF Record, Busy
  <2> QED
    BY <1>4, <2>1, ValidationNone DEF Record, ShowNone
<1>5. CASE StopRecording
  <2>1. worker.at = "rest" /\ ShowNone /\ pass["validation"].at = "rest"
    BY <1>5, NoValidation DEF StopRecording
  <2>2. co'.phase = "finalizing" /\ co'.take = co.take
    BY <1>1, <1>5 DEF StopRecording, TypeOK, CoStates
  <2>3. worker'.at = "validating" /\ worker'.take = co.take
    BY <1>5 DEF StopRecording, NoWork
  <2> QED
    BY <1>5, <2>1, <2>2, <2>3 DEF StopRecording, ValidationHolds, ShowNone, Going
<1>6. CASE UiHandles
  BY <1>6, ValidationHandled
<1>7. CASE WorkerStep
  BY <1>7, ValidationWorker
<1>8. CASE MaintenanceCalls
  <2>1. pass'["validation"] = pass["validation"]
    BY <1>1, <1>8 DEF MaintenanceCalls, Become, TypeOK
  <2> QED
    BY <1>8, <2>1, ValidationSame DEF MaintenanceCalls
<1>9. CASE MaintenanceEnds
  BY <1>9, ValidationSame DEF MaintenanceEnds
<1>10. CASE StopWaits
  BY <1>10, ValidationSame DEF StopWaits
<1>11. CASE StopRequests \/ StopFinishes \/ StopGivesUp
  <2>1. stop # "rest" /\ co' = co /\ worker' = worker /\ pass' = pass
    BY <1>11 DEF StopRequests, StopFinishes, StopGivesUp
  <2>2. co.phase # "finalizing"
    BY <2>1 DEF IInv, EndHolds, Busy
  <2>3. worker.at = "rest" /\ ShowNone /\ pass["validation"].at = "rest"
    BY <2>2, NoValidation
  <2>4. ShowNone'
    <3>1. CASE ui' = ui
      BY <2>3, <3>1 DEF ShowNone
    <3>2. CASE StopFinishes \/ StopGivesUp
      <4>1. PICK is \in {"ended", "retry"} : Post(is)
        BY <3>2 DEF StopFinishes, StopGivesUp
      <4> DEFINE e == [is |-> is, take |-> 0, found |-> FALSE, attention |-> FALSE]
      <4>2. e \in Events /\ e.is # "show" /\ ui' = Append(ui, e) /\ ui \in Seq(Events)
        BY <1>1, <4>1, PostEffect DEF TypeOK
      <4> HIDE DEF e
      <4> QED
        BY <2>3, <4>2, QueuePut DEF ShowNone
    <3> QED
      BY <1>11, <3>1, <3>2 DEF StopRequests
  <2> QED
    BY <2>1, <2>3, <2>4, ValidationNone
<1>12. ASSUME NEW p \in Passes, PassLocks(p) \/ PassStep(p)
       PROVE  ValidationHolds'
  BY <1>12, ValidationPasses
<1>13. ASSUME NEW t \in Takes, NEW g \in Guests, GuestUploads(t, g)
       PROVE  ValidationHolds'
  BY <1>13, ValidationSame DEF GuestUploads
<1> QED
  BY <1>2, <1>3, <1>4, <1>5, <1>6, <1>7, <1>8, <1>9, <1>10, <1>11, <1>12, <1>13
     DEF Next, User, MaintenanceStep, StopStep
-----------------------------------------------------------------------------
(* The numbers of takes.                                                   *)

\* A take that is not yet validated has no manifest.
Untouched(t) == t > co.number \/ (t = co.number /\ (co.phase = "recording" \/ worker.at = "validating"))

LEMMA CoNumbers ==
  ASSUME TypeOK
  PROVE  /\ co.number \in Nat /\ co.take \in Nat /\ co.last \in Nat /\ co.marked \in Nat
         /\ Takes \subseteq Nat /\ 0 \notin Takes /\ MaxTakes \in Nat
         /\ \A t \in 0..MaxTakes : t # 0 => t \in Takes
         /\ co.number \in 0..MaxTakes /\ co.take \in 0..MaxTakes /\ co.last \in 0..MaxTakes /\ co.marked \in 0..MaxTakes
  BY Bounds DEF TypeOK, CoStates, Takes

LEMMA NumbersSame ==
  ASSUME IInv,
         co'.number = co.number, co'.take = co.take, co'.last = co.last, co'.marked = co.marked,
         co'.phase = co.phase, worker'.at = "validating" => worker.at = "validating",
         \A t \in Takes : Untouched(t) /\ manifest[t] = NoManifest => manifest'[t] = NoManifest,
         \A t \in Takes : t \in peer'.known => t \in peer.known \/ t <= co.number
  PROVE  NumbersHold'
<1>1. NumbersHold /\ TypeOK
  BY DEF IInv
<1>2. (co.phase = "recording" \/ worker.at = "validating") => co.number \in Takes
  <2>1. (co.phase = "recording" \/ worker.at = "validating") => co.marked < co.number
    BY <1>1 DEF NumbersHold
  <2> QED
    BY <1>1, <2>1, CoNumbers
<1>3. co'.phase = "recording" \/ worker'.at = "validating" =>
        co'.marked < co'.number /\ manifest'[co'.number] = NoManifest
  BY <1>1, <1>2 DEF NumbersHold, Untouched
<1>4. ASSUME NEW t \in Takes, t > co.number
      PROVE  manifest'[t] = NoManifest /\ t \notin peer'.known
  BY <1>1, <1>4, CoNumbers DEF NumbersHold, Untouched
<1> QED
  BY <1>1, <1>3, <1>4 DEF NumbersHold, Busy

\* A pass changes the manifest of a take that has one, and tells of it or
\* raises.
Published(p) ==
  LET r == pass[p]
      t == r.take
  IN /\ PassPublishes(p) /\ t \in Takes /\ r.at = "attaching" /\ r.todo = {} /\ r \in PassStates
     /\ Current(r.gen) /\ manifest[t] = r.seen /\ r.seen.rev > 0
     /\ \E n \in Reconciled(r.seen, r.owed, r.inv, r.issue) :
          manifest' = [manifest EXCEPT ![t] = [n EXCEPT !.rev = @ + 1]]
     /\ \/ pass'[p].at = "told" /\ pass'[p].take = t
        \/ pass'[p].at \in {"rest", "failed"} /\ untold' = untold \cup {t}

LEMMA PassManifests ==
  ASSUME IInv, NEW p \in Passes, PassLocks(p) \/ PassStep(p)
  PROVE  manifest' = manifest \/ Published(p)
<1>1. PassesHold
  BY DEF IInv
<1>2. CASE PassPublishes(p)
  <2>1. pass[p].at = "attaching" => pass[p].seen.rev > 0
    BY <1>1 DEF PassesHold
  <2> QED
    BY <1>2, <2>1, PassPublishesEffect DEF Published
<1>3. CASE ~PassPublishes(p)
  BY <1>3 DEF PassLocks, PassStep, PassReads, PassTells, PassAttaches
<1> QED
  BY <1>2, <1>3

LEMMA NumbersHandled ==
  ASSUME IInv, UiHandles
  PROVE  NumbersHold'
<1> DEFINE e == ui[1]
<1>1. /\ TypeOK /\ NumbersHold /\ ValidationHolds /\ EndHolds /\ e \in Events /\ 1 \in 1..Len(ui)
      /\ UNCHANGED <<loop, pass, stop, store, manifest, media>>
  BY UiEffect DEF IInv
<1>2. CASE ShowValidation(e)
  <2>1. e.is = "show"
    BY <1>2 DEF ShowValidation
  <2>2. co.phase = "finalizing" /\ e.take = co.take /\ worker.at = "rest"
    BY <1>1, <2>1 DEF ValidationHolds
  <2>3. co.take = co.number
    BY <1>1, <2>2 DEF NumbersHold, Busy
  <2>4. ASSUME NEW attention \in BOOLEAN, Shows(e, attention)
        PROVE  NumbersHold'
    <3>1. /\ co'.phase \notin Busy /\ co'.take = 0 /\ co'.last <= co'.number /\ co'.marked <= co'.number
          /\ co'.number = co.number /\ worker' = worker
      BY <1>1, <2>2, <2>3, <2>4, CoNumbers DEF Shows, PhaseOf, Busy, NumbersHold
    <3>2. ASSUME NEW t \in Takes, t > co.number
          PROVE  t \notin peer'.known
      <4>1. Widened(co.take) /\ t # co.take /\ t \notin peer.known
        BY <1>1, <2>2, <2>3, <2>4, <3>2, CoNumbers DEF NumbersHold, Shows
      <4> QED
        BY <4>1 DEF Widened
    <3> QED
      BY <1>1, <2>2, <3>1, <3>2 DEF NumbersHold, Busy
  <2>5. CASE Raises(e.take)
    BY <1>1, <2>5, NumbersSame DEF Raises
  <2> QED
    BY <1>1, <1>2, <2>4, <2>5, ShowValidationEffect
<1>3. CASE ShowRefresh(e)
  <2>1. CASE RefreshApplies(e.take) /\ ~RefreshWaits(e.take)
    <3>1. co.last = e.take /\ co.take \in {0, e.take} /\ e.take \in Takes /\ co.phase # "finalizing"
      BY <1>1, <1>3, <2>1, ShowRefreshEffect DEF RefreshApplies
    <3>2. co.phase \notin Busy
      <4>1. SUFFICES ASSUME co.phase \in Busy PROVE FALSE
        OBVIOUS
      <4>2. co.take = co.number /\ co.last < co.number
        BY <1>1, <4>1 DEF NumbersHold
      <4> QED
        BY <1>1, <3>1, <4>2, CoNumbers
    <3>3. /\ co'.phase \notin Busy /\ co'.take = 0 /\ co'.last = co.last /\ co'.number = co.number
          /\ co'.marked = co.marked /\ worker' = worker
      BY <1>1, <1>3, <2>1, <3>2, ShowRefreshEffect DEF PhaseOf, Busy, NumbersHold
    <3>4. worker.at = "rest"
      BY <3>1, NoValidation
    <3>5. ASSUME NEW t \in Takes, t > co.number
          PROVE  t \notin peer'.known
      <4>1. (Widened(e.take) \/ peer' = peer) /\ t # e.take /\ t \notin peer.known
        BY <1>1, <1>3, <2>1, <3>1, <3>5, ShowRefreshEffect, CoNumbers DEF NumbersHold
      <4> QED
        BY <4>1 DEF Widened
    <3> QED
      BY <1>1, <3>3, <3>4, <3>5 DEF NumbersHold, Busy
  <2>2. CASE ~RefreshApplies(e.take) \/ RefreshWaits(e.take)
    BY <1>1, <1>3, <2>2, ShowRefreshEffect, NumbersSame
  <2> QED
    BY <2>1, <2>2
<1>4. CASE ShowEnd(e)
  <2>1. EndQueued
    BY <1>1, <1>4, UiEffect, QueueTaken, ShowEndEffect
  <2>2. co.phase \notin Busy
    BY <1>1, <2>1 DEF EndHolds
  <2>3. worker.at = "rest"
    BY <2>2, NoValidation DEF Busy
  <2>4. /\ co'.phase \notin Busy /\ co'.number = co.number /\ co'.marked = co.marked
        /\ co'.take = co.take /\ co'.last = co.last /\ peer' = peer /\ worker' = worker
    BY <1>1, <1>4, <2>2, ShowEndEffect DEF Busy
  <2> QED
    BY <1>1, <2>2, <2>3, <2>4 DEF NumbersHold, Busy
<1> QED
  BY <1>2, <1>3, <1>4, UiEffect

LEMMA NumbersStep ==
  ASSUME IInv, Next
  PROVE  NumbersHold'
<1>1. TypeOK /\ NumbersHold /\ peer \in Sessions /\ manifest \in [Takes -> Manifests] /\ worker \in Workers
  BY DEF IInv, TypeOK
<1>2. CASE JamStarts \/ EndJam
  <2>1. /\ co'.phase = co.phase /\ co'.take = co.take /\ co'.last = co.last /\ co'.marked = co.marked
        /\ co'.number = co.number
    BY <1>1, <1>2 DEF JamStarts, EndJam, TypeOK, CoStates
  <2> QED
    BY <1>2, <2>1, NumbersSame DEF JamStarts, EndJam
<1>3. CASE PeerStarts
  <2>1. peer'.known = {}
    <3>1. [peer EXCEPT !.state = "up", !.gen = @ + 1].known = peer.known
      BY <1>1 DEF Sessions
    <3> QED
      BY <1>3 DEF PeerStarts, Cleared
  <2> QED
    BY <1>3, <2>1, NumbersSame DEF PeerStarts
<1>4. CASE Record
  <2>1. co.number + 1 \in Takes /\ Widened(co.number + 1)
    BY <1>1, <1>4, TakeTypes, Widens DEF Record
  <2>2. /\ co'.phase = "recording" /\ co'.number = co.number + 1 /\ co'.take = co.number + 1
        /\ co'.last = co.last /\ co'.marked = co.marked
    BY <1>1, <1>4 DEF Record, TypeOK, CoStates
  <2>3. co'.last < co'.number /\ co'.marked < co'.number /\ manifest[co.number + 1] = NoManifest
    BY <1>1, <2>1, <2>2, CoNumbers DEF NumbersHold
  <2>4. ASSUME NEW t \in Takes, t > co'.number
        PROVE  manifest'[t] = NoManifest /\ t \notin peer'.known
    <3>1. t > co.number /\ t # co.number + 1
      BY <1>1, <2>2, <2>4, CoNumbers
    <3>2. manifest[t] = NoManifest /\ t \notin peer.known
      BY <1>1, <3>1 DEF NumbersHold
    <3> QED
      BY <1>4, <2>1, <3>1, <3>2 DEF Record, Widened
  <2>5. co'.phase \in Busy
    BY <2>2 DEF Busy
  <2>6. co'.last <= co'.number /\ co'.marked <= co'.number
    BY <1>1, <2>2, <2>3, CoNumbers
  <2>7. manifest' = manifest
    BY <1>4 DEF Record
  <2> QED
    BY <2>2, <2>3, <2>4, <2>5, <2>6, <2>7 DEF NumbersHold
<1>5. CASE StopRecording
  <2>1. co.take \in Takes /\ co.take = co.number /\ Widened(co.take)
    BY <1>1, <1>5, TakeTypes, Widens DEF StopRecording
  <2>2. /\ co'.phase = "finalizing" /\ co'.number = co.number /\ co'.take = co.take /\ co.phase = "recording"
        /\ co'.last = co.last /\ co'.marked = co.marked /\ manifest' = manifest
    BY <1>1, <1>5 DEF StopRecording, TypeOK, CoStates
  <2>3. ASSUME NEW t \in Takes, t > co.number
        PROVE  t \notin peer'.known
    BY <1>1, <2>1, <2>3, CoNumbers DEF NumbersHold, Widened
  <2> QED
    BY <1>1, <2>1, <2>2, <2>3 DEF NumbersHold, Busy
<1>6. CASE UiHandles
  BY <1>6, NumbersHandled
<1>7. CASE WorkerStep
  <2>1. worker.take \in Takes /\ worker.take = co.take /\ co.take = co.number /\ co.phase = "finalizing"
    BY <1>7, WorkersTake DEF WorkerStep, WorkerValidates, WorkerRegisters, WorkerReadsMarker, WorkerNotes,
       WorkerReplaces, WorkerLoads, WorkerPosts, IInv, ValidationHolds
  <2>2. worker'.at # "validating"
    <3>1. CASE WorkerValidates
      <4>1. (\E found, attention \in BOOLEAN : Result(found, attention)) \/ Lost(worker.take)
        BY <3>1 DEF WorkerValidates
      <4> QED
        BY <1>1, <4>1 DEF Result, Lost, NoWork, Workers
    <3>2. CASE WorkerReplaces
      <4>1. \/ Lost(worker.take)
            \/ \E at \in {"loading", "noting"} :
                 worker' = [worker EXCEPT !.at = at, !.left = @ - 1, !.seen = NoManifest]
        BY <3>2 DEF WorkerReplaces
      <4> QED
        BY <1>1, <4>1 DEF Lost, NoWork, Workers
    <3>3. CASE WorkerRegisters \/ WorkerReadsMarker \/ WorkerNotes \/ WorkerLoads
      BY <1>1, <3>3 DEF WorkerRegisters, WorkerReadsMarker, WorkerNotes, WorkerLoads, Workers, Lost, NoWork
    <3>4. CASE WorkerPosts
      BY <3>4 DEF WorkerPosts, NoWork
    <3> QED
      BY <1>7, <3>1, <3>2, <3>3, <3>4 DEF WorkerStep
  <2>3. CASE WorkerValidates \/ WorkerReplaces
    <3>1. ASSUME NEW t \in Takes, t > co.number
          PROVE  manifest'[t] = NoManifest
      <4>1. t # worker.take /\ manifest[t] = NoManifest
        BY <1>1, <2>1, <3>1, CoNumbers DEF NumbersHold
      <4>2. manifest'[t] = manifest[t]
        BY <1>1, <2>1, <2>3, <4>1 DEF WorkerValidates, WorkerReplaces
      <4> QED
        BY <4>1, <4>2
    <3> QED
      BY <1>1, <2>1, <2>2, <2>3, <3>1 DEF NumbersHold, Busy, WorkerValidates, WorkerReplaces
  <2>4. CASE WorkerRegisters
    <3>1. Active
      BY <2>4 DEF WorkerRegisters, IInv, ValidationHolds, Active
    <3>2. Widened(worker.take)
      BY <1>1, <2>1, <2>4, <3>1, Widens DEF WorkerRegisters
    <3>3. ASSUME NEW t \in Takes, t > co.number
          PROVE  t \notin peer'.known
      BY <1>1, <2>1, <3>2, <3>3, CoNumbers DEF NumbersHold, Widened
    <3> QED
      BY <1>1, <2>1, <2>2, <2>4, <3>3 DEF NumbersHold, Busy, WorkerRegisters
  <2>5. CASE WorkerReadsMarker
    <3>1. /\ co'.phase = co.phase /\ co'.take = co.take /\ co'.last = co.last /\ co'.marked \in {co.marked, co.number}
          /\ co'.number = co.number
      BY <1>1, <2>1, <2>5 DEF WorkerReadsMarker, TypeOK, CoStates
    <3>2. co'.marked <= co'.number
      BY <1>1, <3>1, CoNumbers DEF NumbersHold
    <3> QED
      BY <1>1, <2>1, <2>2, <2>5, <3>1, <3>2 DEF NumbersHold, Busy, WorkerReadsMarker
  <2>6. CASE WorkerNotes \/ WorkerLoads \/ WorkerPosts
    BY <2>2, <2>6, NumbersSame DEF WorkerNotes, WorkerLoads, WorkerPosts
  <2> QED
    BY <1>7, <2>3, <2>4, <2>5, <2>6 DEF WorkerStep
<1>8. CASE MaintenanceStep
  BY <1>8, NumbersSame DEF MaintenanceStep, MaintenanceCalls, MaintenanceEnds
<1>9. CASE StopStep
  <2>1. peer'.known = peer.known \/ peer'.known = {}
    <3>1. [peer EXCEPT !.state = "down"].known = peer.known
      BY <1>1 DEF Sessions
    <3>2. CASE StopFinishes
      <4>1. [peer EXCEPT !.state = "down"] \in Sessions
        BY <1>1 DEF Sessions
      <4> QED
        BY <3>2, <4>1, ClearedType DEF StopFinishes
    <3>3. CASE StopRequests
      BY <1>1, <3>3 DEF StopRequests, Sessions
    <3> QED
      BY <1>9, <3>2, <3>3 DEF StopStep, StopWaits, StopGivesUp
  <2> QED
    BY <1>9, <2>1, NumbersSame DEF StopStep, StopRequests, StopFinishes, StopGivesUp, StopWaits
<1>10. ASSUME NEW p \in Passes, PassLocks(p) \/ PassStep(p)
       PROVE  NumbersHold'
  <2>1. UNCHANGED <<co, worker, peer>>
    BY <1>10, LeasesGiven
  <2>2. ASSUME NEW t \in Takes, manifest[t] = NoManifest
        PROVE  manifest'[t] = NoManifest
    <3>1. manifest[t].rev = 0
      BY <2>2, ManifestTypes
    <3>2. manifest' = manifest \/ (manifest[pass[p].take].rev > 0 /\ \E m : manifest' = [manifest EXCEPT ![pass[p].take] = m])
      BY <1>10, PassManifests DEF Published
    <3>3. t = pass[p].take => ~(manifest[pass[p].take].rev > 0)
      BY <3>1
    <3> QED
      BY <1>1, <2>2, <3>2, <3>3
  <2> QED
    BY <2>1, <2>2, NumbersSame
<1>11. ASSUME NEW t \in Takes, NEW g \in Guests, GuestUploads(t, g)
       PROVE  NumbersHold'
  BY <1>11, NumbersSame DEF GuestUploads
<1> QED
  BY <1>2, <1>3, <1>4, <1>5, <1>6, <1>7, <1>8, <1>9, <1>10, <1>11
     DEF Next, User
-----------------------------------------------------------------------------
(* The manifests: each is what a writer made of the one before.            *)

LEMMA ReconciledFollows ==
  ASSUME NEW m \in Manifests, NEW owed \in SUBSET Guests, NEW inv \in [Guests -> Originals],
         NEW issue \in BOOLEAN, NEW n \in Reconciled(m, owed, inv, issue), NEW k, k = [n EXCEPT !.rev = @ + 1]
  PROVE  /\ MayFollow(m, k) /\ k \in Manifests /\ k.marked /\ k.rev = m.rev + 1
         /\ k.open = Missing(owed, inv, issue) /\ k.base = m.base
         /\ \A g \in Attached(k) : g \in Guests /\ (g \in Attached(m) \/ inv[g] \in Arrived)
         /\ \A g \in Guests : inv[g] \in Arrived => g \in Attached(k)
<1>1. /\ n \in Manifests /\ n.rev = m.rev /\ n.marked /\ n.base = m.base
      /\ n.open = Missing(owed, inv, issue)
      /\ \A g \in Guests : n.timing[g] \in TimingsAfter(m.timing[g], inv[g])
  BY ReconciledIs
<1>2. /\ k \in Manifests /\ k.rev = m.rev + 1 /\ k.marked /\ k.timing = n.timing /\ m.rev \in Nat
      /\ k.open = Missing(owed, inv, issue) /\ k.base = m.base
  BY <1>1 DEF Manifests
<1>3. ASSUME NEW g \in Guests
      PROVE  /\ m.timing[g] # "none" => k.timing[g] # "none"
             /\ m.timing[g] = "settled" => k.timing[g] = "settled"
             /\ k.timing[g] # "none" => m.timing[g] # "none" \/ inv[g] \in Arrived
             /\ inv[g] \in Arrived => k.timing[g] # "none"
  BY <1>1, <1>2 DEF TimingsAfter
<1> QED
  BY <1>2, <1>3 DEF MayFollow, Attached

LEMMA ReconciledOwes ==
  ASSUME NEW m \in Manifests, NEW owed \in SUBSET Guests, NEW inv \in [Guests -> Originals],
         NEW issue \in BOOLEAN, NEW n \in Reconciled(m, owed, inv, issue), NEW k, k = [n EXCEPT !.rev = @ + 1],
         ~k.open
  PROVE  \A g \in owed : g \in Attached(k)
<1>1. n \in Manifests /\ n.open = Missing(owed, inv, issue)
  BY ReconciledIs
<1>2. ~Missing(owed, inv, issue)
  BY <1>1 DEF Manifests
<1>3. \A g \in owed : g \in Guests /\ inv[g] \in Arrived
  BY <1>2 DEF Missing, Listed, Arrived
<1>4. \A g \in Guests : inv[g] \in Arrived => g \in Attached(k)
  BY ReconciledFollows
<1> QED
  BY <1>3, <1>4

LEMMA NotedFollows ==
  ASSUME NEW m \in Manifests
  PROVE  MayFollow(m, Noted(m)) /\ Attached(Noted(m)) = Attached(m) /\ Noted(m).open /\ Noted(m).marked = m.marked
<1>1. /\ Noted(m).rev = m.rev + 1 /\ Noted(m).timing = m.timing /\ Noted(m).marked = m.marked /\ Noted(m).open
      /\ m.rev \in Nat
  BY DEF Noted, Manifests
<1> QED
  BY <1>1 DEF MayFollow, Attached

LEMMA ValidatedFollows ==
  ASSUME NEW base \in BOOLEAN
  PROVE  /\ MayFollow(NoManifest, Validated(base)) /\ Attached(Validated(base)) = {}
         /\ ~Validated(base).marked /\ Validated(base).base = base /\ ~Validated(base).open
         /\ Validated(base).rev = 1
<1>1. /\ Validated(base).rev = 1 /\ Validated(base).timing = [g \in Guests |-> "none"]
      /\ ~Validated(base).marked /\ Validated(base).base = base /\ ~Validated(base).open
      /\ NoManifest.rev = 0 /\ ~NoManifest.marked /\ NoManifest.timing = [g \in Guests |-> "none"]
  BY DEF Validated, NoManifest
<1> QED
  BY <1>1 DEF MayFollow, Attached

\* What a step does to the manifests.
LEMMA ManifestSteps ==
  ASSUME IInv, Next
  PROVE  \/ manifest' = manifest
         \/ /\ WorkerValidates /\ worker.take \in Takes /\ manifest[worker.take] = NoManifest
            /\ \E base \in BOOLEAN : manifest' = [manifest EXCEPT ![worker.take] = Validated(base)]
         \/ /\ WorkerReplaces /\ worker.take \in Takes /\ manifest[worker.take] = worker.seen
            /\ manifest' = [manifest EXCEPT ![worker.take] = Noted(worker.seen)]
            /\ worker'.at \in {"loading", "lost"}
         \/ \E p \in Passes : Published(p)
<1>1. TypeOK /\ NumbersHold /\ worker \in Workers /\ manifest \in [Takes -> Manifests]
  BY DEF IInv, TypeOK
<1>2. CASE WorkerValidates
  <2>1. worker.take \in Takes /\ manifest[worker.take] = NoManifest
    BY <1>1, <1>2, WorkersTake DEF NumbersHold, WorkerValidates
  <2>2. PICK m \in {manifest[worker.take], Validated(FALSE), Validated(TRUE)} :
          manifest' = [manifest EXCEPT ![worker.take] = m]
    BY <1>2 DEF WorkerValidates
  <2>3. CASE m = manifest[worker.take]
    BY <1>1, <2>1, <2>2, <2>3
  <2>4. ASSUME NEW base \in BOOLEAN, m = Validated(base)
        PROVE  \E b \in BOOLEAN : manifest' = [manifest EXCEPT ![worker.take] = Validated(b)]
    BY <2>2, <2>4
  <2> QED
    BY <1>2, <2>1, <2>2, <2>3, <2>4
<1>3. CASE WorkerReplaces
  <2>1. worker.take \in Takes
    BY <1>3, WorkersTake DEF WorkerReplaces
  <2>2. CASE manifest' = manifest
    BY <2>2
  <2>3. CASE manifest' # manifest
    <3>1. /\ Unchanged(worker.take, worker.seen)
          /\ manifest' = [manifest EXCEPT ![worker.take] = Noted(worker.seen)]
      BY <1>3, <2>3 DEF WorkerReplaces
    <3>2. \/ Lost(worker.take)
          \/ worker' = [worker EXCEPT !.at = "loading", !.left = @ - 1, !.seen = NoManifest]
      BY <1>3, <2>3 DEF WorkerReplaces
    <3>3. worker'.at \in {"loading", "lost"}
      BY <1>1, <3>2 DEF Lost, NoWork, Workers
    <3> QED
      BY <1>3, <2>1, <3>1, <3>3 DEF Unchanged
  <2> QED
    BY <2>2, <2>3
<1>4. ASSUME NEW p \in Passes, PassLocks(p) \/ PassStep(p)
      PROVE  manifest' = manifest \/ Published(p)
  BY <1>4, PassManifests
<1>6. CASE User \/ UiHandles \/ MaintenanceStep \/ StopStep
  BY <1>6 DEF User, JamStarts, PeerStarts, Record, StopRecording, EndJam, UiHandles, MaintenanceStep,
     MaintenanceCalls, MaintenanceEnds, StopStep, StopRequests, StopWaits, StopFinishes, StopGivesUp
<1>7. CASE WorkerRegisters \/ WorkerReadsMarker \/ WorkerNotes \/ WorkerLoads \/ WorkerPosts
  BY <1>7 DEF WorkerRegisters, WorkerReadsMarker, WorkerNotes, WorkerLoads, WorkerPosts
<1>8. CASE \E t \in Takes, g \in Guests : GuestUploads(t, g)
  BY <1>8 DEF GuestUploads
<1> QED
  BY <1>2, <1>3, <1>4, <1>6, <1>7, <1>8 DEF Next, WorkerStep

\* Every step follows on: the property NothingDetached.
LEMMA Follows ==
  ASSUME IInv, Next
  PROVE  \A t \in Takes : MayFollow(manifest[t], manifest'[t])
<1>1. manifest \in [Takes -> Manifests] /\ TypeOK
  BY DEF IInv, TypeOK
<1>2. ASSUME NEW m \in Manifests
      PROVE  MayFollow(m, m)
  BY DEF MayFollow
<1> SUFFICES ASSUME NEW t \in Takes
             PROVE  MayFollow(manifest[t], manifest'[t])
  OBVIOUS
<1>3. manifest[t] \in Manifests /\ (manifest'[t] = manifest[t] => MayFollow(manifest[t], manifest'[t]))
  BY <1>1, <1>2
<1>4. CASE \E base \in BOOLEAN : worker.take \in Takes /\ manifest[worker.take] = NoManifest
                                 /\ manifest' = [manifest EXCEPT ![worker.take] = Validated(base)]
  BY <1>1, <1>3, <1>4, ValidatedFollows
<1>5. CASE /\ worker.take \in Takes /\ manifest[worker.take] = worker.seen
           /\ manifest' = [manifest EXCEPT ![worker.take] = Noted(worker.seen)]
  BY <1>1, <1>3, <1>5, NotedFollows
<1>6. ASSUME NEW p \in Passes, pass[p] \in PassStates, pass[p].take \in Takes,
             manifest[pass[p].take] = pass[p].seen,
             NEW n \in Reconciled(pass[p].seen, pass[p].owed, pass[p].inv, pass[p].issue),
             manifest' = [manifest EXCEPT ![pass[p].take] = [n EXCEPT !.rev = @ + 1]]
      PROVE  MayFollow(manifest[t], manifest'[t])
  <2>1. /\ pass[p].seen \in Manifests /\ pass[p].owed \in SUBSET Guests
        /\ pass[p].inv \in [Guests -> Originals] /\ pass[p].issue \in BOOLEAN
    BY <1>6 DEF PassStates
  <2>2. MayFollow(pass[p].seen, [n EXCEPT !.rev = @ + 1])
    BY <2>1, ReconciledFollows
  <2> QED
    BY <1>1, <1>3, <1>6, <2>2
<1> QED
  BY <1>3, <1>4, <1>5, <1>6, ManifestSteps DEF Published
-----------------------------------------------------------------------------
(* The passes, and what names a take.                                      *)

\* What a step does to the peer session.
LEMMA PeerSteps ==
  ASSUME IInv, Next
  PROVE  \/ peer' = peer
         \/ \E t \in Takes : Widened(t)
         \/ StopRequests /\ peer.state = "up" /\ peer'.state = "stopping" /\ peer'.known = peer.known
            /\ peer'.planned = peer.planned /\ peer'.registered = peer.registered
         \/ StopFinishes /\ peer'.state = "down" /\ peer'.known = {} /\ peer'.registered = {}
            /\ peer'.planned = [t \in Takes |-> {}]
         \/ PeerStarts /\ peer'.state = "up" /\ peer'.known = {} /\ peer'.registered = {}
            /\ peer'.planned = [t \in Takes |-> {}]
<1>1. TypeOK /\ peer \in Sessions
  BY DEF IInv, TypeOK
<1>2. CASE PeerStarts
  <2>1. /\ [peer EXCEPT !.state = "up", !.gen = @ + 1] \in Sessions
        /\ [peer EXCEPT !.state = "up", !.gen = @ + 1].state = "up"
    <3>1. peer.gen + 1 \in Generations
      BY <1>1, <1>2, Bounds DEF PeerStarts, Sessions, Generations
    <3>2. ASSUME NEW n \in Generations
          PROVE  [peer EXCEPT !.state = "up", !.gen = n] \in Sessions /\ [peer EXCEPT !.state = "up", !.gen = n].state = "up"
      BY <1>1 DEF Sessions
    <3> QED
      BY <3>1, <3>2
  <2> QED
    BY <1>2, <2>1, ClearedType DEF PeerStarts
<1>3. CASE StopFinishes
  <2>1. [peer EXCEPT !.state = "down"] \in Sessions /\ [peer EXCEPT !.state = "down"].state = "down"
    BY <1>1 DEF Sessions
  <2> QED
    BY <1>3, <2>1, ClearedType DEF StopFinishes
<1>4. CASE StopRequests
  <2>1. CASE peer.state = "up"
    <3>1. peer' = [peer EXCEPT !.state = "stopping", !.gen = @ + 1]
      BY <1>4, <2>1 DEF StopRequests
    <3> QED
      BY <1>1, <1>4, <2>1, <3>1 DEF Sessions
  <2> QED
    BY <1>4, <2>1 DEF StopRequests
<1>5. CASE Record
  BY <1>1, <1>5, TakeTypes, Widens DEF Record
<1>6. CASE StopRecording
  BY <1>1, <1>6, TakeTypes, Widens DEF StopRecording
<1>7. CASE UiHandles
  BY <1>7, UiPeer
<1>8. CASE WorkerRegisters
  <2>1. worker.take \in Takes /\ Active
    BY <1>8, WorkersTake DEF WorkerRegisters, IInv, ValidationHolds, Active
  <2> QED
    BY <1>1, <1>8, <2>1, Widens DEF WorkerRegisters
<1>9. CASE WorkerValidates \/ WorkerReadsMarker \/ WorkerNotes \/ WorkerReplaces \/ WorkerLoads \/ WorkerPosts
  BY <1>9 DEF WorkerValidates, WorkerReadsMarker, WorkerNotes, WorkerReplaces, WorkerLoads, WorkerPosts
<1>10. CASE JamStarts \/ EndJam \/ MaintenanceStep \/ StopWaits \/ StopGivesUp
  BY <1>10 DEF JamStarts, EndJam, MaintenanceStep, MaintenanceCalls, MaintenanceEnds, StopWaits, StopGivesUp
<1>11. ASSUME NEW p \in Passes, PassLocks(p) \/ PassStep(p)
       PROVE  peer' = peer
  BY <1>11, LeasesGiven
<1>12. CASE \E t \in Takes, g \in Guests : GuestUploads(t, g)
  BY <1>12 DEF GuestUploads
<1> QED
  BY <1>2, <1>3, <1>4, <1>5, <1>6, <1>7, <1>8, <1>9, <1>10, <1>11, <1>12 DEF Next, User, WorkerStep, StopStep

\* A session that is there was so before, with the same obligations, unless
\* it has just started.
LEMMA SessionKept ==
  ASSUME IInv, Next, peer'.state # "down"
  PROVE  \/ PeerStarts
         \/ /\ peer.state # "down" /\ peer.known \subseteq peer'.known
            /\ peer'.state = "up" => peer.state = "up" /\ peer'.gen = peer.gen
            /\ \A t \in Takes : t \in peer.known => peer'.planned[t] = peer.planned[t]
            /\ \A t \in peer'.registered : t \in peer.registered \/ t \in peer'.known
  BY PeerSteps DEF Widened

\* A refresh in the queue was there or has just been told.
LEMMA RefreshFrom ==
  ASSUME IInv, Next, NEW t \in Takes, Queued("refresh", t)'
  PROVE  Queued("refresh", t) \/ \E p \in Passes : PassTells(p) /\ pass[p].take = t
<1>1. TypeOK /\ ui \in Seq(Events)
  BY DEF IInv, TypeOK
<1>2. CASE ui' = ui
  BY <1>2 DEF Queued
<1>3. CASE UiHandles
  BY <1>1, <1>3, UiEffect, QueueTaken
<1>4. CASE WorkerPosts
  <2> DEFINE e == [is |-> "show", take |-> worker.take, found |-> worker.found, attention |-> worker.attention]
  <2>1. worker.take \in Takes
    BY <1>4, WorkersTake DEF WorkerPosts
  <2>2. e \in Events /\ e.is # "refresh" /\ ui' = Append(ui, e)
    BY <1>1, <1>4, <2>1, EventTypes DEF TypeOK, Workers, WorkerPosts
  <2> HIDE DEF e
  <2> QED
    BY <1>1, <2>2, QueuePut
<1>5. CASE StopFinishes \/ StopGivesUp
  <2>1. PICK is \in {"ended", "retry"} : Post(is)
    BY <1>5 DEF StopFinishes, StopGivesUp
  <2> DEFINE e == [is |-> is, take |-> 0, found |-> FALSE, attention |-> FALSE]
  <2>2. e \in Events /\ e.is # "refresh" /\ ui' = Append(ui, e)
    BY <1>1, <2>1, PostEffect
  <2> HIDE DEF e
  <2> QED
    BY <1>1, <2>2, QueuePut
<1>6. ASSUME NEW p \in Passes, PassLocks(p) \/ PassStep(p)
      PROVE  Queued("refresh", t) \/ \E q \in Passes : PassTells(q) /\ pass[q].take = t
  <2>1. CASE PassTells(p)
    <3> DEFINE e == [is |-> "refresh", take |-> pass[p].take, found |-> TRUE, attention |-> FALSE]
    <3>1. pass[p].take \in Takes
      BY <2>1, PassTellsEffect
    <3>2. e \in Events /\ e.take = pass[p].take /\ ui' = Append(ui, e)
      BY <2>1, <3>1, EventTypes DEF PassTells
    <3> HIDE DEF e
    <3>3. Queued("refresh", t) \/ e.take = t
      BY <1>1, <3>2, QueuePut
    <3> QED
      BY <2>1, <3>2, <3>3
  <2>2. CASE ~PassTells(p)
    BY <1>2, <1>6, <2>2, LeasesGiven
  <2> QED
    BY <2>1, <2>2
<1>7. CASE User \/ MaintenanceStep \/ StopRequests \/ StopWaits
  BY <1>2, <1>7 DEF User, JamStarts, PeerStarts, Record, StopRecording, EndJam, MaintenanceStep,
     MaintenanceCalls, MaintenanceEnds, StopRequests, StopWaits
<1>8. CASE WorkerValidates \/ WorkerRegisters \/ WorkerReadsMarker \/ WorkerNotes \/ WorkerReplaces \/ WorkerLoads
  BY <1>2, <1>8 DEF WorkerValidates, WorkerRegisters, WorkerReadsMarker, WorkerNotes, WorkerReplaces, WorkerLoads
<1>9. CASE \E u \in Takes, g \in Guests : GuestUploads(u, g)
  BY <1>2, <1>9 DEF GuestUploads
<1> QED
  BY <1>3, <1>4, <1>5, <1>6, <1>7, <1>8, <1>9 DEF Next, WorkerStep, StopStep

\* How a pass has come to what it is.
LEMMA PassFrom ==
  ASSUME IInv, Next, NEW p \in Passes
  PROVE  \/ pass'[p] = pass[p]
         \/ ~Going(p)'
         \/ WorkerRegisters /\ pass'[p].at = "called" /\ pass'[p].take = worker.take /\ worker.take \in Takes
         \/ MaintenanceCalls /\ pass'[p].at = "called" /\ pass'[p].take \in Due
         \/ /\ Going(p) /\ PassReads(p) /\ Current(Generation(p)) /\ manifest[pass[p].take].rev > 0
            /\ pass'[p].at = "attaching" /\ pass'[p].take = pass[p].take
            /\ pass'[p].gen = Generation(p) /\ pass'[p].seen = manifest[pass[p].take]
            /\ pass'[p].inv = store[pass[p].take] /\ pass'[p].owed = Owed(pass[p].take)
            /\ pass'[p].todo = {g \in Guests : store[pass[p].take][g] \in Arrived}
         \/ \E g \in Guests :
              /\ pass[p].at = "attaching" /\ PassAttaches(p, g)
              /\ media' = [media EXCEPT ![pass[p].take] = @ \cup {g}]
              /\ pass'[p].at = "attaching" /\ pass'[p].todo = pass[p].todo \ {g}
              /\ pass'[p].take = pass[p].take /\ pass'[p].gen = pass[p].gen /\ pass'[p].seen = pass[p].seen
              /\ pass'[p].inv = pass[p].inv /\ pass'[p].owed = pass[p].owed
         \/ /\ pass[p].at = "attaching" /\ PassPublishes(p) /\ pass'[p].take = pass[p].take
            /\ pass'[p].at = "again"
         \/ /\ pass[p].at = "attaching" /\ PassPublishes(p) /\ pass'[p].take = pass[p].take
            /\ pass'[p].at = "told"
            /\ \E n \in Reconciled(pass[p].seen, pass[p].owed, pass[p].inv, pass[p].issue) :
                 manifest' = [manifest EXCEPT ![pass[p].take] = [n EXCEPT !.rev = @ + 1]]
<1>1. TypeOK /\ "validation" \in Passes /\ "maintenance" \in Passes
  BY DEF IInv, TypeOK, Passes
<1>2. CASE WorkerRegisters
  <2>1. worker.take \in Takes
    BY <1>2, WorkersTake DEF WorkerRegisters
  <2>2. /\ pass'["validation"].at = "called" /\ pass'["validation"].take = worker.take
        /\ pass'["maintenance"] = pass["maintenance"]
    BY <1>1, <1>2, <2>1, ConstantTypes DEF WorkerRegisters, Become, TypeOK
  <2> QED
    BY <1>2, <2>1, <2>2, PassKinds
<1>3. CASE WorkerReadsMarker
  <2>1. pass'["validation"].at = "rest" /\ pass'["maintenance"] = pass["maintenance"]
    BY <1>1, <1>3 DEF WorkerReadsMarker, Become, TypeOK, NoPass
  <2> QED
    BY <2>1, PassKinds DEF Going
<1>4. CASE MaintenanceCalls
  <2>1. PICK t \in Due : Become("maintenance", Called(t))
    BY <1>4 DEF MaintenanceCalls
  <2>2. t \in Takes
    BY <1>1 DEF Due, TypeOK, Sessions
  <2>3. /\ pass'["maintenance"].at = "called" /\ pass'["maintenance"].take = t
        /\ pass'["validation"] = pass["validation"]
    BY <1>1, <2>1, <2>2, ConstantTypes DEF Become, TypeOK
  <2> QED
    BY <1>4, <2>3, PassKinds
<1>5. ASSUME NEW q \in Passes, q # p, PassLocks(q) \/ PassStep(q)
      PROVE  pass'[p] = pass[p]
  <2>1. CASE PassReads(q) /\ Going(q)
    BY <1>5, <2>1, PassReadsEffect DEF Going
  <2>2. CASE \E g \in Guests : PassAttaches(q, g)
    BY <1>5, <2>2, PassAttachesEffect
  <2>3. CASE PassPublishes(q) \/ PassTells(q)
    BY <1>5, <2>3, PassPublishesEffect, PassTellsEffect
  <2> QED
    BY <1>5, <2>1, <2>2, <2>3 DEF PassLocks, PassStep, Going
<1>6. CASE PassReads(p) /\ Going(p)
  BY <1>6, PassReadsEffect DEF Going
<1>7. ASSUME NEW g \in Guests, PassAttaches(p, g)
      PROVE  \/ ~Going(p)'
             \/ /\ pass[p].at = "attaching" /\ PassAttaches(p, g)
                /\ media' = [media EXCEPT ![pass[p].take] = @ \cup {g}]
                /\ pass'[p].at = "attaching" /\ pass'[p].todo = pass[p].todo \ {g}
                /\ pass'[p].take = pass[p].take /\ pass'[p].gen = pass[p].gen /\ pass'[p].seen = pass[p].seen
                /\ pass'[p].inv = pass[p].inv /\ pass'[p].owed = pass[p].owed
  BY <1>7, PassAttachesEffect DEF Going
<1>8. CASE PassPublishes(p)
  BY <1>8, PassPublishesEffect DEF Going
<1>9. CASE PassTells(p)
  BY <1>9, PassTellsEffect DEF Going
<1>10. CASE PassLocks(p) \/ PassStep(p)
  BY <1>6, <1>7, <1>8, <1>9, <1>10 DEF PassLocks, PassStep, Going
<1>11. CASE pass' = pass
  BY <1>11
<1>12. CASE User \/ UiHandles \/ MaintenanceEnds \/ StopStep
  BY <1>11, <1>12 DEF User, JamStarts, PeerStarts, Record, StopRecording, EndJam, UiHandles, MaintenanceEnds,
     StopStep, StopRequests, StopWaits, StopFinishes, StopGivesUp
<1>13. CASE WorkerValidates \/ WorkerNotes \/ WorkerReplaces \/ WorkerLoads \/ WorkerPosts
  BY <1>11, <1>13 DEF WorkerValidates, WorkerNotes, WorkerReplaces, WorkerLoads, WorkerPosts
<1>14. CASE \E t \in Takes, g \in Guests : GuestUploads(t, g)
  BY <1>11, <1>14 DEF GuestUploads
<1> QED
  BY <1>2, <1>3, <1>4, <1>5, <1>10, <1>12, <1>13, <1>14 DEF Next, WorkerStep, MaintenanceStep
\* A jam that is open was so or has just started.
LEMMA JamFrom ==
  ASSUME IInv, Next, co'.jam = "open"
  PROVE  co.jam = "open" \/ JamStarts
<1>1. TypeOK /\ co \in CoStates
  BY DEF IInv, TypeOK
<1>2. CASE co'.jam = co.jam
  BY <1>2
<1>3. CASE User
  BY <1>1, <1>3 DEF User, JamStarts, PeerStarts, Record, StopRecording, EndJam, CoStates
<1>4. CASE UiHandles
  <2>1. CASE ShowValidation(ui[1])
    BY <1>2, <1>4, <2>1, UiEffect, ShowValidationEffect DEF Shows, Raises
  <2>2. CASE ShowRefresh(ui[1]) \/ ShowEnd(ui[1])
    BY <1>2, <1>4, <2>2, UiEffect, ShowRefreshEffect, ShowEndEffect
  <2> QED
    BY <1>4, <2>1, <2>2, UiEffect
<1>5. CASE WorkerReadsMarker
  BY <1>1, <1>5 DEF WorkerReadsMarker, CoStates
<1>6. CASE co' = co
  BY <1>6
<1>7. CASE WorkerValidates \/ WorkerRegisters \/ WorkerNotes \/ WorkerReplaces \/ WorkerLoads \/ WorkerPosts
  BY <1>6, <1>7 DEF WorkerValidates, WorkerRegisters, WorkerNotes, WorkerReplaces, WorkerLoads, WorkerPosts
<1>8. CASE MaintenanceStep \/ StopStep
  BY <1>6, <1>8 DEF MaintenanceStep, MaintenanceCalls, MaintenanceEnds, StopStep, StopRequests, StopWaits,
     StopFinishes, StopGivesUp
<1>9. ASSUME NEW p \in Passes, PassLocks(p) \/ PassStep(p)
      PROVE  co' = co
  BY <1>9, LeasesGiven
<1>10. CASE \E t \in Takes, g \in Guests : GuestUploads(t, g)
  BY <1>6, <1>10 DEF GuestUploads
<1> QED
  BY <1>3, <1>4, <1>5, <1>6, <1>7, <1>8, <1>9, <1>10 DEF Next, WorkerStep

\* A pass is under way in a session that is there.
LEMMA GoingActive ==
  ASSUME IInv, NEW p \in Passes, Going(p)
  PROVE  peer.state # "down" /\ pass[p].take \in Takes /\ (p = "maintenance" => loop.alive)
<1>1. SessionHolds /\ ValidationHolds /\ PassesHold
  BY DEF IInv
<1>2. CASE p = "maintenance"
  BY <1>1, <1>2 DEF SessionHolds, PassesHold, Going
<1>3. CASE p = "validation"
  BY <1>1, <1>3 DEF ValidationHolds, PassesHold, Going
<1> QED
  BY <1>2, <1>3, PassKinds

LEMMA MediaGrows ==
  ASSUME IInv, Next
  PROVE  \A t \in Takes : media[t] \subseteq media'[t]
<1>1. media \in [Takes -> SUBSET Guests]
  BY DEF IInv, TypeOK
<1>2. CASE media' = media
  BY <1>2
<1>3. ASSUME NEW p \in Passes, NEW g \in Guests, PassAttaches(p, g)
      PROVE  \A t \in Takes : media[t] \subseteq media'[t]
  BY <1>1, <1>3, PassAttachesEffect
<1>4. ASSUME NEW p \in Passes, PassLocks(p) \/ PassStep(p)
      PROVE  \A t \in Takes : media[t] \subseteq media'[t]
  BY <1>2, <1>3, <1>4 DEF PassLocks, PassStep, PassReads, PassPublishes, PassTells
<1>5. CASE User \/ UiHandles \/ MaintenanceStep \/ StopStep
  BY <1>2, <1>5 DEF User, JamStarts, PeerStarts, Record, StopRecording, EndJam, UiHandles, MaintenanceStep,
     MaintenanceCalls, MaintenanceEnds, StopStep, StopRequests, StopWaits, StopFinishes, StopGivesUp
<1>6. CASE WorkerStep
  BY <1>2, <1>6 DEF WorkerStep, WorkerValidates, WorkerRegisters, WorkerReadsMarker, WorkerNotes, WorkerReplaces,
     WorkerLoads, WorkerPosts
<1>7. CASE \E t \in Takes, g \in Guests : GuestUploads(t, g)
  BY <1>2, <1>7 DEF GuestUploads
<1> QED
  BY <1>4, <1>5, <1>6, <1>7 DEF Next

\* What names a take did so before, or froze its obligations.
LEMMA NamedFrom ==
  ASSUME IInv, Next, ~PeerStarts, peer'.state # "down", NEW t \in Takes, Named(t)'
  PROVE  Named(t) \/ t \in peer'.known
<1>1. TypeOK
  BY DEF IInv
<1>2. CASE t \in peer'.registered
  BY <1>2, SessionKept DEF Named
<1>3. CASE t \in loop'.todo
  <2>1. CASE loop' = loop
    BY <1>3, <2>1 DEF Named
  <2>2. CASE MaintenanceCalls
    BY <1>1, <1>3, <2>2 DEF MaintenanceCalls, Due, Named
  <2>3. CASE MaintenanceEnds
    BY <1>3, <2>3 DEF MaintenanceEnds, NoThread
  <2>4. CASE User \/ UiHandles \/ StopStep
    BY <2>1, <2>4 DEF User, JamStarts, Record, StopRecording, EndJam, UiHandles, StopStep, StopRequests, StopWaits,
       StopFinishes, StopGivesUp
  <2>5. CASE WorkerStep
    BY <2>1, <2>5 DEF WorkerStep, WorkerValidates, WorkerRegisters, WorkerReadsMarker, WorkerNotes, WorkerReplaces,
       WorkerLoads, WorkerPosts
  <2>6. ASSUME NEW p \in Passes, PassLocks(p) \/ PassStep(p)
        PROVE  loop' = loop
    BY <2>6, LeasesGiven
  <2>7. CASE \E u \in Takes, g \in Guests : GuestUploads(u, g)
    BY <2>1, <2>7 DEF GuestUploads
  <2> QED
    BY <2>1, <2>2, <2>3, <2>4, <2>5, <2>6, <2>7 DEF Next, MaintenanceStep
<1>4. CASE Queued("refresh", t)'
  <2>1. CASE Queued("refresh", t)
    BY <2>1 DEF Named
  <2>2. ASSUME NEW p \in Passes, PassTells(p), pass[p].take = t
        PROVE  Named(t)
    BY <2>2 DEF PassTells, Named, Going
  <2> QED
    BY <1>4, <2>1, <2>2, RefreshFrom
<1>5. ASSUME NEW p \in Passes, Going(p)', pass'[p].take = t
      PROVE  Named(t) \/ t \in peer'.known
  <2>1. CASE WorkerRegisters /\ pass'[p].take = worker.take /\ worker.take \in Takes
    <3>1. Active
      BY <2>1 DEF WorkerRegisters, IInv, ValidationHolds, Active
    <3>2. Widened(worker.take)
      BY <1>1, <2>1, <3>1, Widens DEF WorkerRegisters
    <3> QED
      BY <1>5, <2>1, <3>1, <3>2 DEF Widened, Active
  <2>2. CASE MaintenanceCalls /\ pass'[p].take \in Due
    BY <1>5, <2>2 DEF Due, Named
  <2>3. CASE (Going(p) \/ pass[p].at = "attaching") /\ pass'[p].take = pass[p].take
    BY <1>5, <2>3 DEF Named, Going
  <2>4. CASE pass'[p] = pass[p]
    BY <1>5, <2>4 DEF Named, Going
  <2> QED
    BY <1>5, <2>1, <2>2, <2>3, <2>4, PassFrom
<1> QED
  BY <1>2, <1>3, <1>4, <1>5 DEF Named
\* A pass that attaches knows what is in the folder and what was owed.
Informed(p) ==
  pass[p].at = "attaching" =>
    /\ pass[p].seen.rev > 0
    /\ Attached(pass[p].seen) \cup {g \in Guests : pass[p].inv[g] \in Arrived}
         \subseteq media[pass[p].take] \cup pass[p].todo
    /\ Current(pass[p].gen) => peer.planned[pass[p].take] \subseteq pass[p].owed

LEMMA InformedStep ==
  ASSUME IInv, Next, NEW p \in Passes
  PROVE  Informed(p)'
<1>1. TypeOK /\ PassesHold /\ TracksBacked /\ peer \in Sessions
  BY DEF IInv, TypeOK
<1>2. ASSUME NEW t \in Takes, Named(t), peer'.state = "up", ~PeerStarts
      PROVE  peer.state = "up" /\ peer'.gen = peer.gen /\ t \in peer.known /\ peer'.planned[t] = peer.planned[t]
  BY <1>1, <1>2, SessionKept DEF PassesHold
<1>3. ASSUME Going(p)
      PROVE  ~PeerStarts /\ pass[p].take \in Takes /\ Named(pass[p].take) /\ media[pass[p].take] \subseteq media'[pass[p].take]
  BY <1>3, GoingActive, MediaGrows DEF PeerStarts, Named
<1>4. ASSUME pass[p].at = "attaching"
      PROVE  Going(p) /\ Informed(p)
  BY <1>1, <1>4 DEF PassesHold, Informed, Going
<1>5. CASE pass'[p] = pass[p] /\ pass[p].at = "attaching"
  <2>1. Current(pass[p].gen)' => Current(pass[p].gen) /\ peer'.planned[pass[p].take] = peer.planned[pass[p].take]
    BY <1>2, <1>3, <1>4, <1>5 DEF Current
  <2> QED
    BY <1>3, <1>4, <1>5, <2>1 DEF Informed
<1>6. CASE /\ Going(p) /\ PassReads(p) /\ Current(Generation(p)) /\ manifest[pass[p].take].rev > 0
           /\ pass'[p].at = "attaching" /\ pass'[p].take = pass[p].take
           /\ pass'[p].gen = Generation(p) /\ pass'[p].seen = manifest[pass[p].take]
           /\ pass'[p].inv = store[pass[p].take] /\ pass'[p].owed = Owed(pass[p].take)
           /\ pass'[p].todo = {g \in Guests : store[pass[p].take][g] \in Arrived}
  <2>1. peer' = peer /\ media' = media
    BY <1>6 DEF PassReads
  <2>2. Attached(manifest[pass[p].take]) \subseteq media[pass[p].take]
    BY <1>1, <1>3, <1>6 DEF TracksBacked
  <2> QED
    BY <1>6, <2>1, <2>2 DEF Informed, Owed
<1>7. ASSUME NEW g \in Guests,
             pass[p].at = "attaching", PassAttaches(p, g),
             media' = [media EXCEPT ![pass[p].take] = @ \cup {g}],
             pass'[p].at = "attaching", pass'[p].todo = pass[p].todo \ {g},
             pass'[p].take = pass[p].take, pass'[p].gen = pass[p].gen, pass'[p].seen = pass[p].seen,
             pass'[p].inv = pass[p].inv, pass'[p].owed = pass[p].owed
      PROVE  Informed(p)'
  <2>1. Informed(p) /\ pass[p].take \in Takes /\ peer' = peer
    BY <1>3, <1>4, <1>7 DEF PassAttaches
  <2>2. media'[pass[p].take] = media[pass[p].take] \cup {g}
    BY <1>1, <1>7, <2>1 DEF TypeOK
  <2> QED
    BY <1>7, <2>1, <2>2 DEF Informed, Current
<1>8. CASE pass'[p].at # "attaching"
  BY <1>8 DEF Informed
<1> QED
  BY <1>5, <1>6, <1>7, <1>8, PassFrom DEF Going

LEMMA PassesStep ==
  ASSUME IInv, Next
  PROVE  PassesHold'
<1>1. TypeOK /\ PassesHold /\ EndHolds
  BY DEF IInv
<1>2. \A t \in Takes : manifest[t].marked => manifest'[t].marked
  BY Follows DEF MayFollow
<1>3. ASSUME NEW p \in Passes, Going(p)'
      PROVE  pass'[p].take \in Takes
  <2>1. \/ (Going(p) \/ pass[p].at = "attaching") /\ pass'[p].take = pass[p].take
        \/ pass'[p].take \in Takes \cup Due
        \/ pass'[p] = pass[p]
    BY <1>3, PassFrom
  <2>2. Due \subseteq Takes
    BY <1>1 DEF Due, TypeOK, Sessions
  <2> QED
    BY <1>1, <1>3, <2>1, <2>2 DEF PassesHold, Going
<1>4. ASSUME NEW t \in Takes, peer'.state # "down", Named(t)'
      PROVE  t \in peer'.known
  <2>1. CASE PeerStarts
    <3>1. peer'.registered = {} /\ loop'.todo = {} /\ peer.state = "down" /\ co.jam = "open"
      BY <1>4, <2>1, PeerSteps DEF PeerStarts, NoThread, Widened, StopRequests, StopFinishes
    <3>2. \A p \in Passes : ~Going(p)
      BY <3>1, GoingActive
    <3>3. ~Queued("refresh", t)
      BY <1>1, <3>1 DEF PassesHold
    <3> QED
      BY <1>4, <2>1, <3>1, <3>2, <3>3 DEF Named, Going, Queued, PeerStarts
  <2>2. CASE ~PeerStarts
    <3>1. Named(t) \/ t \in peer'.known
      BY <1>4, <2>2, NamedFrom
    <3>2. peer.state # "down" /\ peer.known \subseteq peer'.known
      BY <1>4, <2>2, SessionKept
    <3> QED
      BY <1>1, <3>1, <3>2 DEF PassesHold
  <2> QED
    BY <2>1, <2>2
<1>5. ASSUME NEW t \in Takes, Queued("refresh", t)'
      PROVE  manifest'[t].marked /\ ~(co'.jam = "open" /\ peer'.state = "down")
  <2>1. CASE Queued("refresh", t)
    <3>1. manifest'[t].marked
      BY <1>1, <1>2, <2>1 DEF PassesHold
    <3>2. ~(co.jam = "open" /\ peer.state = "down") /\ ui # <<>>
      BY <1>1, <2>1 DEF PassesHold, Queued
    <3>3. ASSUME co'.jam = "open", peer'.state = "down"
          PROVE  FALSE
      <4>1. co.jam = "open"
        BY <1>1, <3>2, <3>3, JamFrom DEF JamStarts, EndHolds
      <4>2. ~StopFinishes
        BY <1>1, <4>1 DEF StopFinishes, EndHolds
      <4>3. peer.state = "down"
        BY <3>3, <4>2, PeerSteps DEF Widened
      <4> QED
        BY <3>2, <4>1, <4>3
    <3> QED
      BY <3>1, <3>3
  <2>2. ASSUME NEW p \in Passes, PassTells(p), pass[p].take = t
        PROVE  manifest'[t].marked /\ peer'.state # "down"
    <3>1. pass[p].at = "told" /\ Going(p) /\ peer' = peer
      BY <2>2 DEF PassTells, Going
    <3> QED
      BY <1>1, <1>2, <2>2, <3>1, GoingActive DEF PassesHold
  <2> QED
    BY <1>5, <2>1, <2>2, RefreshFrom
<1>6. ASSUME NEW p \in Passes, pass'[p].at = "told"
      PROVE  manifest'[pass'[p].take].marked
  <2>1. CASE pass'[p] = pass[p]
    <3>1. pass[p].take \in Takes /\ manifest[pass[p].take].marked
      BY <1>1, <1>6, <2>1 DEF PassesHold, Going
    <3> QED
      BY <1>2, <2>1, <3>1
  <2>2. ASSUME pass[p].at = "attaching", pass'[p].take = pass[p].take,
               NEW n \in Reconciled(pass[p].seen, pass[p].owed, pass[p].inv, pass[p].issue),
               manifest' = [manifest EXCEPT ![pass[p].take] = [n EXCEPT !.rev = @ + 1]]
        PROVE  manifest'[pass'[p].take].marked
    <3>1. pass[p].take \in Takes /\ pass[p] \in PassStates /\ manifest \in [Takes -> Manifests]
      BY <1>1, <2>2 DEF PassesHold, Going, TypeOK
    <3>2. [n EXCEPT !.rev = @ + 1].marked
      BY <3>1, ReconciledFollows DEF PassStates
    <3> QED
      BY <2>2, <3>1, <3>2
  <2> QED
    BY <1>6, <2>1, <2>2, PassFrom DEF Going
<1>7. \A p \in Passes : Informed(p)'
  BY InformedStep
<1> QED
  BY <1>3, <1>4, <1>5, <1>6, <1>7 DEF PassesHold, Informed

\* A track in a manifest has its file.
LEMMA TracksStep ==
  ASSUME IInv, Next
  PROVE  TracksBacked'
<1>1. TypeOK /\ TracksBacked /\ PassesHold /\ manifest \in [Takes -> Manifests] /\ worker \in Workers
  BY DEF IInv, TypeOK
<1> SUFFICES ASSUME NEW t \in Takes
             PROVE  Attached(manifest'[t]) \subseteq media'[t]
  BY DEF TracksBacked, Attached
<1>2. Attached(manifest[t]) \subseteq media[t] /\ media[t] \subseteq media'[t]
  BY <1>1, MediaGrows DEF TracksBacked
<1>3. CASE manifest'[t] = manifest[t]
  BY <1>2, <1>3
<1>4. ASSUME NEW base \in BOOLEAN, worker.take \in Takes,
             manifest' = [manifest EXCEPT ![worker.take] = Validated(base)]
      PROVE  Attached(manifest'[t]) \subseteq media'[t]
  BY <1>1, <1>3, <1>4, ValidatedFollows
<1>5. CASE /\ worker.take \in Takes /\ manifest[worker.take] = worker.seen
           /\ manifest' = [manifest EXCEPT ![worker.take] = Noted(worker.seen)]
  BY <1>1, <1>2, <1>3, <1>5, NotedFollows
<1>6. ASSUME NEW p \in Passes, PassPublishes(p), pass[p] \in PassStates, pass[p].take \in Takes,
             pass[p].at = "attaching", pass[p].todo = {}, manifest[pass[p].take] = pass[p].seen,
             NEW n \in Reconciled(pass[p].seen, pass[p].owed, pass[p].inv, pass[p].issue),
             manifest' = [manifest EXCEPT ![pass[p].take] = [n EXCEPT !.rev = @ + 1]]
      PROVE  Attached(manifest'[t]) \subseteq media'[t]
  <2>1. /\ pass[p].seen \in Manifests /\ pass[p].owed \in SUBSET Guests
        /\ pass[p].inv \in [Guests -> Originals] /\ pass[p].issue \in BOOLEAN
    BY <1>6 DEF PassStates
  <2> DEFINE k == [n EXCEPT !.rev = @ + 1]
  <2>4. manifest' = [manifest EXCEPT ![pass[p].take] = k] /\ k = [n EXCEPT !.rev = @ + 1]
    BY <1>6
  <2> HIDE DEF k
  <2>2. \A g \in Attached(k) : g \in Guests /\ (g \in Attached(pass[p].seen) \/ pass[p].inv[g] \in Arrived)
    <3>1. PICK m \in Manifests, owed \in SUBSET Guests, inv \in [Guests -> Originals], issue \in BOOLEAN :
            m = pass[p].seen /\ owed = pass[p].owed /\ inv = pass[p].inv /\ issue = pass[p].issue
      BY <2>1
    <3>2. n \in Reconciled(m, owed, inv, issue)
      BY <3>1
    <3>3. \A g \in Attached(k) : g \in Guests /\ (g \in Attached(m) \/ inv[g] \in Arrived)
      BY <2>4, <3>2, ReconciledFollows
    <3> QED
      BY <3>1, <3>3
  <2>3. Attached(pass[p].seen) \cup {g \in Guests : pass[p].inv[g] \in Arrived} \subseteq media[pass[p].take]
    BY <1>1, <1>6 DEF PassesHold
  <2> QED
    BY <1>1, <1>2, <1>3, <1>6, <2>2, <2>3, <2>4
<1> QED
  BY <1>3, <1>4, <1>5, <1>6, ManifestSteps DEF Published
-----------------------------------------------------------------------------
(* What is shown of a take.                                                *)

\* A callback that has its lease is made by the next step of its pass.
LEMMA ToldKept ==
  ASSUME IInv, Next, NEW p \in Passes, pass[p].at = "told"
  PROVE  pass'[p] = pass[p] \/ PassTells(p)
<1>1. TypeOK /\ ValidationHolds /\ "validation" \in Passes /\ "maintenance" \in Passes
  BY DEF IInv, TypeOK, Passes
<1>2. CASE WorkerRegisters
  <2>1. pass["validation"].at = "rest"
    BY <1>1, <1>2 DEF WorkerRegisters, ValidationHolds
  <2> QED
    BY <1>1, <1>2, <2>1 DEF WorkerRegisters, Become, TypeOK
<1>3. CASE WorkerReadsMarker
  BY <1>1, <1>3 DEF WorkerReadsMarker, Become, TypeOK
<1>4. CASE MaintenanceCalls
  BY <1>1, <1>4 DEF MaintenanceCalls, Become, TypeOK
<1>5. ASSUME NEW q \in Passes, q # p, PassLocks(q) \/ PassStep(q)
      PROVE  pass'[p] = pass[p]
  BY <1>5, PassReadsEffect, PassAttachesEffect, PassPublishesEffect, PassTellsEffect DEF PassLocks, PassStep, Going
<1>6. CASE PassLocks(p) \/ PassStep(p)
  BY <1>6 DEF PassLocks, PassStep, PassPublishes, PassAttaches
<1>7. CASE pass' = pass
  BY <1>7
<1>8. CASE User \/ UiHandles \/ MaintenanceEnds \/ StopStep
  BY <1>7, <1>8 DEF User, JamStarts, PeerStarts, Record, StopRecording, EndJam, UiHandles, MaintenanceEnds,
     StopStep, StopRequests, StopWaits, StopFinishes, StopGivesUp
<1>9. CASE WorkerValidates \/ WorkerNotes \/ WorkerReplaces \/ WorkerLoads \/ WorkerPosts
  BY <1>7, <1>9 DEF WorkerValidates, WorkerNotes, WorkerReplaces, WorkerLoads, WorkerPosts
<1>10. CASE \E t \in Takes, g \in Guests : GuestUploads(t, g)
  BY <1>7, <1>10 DEF GuestUploads
<1> QED
  BY <1>2, <1>3, <1>4, <1>5, <1>6, <1>8, <1>9, <1>10 DEF Next, WorkerStep, MaintenanceStep

\* A queued refresh stays in the queue until it is handled.
LEMMA QueuedKept ==
  ASSUME IInv, Next, ~UiHandles, NEW t \in Takes, Queued("refresh", t)
  PROVE  Queued("refresh", t)'
<1>1. TypeOK /\ ui \in Seq(Events)
  BY DEF IInv, TypeOK
<1>2. CASE ui' = ui
  BY <1>2 DEF Queued
<1>3. ASSUME NEW e \in Events, ui' = Append(ui, e)
      PROVE  Queued("refresh", t)'
  BY <1>1, <1>3, QueuePut
<1>4. CASE WorkerPosts
  <2>1. worker.take \in Takes
    BY <1>4, WorkersTake DEF WorkerPosts
  <2> QED
    BY <1>1, <1>3, <1>4, <2>1, EventTypes DEF TypeOK, Workers, WorkerPosts
<1>5. CASE StopFinishes \/ StopGivesUp
  BY <1>1, <1>3, <1>5, PostEffect DEF StopFinishes, StopGivesUp
<1>6. ASSUME NEW p \in Passes, PassLocks(p) \/ PassStep(p)
      PROVE  Queued("refresh", t)'
  <2>1. CASE PassTells(p)
    <3>1. pass[p].take \in Takes
      BY <2>1, PassTellsEffect
    <3> QED
      BY <1>3, <2>1, <3>1, EventTypes DEF PassTells
  <2>2. CASE ~PassTells(p)
    BY <1>2, <1>6, <2>2, LeasesGiven
  <2> QED
    BY <2>1, <2>2
<1>7. CASE User \/ MaintenanceStep \/ StopRequests \/ StopWaits
  BY <1>2, <1>7 DEF User, JamStarts, PeerStarts, Record, StopRecording, EndJam, MaintenanceStep,
     MaintenanceCalls, MaintenanceEnds, StopRequests, StopWaits
<1>8. CASE WorkerValidates \/ WorkerRegisters \/ WorkerReadsMarker \/ WorkerNotes \/ WorkerReplaces \/ WorkerLoads
  BY <1>2, <1>8 DEF WorkerValidates, WorkerRegisters, WorkerReadsMarker, WorkerNotes, WorkerReplaces, WorkerLoads
<1>9. CASE \E u \in Takes, g \in Guests : GuestUploads(u, g)
  BY <1>2, <1>9 DEF GuestUploads
<1> QED
  BY <1>4, <1>5, <1>6, <1>7, <1>8, <1>9 DEF Next, WorkerStep, StopStep

\* The coordinator shows something else only in a callback.
LEMMA CoKept ==
  ASSUME IInv, Next, ~UiHandles
  PROVE  /\ co'.last = co.last /\ co'.lastAttention = co.lastAttention /\ co'.news = co.news
         /\ co'.phase = co.phase \/ co'.phase \in Busy
         /\ co.phase = "finalizing" => co'.phase = "finalizing"
         /\ co'.take = co.take \/ Record
         /\ co'.marked = co.marked \/ (WorkerReadsMarker /\ co'.marked = worker.take)
         /\ co'.number = co.number \/ Record
<1>1. TypeOK /\ co \in CoStates
  BY DEF IInv, TypeOK
<1>2. CASE User
  BY <1>1, <1>2 DEF User, JamStarts, PeerStarts, Record, StopRecording, EndJam, CoStates, Busy
<1>3. CASE WorkerReadsMarker
  BY <1>1, <1>3 DEF WorkerReadsMarker, CoStates
<1>4. CASE co' = co
  BY <1>4
<1>5. CASE WorkerValidates \/ WorkerRegisters \/ WorkerNotes \/ WorkerReplaces \/ WorkerLoads \/ WorkerPosts
  BY <1>4, <1>5 DEF WorkerValidates, WorkerRegisters, WorkerNotes, WorkerReplaces, WorkerLoads, WorkerPosts
<1>6. CASE MaintenanceStep \/ StopStep
  BY <1>4, <1>6 DEF MaintenanceStep, MaintenanceCalls, MaintenanceEnds, StopStep, StopRequests, StopWaits,
     StopFinishes, StopGivesUp
<1>7. ASSUME NEW p \in Passes, PassLocks(p) \/ PassStep(p)
      PROVE  co' = co
  BY <1>7, LeasesGiven
<1>8. CASE \E t \in Takes, g \in Guests : GuestUploads(t, g)
  BY <1>4, <1>8 DEF GuestUploads
<1> QED
  BY <1>2, <1>3, <1>4, <1>5, <1>6, <1>7, <1>8 DEF Next, WorkerStep

\* A step that raised is forgotten when the take is told of, or loaded again.
LEMMA UntoldKept ==
  ASSUME IInv, Next, NEW t \in Takes, t \in untold
  PROVE  \/ t \in untold' \/ (WorkerLoads /\ worker.take = t)
         \/ \E p \in Passes : pass'[p].at = "told" /\ pass'[p].take = t
<1>1. CASE untold' = untold
  BY <1>1
<1>2. CASE UiHandles
  <2>1. CASE ShowValidation(ui[1])
    BY <1>2, <2>1, UiEffect, ShowValidationEffect DEF Shows, Raises
  <2>2. CASE ShowRefresh(ui[1]) \/ ShowEnd(ui[1])
    BY <1>2, <2>2, UiEffect, ShowRefreshEffect, ShowEndEffect
  <2> QED
    BY <1>2, <2>1, <2>2, UiEffect
<1>3. CASE WorkerLoads
  BY <1>3 DEF WorkerLoads
<1>4. ASSUME NEW p \in Passes, PassPublishes(p)
      PROVE  t \in untold' \/ (pass'[p].at = "told" /\ pass'[p].take = t)
  <2>1. \/ UNCHANGED untold
        \/ pass'[p].at = "told" /\ pass'[p].take = pass[p].take /\ untold' = untold \ {pass[p].take}
        \/ untold' = untold \cup {pass[p].take}
    BY <1>4, PassPublishesEffect
  <2> QED
    BY <2>1
<1>5. ASSUME NEW p \in Passes, PassLocks(p) \/ PassStep(p), ~PassPublishes(p)
      PROVE  untold' = untold
  BY <1>5 DEF PassLocks, PassStep, PassReads, PassTells, PassAttaches
<1>6. CASE User \/ MaintenanceStep \/ StopStep
  BY <1>1, <1>6 DEF User, JamStarts, PeerStarts, Record, StopRecording, EndJam, MaintenanceStep,
     MaintenanceCalls, MaintenanceEnds, StopStep, StopRequests, StopWaits, StopFinishes, StopGivesUp
<1>7. CASE WorkerValidates \/ WorkerRegisters \/ WorkerReadsMarker \/ WorkerNotes \/ WorkerReplaces \/ WorkerPosts
  BY <1>1, <1>7 DEF WorkerValidates, WorkerRegisters, WorkerReadsMarker, WorkerNotes, WorkerReplaces, WorkerPosts
<1>8. CASE \E u \in Takes, g \in Guests : GuestUploads(u, g)
  BY <1>1, <1>8 DEF GuestUploads
<1> QED
  BY <1>1, <1>2, <1>3, <1>4, <1>5, <1>6, <1>7, <1>8 DEF Next, WorkerStep

\* What was fresh stays so: a changed manifest is told unless the step that
\* changed it raised, and what has been told is queued.
LEMMA FreshKept ==
  ASSUME IInv, Next, ~UiHandles, worker.at \in {"rest", "posting"},
         NEW t \in Takes, NEW a \in BOOLEAN, Fresh(t, a)
  PROVE  Fresh(t, a)'
<1>1. TypeOK
  BY DEF IInv
<1>2. co'.news = co.news /\ co'.marked = co.marked
  BY CoKept DEF WorkerReadsMarker
<1>3. CASE t \in co.news
  BY <1>2, <1>3 DEF Fresh
<1>4. CASE Queued("refresh", t)
  BY <1>4, QueuedKept DEF Fresh
<1>7. ASSUME NEW p \in Passes, pass'[p].at = "told", pass'[p].take = t
      PROVE  Fresh(t, a)'
  BY <1>7 DEF Fresh, Holds
<1>8. CASE t \in untold
  <2>1. ~WorkerLoads
    BY DEF WorkerLoads
  <2>2. CASE t \in untold'
    BY <2>2 DEF Fresh
  <2> QED
    BY <1>7, <1>8, <2>1, <2>2, UntoldKept
<1>5. ASSUME NEW p \in Passes, Holds(p, t), pass[p].at = "told"
      PROVE  Fresh(t, a)'
  <2>1. CASE pass'[p] = pass[p]
    BY <1>5, <2>1 DEF Fresh, Holds
  <2>2. CASE PassTells(p)
    <3>1. pass[p].take = t
      BY <1>5 DEF Holds
    <3> DEFINE e == [is |-> "refresh", take |-> pass[p].take, found |-> TRUE, attention |-> FALSE]
    <3>2. e \in Events /\ e.is = "refresh" /\ e.take = t /\ ui' = Append(ui, e) /\ ui \in Seq(Events)
      BY <1>1, <2>2, <3>1, EventTypes DEF PassTells, TypeOK
    <3> HIDE DEF e
    <3>3. Queued("refresh", t)'
      BY <3>2, QueuePut
    <3> QED
      BY <3>3 DEF Fresh
  <2> QED
    BY <1>5, <2>1, <2>2, ToldKept
<1>6. CASE a = Attention(manifest[t]) \/ (a /\ co.marked # t)
  <2>1. CASE manifest'[t] = manifest[t]
    BY <1>2, <1>6, <2>1 DEF Fresh, Attention
  <2>2. ASSUME NEW p \in Passes, Published(p), pass[p].take = t
        PROVE  Fresh(t, a)'
    <3>1. t \in untold' \/ (pass'[p].at = "told" /\ pass'[p].take = t)
      BY <2>2 DEF Published
    <3>2. CASE t \in untold'
      BY <3>2 DEF Fresh
    <3> QED
      BY <1>7, <3>1, <3>2
  <2>3. manifest'[t] = manifest[t] \/ \E p \in Passes : Published(p) /\ pass[p].take = t
    <3>1. ~WorkerValidates /\ ~WorkerReplaces
      BY DEF WorkerValidates, WorkerReplaces
    <3>2. manifest' = manifest \/ \E p \in Passes : Published(p)
      BY <3>1, ManifestSteps
    <3>3. ASSUME NEW p \in Passes, Published(p), pass[p].take # t
          PROVE  manifest'[t] = manifest[t]
      BY <1>1, <3>3 DEF Published, TypeOK
    <3> QED
      BY <3>2, <3>3
  <2> QED
    BY <2>1, <2>2, <2>3
<1> QED
  BY <1>3, <1>4, <1>5, <1>6, <1>8 DEF Fresh

LEMMA FreshTaken ==
  ASSUME IInv, UiHandles, co'.marked = co.marked, NEW t \in Takes, NEW a \in BOOLEAN, Fresh(t, a),
         t \in co.news => t \in co'.news, ~(ui[1].is = "refresh" /\ ui[1].take = t)
  PROVE  Fresh(t, a)'
<1>1. manifest' = manifest /\ pass' = pass /\ ui \in Seq(Events) /\ ui # <<>> /\ ui' = Tail(ui)
  BY UiEffect
<1>2. Queued("refresh", t) => Queued("refresh", t)'
  BY <1>1, QueueTaken
<1>3. t \in untold => t \in untold'
  <2>1. CASE ShowValidation(ui[1])
    BY <2>1, UiEffect, ShowValidationEffect DEF Shows, Raises
  <2>2. CASE ShowRefresh(ui[1]) \/ ShowEnd(ui[1])
    BY <2>2, UiEffect, ShowRefreshEffect, ShowEndEffect
  <2> QED
    BY <2>1, <2>2, UiEffect
<1>4. CASE a = Attention(manifest[t]) \/ (a /\ co.marked # t)
  BY <1>1, <1>4 DEF Fresh, Attention
<1>5. CASE t \in co.news \/ t \in untold
  BY <1>3, <1>5 DEF Fresh
<1>6. CASE Queued("refresh", t)
  BY <1>2, <1>6 DEF Fresh
<1>7. CASE \E p \in Passes : Holds(p, t) /\ pass[p].at = "told"
  BY <1>1, <1>7 DEF Fresh, Holds
<1> QED
  BY <1>4, <1>5, <1>6, <1>7 DEF Fresh
LEMMA ShownHandled ==
  ASSUME IInv, UiHandles
  PROVE  ShownHolds'
<1> DEFINE e == ui[1]
<1>1. /\ TypeOK /\ NumbersHold /\ ValidationHolds /\ EndHolds /\ ShownHolds /\ e \in Events /\ 1 \in 1..Len(ui)
      /\ UNCHANGED <<loop, pass, stop, store, manifest, media>>
      /\ ui \in Seq(Events) /\ ui # <<>> /\ ui' = Tail(ui) /\ worker \in Workers
  BY UiEffect DEF IInv, TypeOK
<1>2. \A i \in 1..Len(ui') : ui'[i] = ui[i + 1] /\ i + 1 \in 1..Len(ui) /\ i + 1 # 1 /\ ui[i + 1] \in Events
  BY <1>1, QueueTaken
<1>3. \A x \in Events : x.is = "show" => x.take \in Takes /\ x.attention \in BOOLEAN /\ x.found \in BOOLEAN
  BY DEF Events
<1>4. worker.attention \in BOOLEAN
  BY <1>1 DEF Workers
<1>5. co.phase \in Busy => co.take \in Takes /\ co.take # 0
  BY <1>1, CoNumbers DEF NumbersHold
<1>6. CASE ShowValidation(e)
  <2>1. e.is = "show"
    BY <1>6 DEF ShowValidation
  <2>2. co.phase = "finalizing" /\ e.take = co.take /\ worker.at = "rest" /\ e.take \in Takes /\ e.take # 0
    BY <1>1, <1>5, <2>1 DEF ValidationHolds, Busy
  <2>3. \A i \in 1..Len(ui') : ui'[i].is # "show"
    BY <1>1, <1>2, <2>1 DEF ValidationHolds
  <2>4. ASSUME NEW a \in BOOLEAN, Shows(e, a)
        PROVE  ShownHolds'
    <3> DEFINE unm == e.found /\ Active /\ co.marked # e.take
    <3>1. /\ co'.marked = co.marked /\ co'.phase = PhaseOf(a \/ unm) /\ co'.lastAttention = a /\ worker' = worker
          /\ co'.last = (IF e.found THEN e.take ELSE 0) /\ co'.news = co.news \ {e.take}
          /\ \/ a = (IF e.take \in co.news THEN Attention(manifest[e.take]) ELSE e.attention)
             \/ untold' = untold \cup {e.take}
      BY <2>4 DEF Shows
    <3>2. PICK t \in Takes : t = e.take
      BY <2>2
    <3>3. e.found => Fresh(t, a)'
      <4>1. CASE t \in untold'
        BY <4>1 DEF Fresh
      <4>2. CASE t \in co.news /\ a = Attention(manifest[t])
        <5>1. manifest' = manifest
          BY <1>1
        <5> QED
          BY <4>2, <5>1 DEF Fresh, Attention
      <4>3. CASE t \notin co.news /\ a = e.attention
        <5>1. e.found => Fresh(t, a)
          BY <1>1, <2>1, <3>2, <4>3 DEF ShownHolds
        <5> QED
          BY <2>1, <3>1, <4>3, <5>1, FreshTaken
      <4> QED
        BY <3>1, <3>2, <4>1, <4>2, <4>3
    <3>4. co'.phase = (IF a \/ unm THEN "attention" ELSE "complete")
      BY <3>1 DEF PhaseOf
    <3>5. \A u \in Takes : u \notin co'.news
      BY <1>1, <2>2, <3>1 DEF ShownHolds
    <3>6. co'.phase = "complete" => ~co'.lastAttention
      BY <3>1, <3>4
    <3>7. co'.phase = "attention" /\ co'.last # 0 /\ co'.marked = co'.last => co'.lastAttention
      BY <2>2, <3>1, <3>4
    <3>8. co'.last # 0 => Fresh(co.last, co.lastAttention)'
      <4>1. co'.last # 0 => e.found /\ co'.last = t /\ co'.lastAttention = a
        BY <3>1, <3>2
      <4> QED
        BY <3>3, <4>1 DEF Fresh
    <3> HIDE DEF unm
    <3> QED
      BY <1>1, <2>2, <2>3, <3>1, <3>5, <3>6, <3>7, <3>8 DEF ShownHolds
  <2>5. CASE Raises(e.take)
    <3>1. /\ worker'.at = "lost" /\ co'.phase = "finalizing" /\ co'.take = co.take /\ co'.news \subseteq co.news
      BY <2>2, <2>5 DEF Raises
    <3> QED
      BY <1>1, <2>3, <3>1 DEF ShownHolds, Busy
  <2> QED
    BY <1>1, <1>6, <2>4, <2>5, ShowValidationEffect
<1>7. ASSUME co.phase = "finalizing", co'.phase = "finalizing", co'.marked = co.marked, co'.take = co.take,
             co'.last = co.last, \A t \in Takes : t \in co'.news => t = co.take,
             co.news \subseteq co'.news,
             (ui[1].is = "refresh" /\ ui[1].take = co.take) => co.take \in co'.news,
             worker' = worker
      PROVE  ShownHolds'
  <2>1. ASSUME NEW a \in BOOLEAN, Fresh(co.take, a)
        PROVE  Fresh(co.take, a)'
    <3>1. CASE co.take \in co'.news
      BY <1>7, <3>1 DEF Fresh
    <3>2. CASE co.take \notin co'.news
      BY <1>5, <1>7, <2>1, <3>2, FreshTaken DEF Busy, Fresh
    <3> QED
      BY <3>1, <3>2
  <2>2. worker'.at = "posting" /\ worker'.found => Fresh(worker.take, worker.attention)'
    <3> SUFFICES ASSUME worker.at = "posting", worker.found
                 PROVE  Fresh(worker.take, worker.attention)'
      BY <1>7
    <3>1. worker.take = co.take /\ worker'.take = co'.take /\ worker'.attention = worker.attention
      BY <1>1, <1>7 DEF ValidationHolds
    <3>5. worker' = worker
      BY <1>7
    <3>2. Fresh(co.take, worker.attention)
      BY <1>1, <3>1 DEF ShownHolds
    <3>3. PICK a \in BOOLEAN : a = worker.attention
      BY <1>4
    <3>4. Fresh(co.take, a)'
      BY <2>1, <3>2, <3>3
    <3> QED
      BY <1>1, <3>1, <3>3, <3>4 DEF Fresh
  <2>3. ASSUME NEW i \in 1..Len(ui'), ui'[i].is = "show", ui'[i].found
        PROVE  Fresh(ui[i].take, ui[i].attention)'
    <3>1. PICK x \in Events : x = ui'[i] /\ x = ui[i + 1] /\ i + 1 \in 1..Len(ui)
      BY <1>2
    <3>2. x.is = "show" /\ x.found /\ x.take = co.take /\ x.attention \in BOOLEAN
      BY <1>1, <1>3, <2>3, <3>1 DEF ValidationHolds
    <3>3. Fresh(co.take, x.attention)
      BY <1>1, <3>1, <3>2 DEF ShownHolds
    <3>4. Fresh(co.take, x.attention)'
      BY <2>1, <3>2, <3>3
    <3> QED
      BY <1>7, <3>1, <3>2, <3>4 DEF Fresh
  <2> QED
    BY <1>7, <2>2, <2>3 DEF ShownHolds, Busy
<1>8. ASSUME co.phase \notin Busy, worker.at = "rest", ShowNone',
             co'.last # 0 => Fresh(co.last, co.lastAttention)',
             co'.phase = "complete" => ~co'.lastAttention,
             co'.phase = "attention" /\ co'.last # 0 /\ co'.marked = co'.last => co'.lastAttention,
             co'.news = co.news, worker' = worker
      PROVE  ShownHolds'
  <2>1. \A t \in Takes : t \notin co'.news
    BY <1>1, <1>8 DEF ShownHolds, Busy
  <2> QED
    BY <1>1, <1>8, <2>1 DEF ShownHolds, ShowNone
<1>9. co.phase \notin Busy => worker.at = "rest" /\ ShowNone'
  <2> SUFFICES ASSUME co.phase \notin Busy
               PROVE  worker.at = "rest" /\ ShowNone'
    OBVIOUS
  <2>1. worker.at = "rest" /\ ShowNone
    BY NoValidation DEF Busy
  <2> QED
    BY <1>2, <2>1 DEF ShowNone
<1>10. CASE ShowRefresh(e)
  <2>1. e.is = "refresh" /\ e.take \in Takes /\ worker' = worker
    BY <1>1, <1>10, ShowRefreshEffect DEF ShowRefresh
  <2>2. CASE RefreshWaits(e.take)
    <3>1. co.phase = "finalizing" /\ e.take = co.take
      BY <1>5, <2>2 DEF RefreshWaits, Busy
    <3>2. /\ co'.marked = co.marked /\ co'.take = co.take /\ co'.last = co.last /\ co'.phase = co.phase
          /\ co'.news = co.news \cup {e.take}
      BY <1>1, <1>10, <2>2, ShowRefreshEffect
    <3> QED
      BY <1>1, <1>7, <2>1, <3>1, <3>2 DEF ShownHolds
  <2>3. CASE RefreshApplies(e.take)
    <3>1. co.phase \notin Busy
      <4> SUFFICES ASSUME co.phase \in Busy PROVE FALSE
        OBVIOUS
      <4>1. co.take = co.number /\ co.last < co.number /\ co.last = e.take /\ co.take \in {0, e.take}
        BY <1>1, <2>3 DEF NumbersHold, RefreshApplies
      <4> QED
        BY <1>1, <1>5, <4>1, CoNumbers
    <3>2. /\ co'.marked = co.marked /\ co'.last = co.last /\ co'.last = e.take /\ co'.news = co.news
          /\ Attention(manifest[e.take]) \in BOOLEAN
          /\ \/ /\ co'.lastAttention = Attention(manifest[e.take])
                /\ co'.phase = IF Attention(manifest[e.take]) = co.lastAttention THEN co.phase
                               ELSE PhaseOf(Attention(manifest[e.take]))
             \/ co' = co /\ untold' = untold \cup {e.take}
      BY <1>1, <1>10, <2>3, ShowRefreshEffect DEF RefreshApplies, RefreshWaits
    <3>3. co'.last # 0 => Fresh(co.last, co.lastAttention)'
      <4>1. CASE co'.lastAttention = Attention(manifest[e.take])
        BY <1>1, <3>2, <4>1 DEF Fresh, Attention
      <4>2. CASE untold' = untold \cup {e.take}
        BY <3>2, <4>2 DEF Fresh
      <4> QED
        BY <3>2, <4>1, <4>2
    <3>4. co.lastAttention \in BOOLEAN
      BY <1>1 DEF TypeOK, CoStates
    <3>5. CASE co'.phase = co.phase /\ co'.lastAttention = co.lastAttention
      BY <1>1, <1>8, <1>9, <2>1, <3>1, <3>2, <3>3, <3>5 DEF ShownHolds
    <3>6. CASE /\ Attention(manifest[e.take]) # co.lastAttention
               /\ co'.lastAttention = Attention(manifest[e.take])
               /\ co'.phase = PhaseOf(Attention(manifest[e.take]))
      BY <1>8, <1>9, <2>1, <3>1, <3>2, <3>3, <3>6 DEF PhaseOf
    <3> QED
      BY <3>2, <3>5, <3>6
  <2>4. CASE ~RefreshWaits(e.take) /\ ~RefreshApplies(e.take)
    <3>1. co' = co
      BY <1>1, <1>10, <2>4, ShowRefreshEffect
    <3>2. CASE co.phase = "finalizing"
      BY <1>1, <1>7, <2>1, <2>4, <3>1, <3>2 DEF ShownHolds, RefreshWaits
    <3>3. CASE co.phase = "recording"
      <4>1. worker.at = "rest" /\ ShowNone
        BY <3>3, NoValidation
      <4>2. ShowNone'
        BY <1>2, <4>1 DEF ShowNone
      <4> QED
        BY <1>1, <2>1, <3>1, <3>3, <4>1, <4>2 DEF ShownHolds, ShowNone, Busy
    <3>4. CASE co.phase \notin Busy
      <4>1. co.last # 0 => e.take # co.last /\ co.last \in Takes
        BY <1>1, <2>4, <3>4, CoNumbers DEF RefreshApplies, NumbersHold, Busy
      <4>2. co.lastAttention \in BOOLEAN
        BY <1>1 DEF TypeOK, CoStates
      <4>3. co.last # 0 => Fresh(co.last, co.lastAttention)
        BY <1>1, <3>4 DEF ShownHolds
      <4>4. PICK t, a : t = co.last /\ a = co.lastAttention
        OBVIOUS
      <4>5. co.last # 0 => Fresh(t, a)'
        BY <3>1, <4>1, <4>2, <4>3, <4>4, FreshTaken
      <4>6. co'.last # 0 => Fresh(co.last, co.lastAttention)'
        BY <3>1, <4>4, <4>5 DEF Fresh
      <4> QED
        BY <1>1, <1>8, <1>9, <2>1, <3>1, <3>4, <4>6 DEF ShownHolds
    <3> QED
      BY <3>2, <3>3, <3>4 DEF Busy
  <2> QED
    BY <2>2, <2>3, <2>4
<1>11. CASE ShowEnd(e)
  <2>1. EndQueued
    BY <1>1, <1>11, UiEffect, QueueTaken, ShowEndEffect
  <2>2. co.phase \notin Busy
    BY <1>1, <2>1 DEF EndHolds, Busy
  <2>3. /\ co'.marked = co.marked /\ co'.last = co.last /\ co'.lastAttention = co.lastAttention
        /\ co'.news = co.news /\ (co'.phase = co.phase \/ co'.phase = "idle") /\ IsEnd(e) /\ worker' = worker
    BY <1>1, <1>11, ShowEndEffect
  <2>4. co.last # 0 => co.last \in Takes
    BY <1>1, CoNumbers
  <2>5. co.lastAttention \in BOOLEAN
    BY <1>1 DEF TypeOK, CoStates
  <2>6. co.last # 0 => Fresh(co.last, co.lastAttention)
    BY <1>1, <2>2 DEF ShownHolds
  <2>7. PICK t, a : t = co.last /\ a = co.lastAttention
    OBVIOUS
  <2>8. co.last # 0 => Fresh(t, a)'
    BY <2>3, <2>4, <2>5, <2>6, <2>7, FreshTaken DEF IsEnd
  <2>9. co'.last # 0 => Fresh(co.last, co.lastAttention)'
    BY <2>3, <2>7, <2>8 DEF Fresh
  <2> QED
    BY <1>1, <1>8, <1>9, <2>2, <2>3, <2>9 DEF ShownHolds
<1> QED
  BY <1>6, <1>10, <1>11, UiEffect

\* Outside of callbacks, the result of the worker is the only new thing.
LEMMA ShownKept ==
  ASSUME IInv, Next, ~UiHandles,
         worker'.at = "posting" /\ worker'.found => Fresh(worker.take, worker.attention)',
         \A i \in 1..Len(ui') : ui'[i].is = "show" /\ ui'[i].found => Fresh(ui[i].take, ui[i].attention)'
  PROVE  ShownHolds'
<1>1. TypeOK /\ ShownHolds /\ ValidationHolds /\ NumbersHold /\ co.lastAttention \in BOOLEAN
  BY DEF IInv, TypeOK, CoStates
<1>2. /\ co'.last = co.last /\ co'.lastAttention = co.lastAttention /\ co'.news = co.news
      /\ co'.phase = co.phase \/ co'.phase \in Busy
      /\ co.phase = "finalizing" => co'.phase = "finalizing" /\ co'.take = co.take
      /\ co'.marked = co.marked \/ co.phase = "finalizing"
  BY <1>1, CoKept DEF Record, Busy, WorkerReadsMarker, ValidationHolds
<1>3. ASSUME co'.phase \notin Busy, co'.last # 0
      PROVE  Fresh(co.last, co.lastAttention)'
  <2>1. co.phase \notin Busy /\ worker.at = "rest" /\ co.last \in Takes
    BY <1>1, <1>2, <1>3, NoValidation, CoNumbers DEF Busy
  <2>2. PICK t \in Takes, a \in BOOLEAN : t = co.last /\ a = co.lastAttention
    BY <1>1, <2>1
  <2>3. Fresh(t, a)
    BY <1>1, <1>2, <1>3, <2>1, <2>2 DEF ShownHolds
  <2>4. Fresh(t, a)'
    BY <2>1, <2>3, FreshKept
  <2> QED
    BY <1>2, <2>2, <2>4 DEF Fresh
<1>4. co'.phase = "complete" => ~co'.lastAttention
  BY <1>1, <1>2 DEF ShownHolds, Busy
<1>5. co'.phase = "attention" /\ co'.last # 0 /\ co'.marked = co'.last => co'.lastAttention
  BY <1>1, <1>2 DEF ShownHolds, Busy
<1>6. \A t \in Takes : t \in co'.news => co'.phase = "finalizing" /\ t = co'.take
  BY <1>1, <1>2 DEF ShownHolds
<1> QED
  BY <1>3, <1>4, <1>5, <1>6 DEF ShownHolds

LEMMA ShownStep ==
  ASSUME IInv, Next
  PROVE  ShownHolds'
<1>1. TypeOK /\ ShownHolds /\ ValidationHolds /\ worker \in Workers /\ ui \in Seq(Events) /\ manifest \in [Takes -> Manifests]
  BY DEF IInv, TypeOK
<1>2. \A x \in Events : x.is = "show" => x.take \in Takes /\ x.attention \in BOOLEAN /\ x.found \in BOOLEAN
  BY DEF Events
<1>3. CASE UiHandles
  BY <1>3, ShownHandled
\* a result that is queued stays fresh
<1>4. ASSUME ~UiHandles, NEW i \in 1..Len(ui), ui[i].is = "show", ui[i].found, ui'[i] = ui[i]
      PROVE  Fresh(ui[i].take, ui[i].attention)'
  <2>1. PICK t \in Takes, a \in BOOLEAN : t = ui[i].take /\ a = ui[i].attention
    BY <1>1, <1>2, <1>4
  <2>2. worker.at = "rest"
    BY <1>1, <1>4 DEF ValidationHolds
  <2>3. Fresh(t, a)
    BY <1>1, <1>4, <2>1 DEF ShownHolds
  <2>4. Fresh(t, a)'
    BY <1>4, <2>2, <2>3, FreshKept
  <2> QED
    BY <1>4, <2>1, <2>4 DEF Fresh
\* and so does one that is about to be
<1>5. ASSUME ~UiHandles, worker.at = "posting", worker.found, NEW t, NEW a, t = worker.take, a = worker.attention
      PROVE  Fresh(t, a)'
  <2>1. t \in Takes /\ a \in BOOLEAN
    BY <1>1, <1>5, WorkersTake DEF Workers
  <2>2. Fresh(t, a)
    BY <1>1, <1>5 DEF ShownHolds
  <2> QED
    BY <1>5, <2>1, <2>2, FreshKept
<1>6. ASSUME ~UiHandles, worker' = worker, worker'.at = "posting", worker'.found
      PROVE  Fresh(worker.take, worker.attention)'
  <2>1. PICK t, a : t = worker.take /\ a = worker.attention
    OBVIOUS
  <2>2. Fresh(t, a)'
    BY <1>5, <1>6, <2>1
  <2> QED
    BY <1>6, <2>1, <2>2 DEF Fresh
<1>7. CASE ~UiHandles /\ ui' = ui /\ worker' = worker
  BY <1>4, <1>6, <1>7, ShownKept
<1>8. ASSUME ~UiHandles, worker' = worker, NEW e \in Events, e.is # "show", ui' = Append(ui, e)
      PROVE  ShownHolds'
  <2>1. /\ \A i \in 1..Len(ui) : ui'[i] = ui[i]
        /\ \A i \in 1..Len(ui') : i \in 1..Len(ui) \/ i = Len(ui')
        /\ ui'[Len(ui')] = e
    BY <1>1, <1>8, QueuePut
  <2>2. ASSUME NEW i \in 1..Len(ui'), ui'[i].is = "show", ui'[i].found
        PROVE  Fresh(ui[i].take, ui[i].attention)'
    <3>1. i \in 1..Len(ui) /\ ui'[i] = ui[i]
      BY <1>8, <2>1, <2>2
    <3> QED
      BY <1>4, <1>8, <2>2, <3>1
  <2> QED
    BY <1>6, <1>8, <2>2, ShownKept
<1>9. ASSUME ~UiHandles, worker.at # "rest" \/ StopRecording, ui' = ui,
             worker'.at = "posting" /\ worker'.found => Fresh(worker.take, worker.attention)'
      PROVE  ShownHolds'
  <2>1. ShowNone
    BY <1>1, <1>9, NoValidation DEF ValidationHolds, ShowNone, StopRecording
  <2>2. \A i \in 1..Len(ui') : ~(ui'[i].is = "show" /\ ui'[i].found)
    BY <1>9, <2>1 DEF ShowNone
  <2> QED
    BY <1>9, <2>2, ShownKept
<1>10. CASE ~UiHandles /\ WorkerValidates
  <2>1. worker.take \in Takes /\ co' = co /\ co.marked # worker.take
    <3>1. NumbersHold /\ worker.take = co.take /\ co.phase = "finalizing"
      BY <1>1, <1>10 DEF WorkerValidates, ValidationHolds, IInv
    <3>2. co.marked < co.number /\ co.take = co.number
      BY <1>10, <3>1 DEF NumbersHold, WorkerValidates, Busy
    <3> QED
      BY <1>1, <1>10, <3>1, <3>2, WorkersTake, CoNumbers DEF WorkerValidates
  <2>2. PICK m \in {manifest[worker.take], Validated(FALSE), Validated(TRUE)} :
          /\ manifest' = [manifest EXCEPT ![worker.take] = m]
          /\ \/ m = Validated(FALSE) /\ Result(TRUE, FALSE)
             \/ \E found \in BOOLEAN : Result(found, TRUE)
             \/ Lost(worker.take)
    BY <1>10 DEF WorkerValidates
  <2>3. ASSUME m = Validated(FALSE), Result(TRUE, FALSE)
        PROVE  Fresh(worker.take, worker.attention)'
    <3>1. worker'.take = worker.take /\ worker'.attention = FALSE
      BY <1>1, <2>3 DEF Result, Workers
    <3>2. manifest'[worker.take] = Validated(FALSE)
      BY <1>1, <2>1, <2>2, <2>3
    <3>3. ~Validated(FALSE).base /\ ~Validated(FALSE).open
      BY ValidatedFollows
    <3>4. worker'.attention = Attention(manifest[worker.take])'
      BY <3>1, <3>2, <3>3 DEF Attention
    <3> QED
      BY <3>4 DEF Fresh
  <2>4. ASSUME NEW found \in BOOLEAN, Result(found, TRUE)
        PROVE  Fresh(worker.take, worker.attention)'
    <3>1. worker'.take = worker.take /\ worker'.attention = TRUE
      BY <1>1, <2>4 DEF Result, Workers
    <3> QED
      BY <2>1, <3>1 DEF Fresh
  <2>5. Lost(worker.take) => worker'.at # "posting"
    BY DEF Lost, NoWork
  <2> QED
    BY <1>9, <1>10, <2>2, <2>3, <2>4, <2>5 DEF WorkerValidates
<1>11. CASE ~UiHandles /\ WorkerLoads
  <2>1. worker.take \in Takes /\ manifest' = manifest /\ co' = co
    BY <1>11, WorkersTake DEF WorkerLoads
  <2>2. ASSUME worker' = [worker EXCEPT !.at = "posting", !.found = TRUE,
                                        !.attention = Attention(manifest[worker.take]) \/ co.marked # worker.take]
        PROVE  Fresh(worker.take, worker.attention)'
    <3>1. /\ worker'.take = worker.take
          /\ worker'.attention = (Attention(manifest[worker.take]) \/ co.marked # worker.take)
      BY <1>1, <2>2 DEF Workers
    <3>2. CASE co.marked # worker.take
      <4>1. worker'.attention = TRUE
        BY <3>1, <3>2
      <4>2. worker'.attention /\ co'.marked # worker'.take
        BY <2>1, <3>1, <3>2, <4>1
      <4> QED
        BY <4>2 DEF Fresh
    <3>3. CASE co.marked = worker.take
      <4>1. worker'.attention = Attention(manifest[worker.take])'
        BY <2>1, <3>1, <3>3 DEF Attention
      <4> QED
        BY <4>1 DEF Fresh
    <3> QED
      BY <3>2, <3>3
  <2>3. ASSUME NEW found \in BOOLEAN, untold' = untold \cup {worker.take},
               worker' = [worker EXCEPT !.at = "posting", !.found = found, !.attention = TRUE]
        PROVE  Fresh(worker.take, worker.attention)'
    <3>1. worker'.take = worker.take
      BY <1>1, <2>3 DEF Workers
    <3> QED
      BY <2>3, <3>1 DEF Fresh
  <2>4. Lost(worker.take) => worker'.at # "posting"
    BY DEF Lost, NoWork
  <2>5. worker'.at = "posting" => Fresh(worker.take, worker.attention)'
    <3>1. \/ worker' = [worker EXCEPT !.at = "posting", !.found = TRUE,
                                      !.attention = Attention(manifest[worker.take]) \/ co.marked # worker.take]
          \/ /\ untold' = untold \cup {worker.take}
             /\ \E found \in BOOLEAN :
                  worker' = [worker EXCEPT !.at = "posting", !.found = found, !.attention = TRUE]
          \/ Lost(worker.take)
      BY <1>11, Zenon DEF WorkerLoads
    <3>2. ASSUME NEW found \in BOOLEAN, untold' = untold \cup {worker.take},
                 worker' = [worker EXCEPT !.at = "posting", !.found = found, !.attention = TRUE]
          PROVE  Fresh(worker.take, worker.attention)'
      BY <2>3, <3>2
    <3> QED
      BY <2>2, <2>4, <3>1, <3>2, Zenon
  <2> QED
    BY <1>9, <1>11, <2>5 DEF WorkerLoads
<1>12. CASE ~UiHandles /\ WorkerPosts
  <2> DEFINE e == [is |-> "show", take |-> worker.take, found |-> worker.found, attention |-> worker.attention]
  <2>1. worker.at = "posting" /\ worker'.at = "rest" /\ ShowNone
    BY <1>1, <1>12 DEF WorkerPosts, NoWork, ValidationHolds, ShowNone
  <2>2. worker.take \in Takes
    BY <2>1, WorkersTake
  <2>3. PICK x \in Events : x = e
    BY <1>1, <2>2, EventTypes DEF Workers
  <2>4. ui' = Append(ui, x) /\ x.take = worker.take /\ x.attention = worker.attention /\ x.found = worker.found
    BY <1>12, <2>3 DEF WorkerPosts
  <2>5. /\ \A i \in 1..Len(ui) : ui'[i] = ui[i]
        /\ \A i \in 1..Len(ui') : i \in 1..Len(ui) \/ i = Len(ui')
        /\ ui'[Len(ui')] = x
    BY <1>1, <2>4, QueuePut
  <2>6. x.found => Fresh(x.take, x.attention)'
    BY <1>5, <1>12, <2>1, <2>4
  <2>7. ASSUME NEW i \in 1..Len(ui'), ui'[i].is = "show", ui'[i].found
        PROVE  Fresh(ui[i].take, ui[i].attention)'
    <3>1. ui'[i] = x
      BY <2>1, <2>5, <2>7 DEF ShowNone
    <3> QED
      BY <2>6, <2>7, <3>1 DEF Fresh
  <2> QED
    BY <1>12, <2>1, <2>7, ShownKept
<1>13. CASE ~UiHandles /\ (WorkerRegisters \/ WorkerReadsMarker \/ WorkerNotes \/ WorkerReplaces)
  <2>1. worker'.at # "posting"
    <3>1. CASE WorkerReplaces
      <4>1. \/ Lost(worker.take)
            \/ \E at \in {"loading", "noting"} :
                 worker' = [worker EXCEPT !.at = at, !.left = @ - 1, !.seen = NoManifest]
        BY <3>1 DEF WorkerReplaces
      <4> QED
        BY <1>1, <4>1 DEF Lost, NoWork, Workers
    <3>2. CASE WorkerRegisters \/ WorkerReadsMarker \/ WorkerNotes
      BY <1>1, <3>2 DEF WorkerRegisters, WorkerReadsMarker, WorkerNotes, Workers
    <3> QED
      BY <1>13, <3>1, <3>2
  <2> QED
    BY <1>9, <1>13, <2>1 DEF WorkerRegisters, WorkerReadsMarker, WorkerNotes, WorkerReplaces
<1>14. CASE ~UiHandles /\ StopRecording
  <2>1. worker'.at # "posting"
    BY <1>14 DEF StopRecording, NoWork
  <2> QED
    BY <1>9, <1>14, <2>1 DEF StopRecording
<1>15. CASE ~UiHandles /\ (JamStarts \/ PeerStarts \/ Record \/ EndJam \/ MaintenanceStep \/ StopRequests \/ StopWaits)
  BY <1>7, <1>15 DEF JamStarts, PeerStarts, Record, EndJam, MaintenanceStep, MaintenanceCalls, MaintenanceEnds,
     StopRequests, StopWaits
<1>16. CASE ~UiHandles /\ (StopFinishes \/ StopGivesUp)
  <2>1. PICK is \in {"ended", "retry"} : Post(is)
    BY <1>16 DEF StopFinishes, StopGivesUp
  <2> DEFINE e == [is |-> is, take |-> 0, found |-> FALSE, attention |-> FALSE]
  <2>2. e \in Events /\ e.is # "show" /\ ui' = Append(ui, e)
    BY <1>1, <2>1, PostEffect
  <2> HIDE DEF e
  <2> QED
    BY <1>8, <1>16, <2>2 DEF StopFinishes, StopGivesUp
<1>17. ASSUME ~UiHandles, NEW p \in Passes, PassLocks(p) \/ PassStep(p)
       PROVE  ShownHolds'
  <2>1. worker' = worker
    BY <1>17, LeasesGiven
  <2>2. CASE PassTells(p)
    <3> DEFINE e == [is |-> "refresh", take |-> pass[p].take, found |-> TRUE, attention |-> FALSE]
    <3>1. pass[p].take \in Takes
      BY <2>2, PassTellsEffect
    <3>2. e \in Events /\ e.is # "show" /\ ui' = Append(ui, e)
      BY <2>2, <3>1, EventTypes DEF PassTells
    <3> HIDE DEF e
    <3> QED
      BY <1>8, <1>17, <2>1, <3>2
  <2>3. CASE ~PassTells(p)
    BY <1>7, <1>17, <2>1, <2>3, LeasesGiven
  <2> QED
    BY <2>2, <2>3
<1>18. CASE ~UiHandles /\ \E t \in Takes, g \in Guests : GuestUploads(t, g)
  BY <1>7, <1>18 DEF GuestUploads
<1> QED
  BY <1>3, <1>10, <1>11, <1>12, <1>13, <1>14, <1>15, <1>16, <1>17, <1>18 DEF Next, User, WorkerStep, StopStep
-----------------------------------------------------------------------------
(* What is owed.                                                           *)

\* A take whose obligations are frozen now has not been reconciled.
LEMMA FrozenUnmarked ==
  ASSUME IInv, NEW t \in Takes, Widened(t), ~manifest[t].marked \/ t \in peer.known \/ peer.state = "down",
         NEW u \in Takes, u \in peer'.known
  PROVE  (u \in peer.known /\ peer'.planned[u] = peer.planned[u]) \/ ~manifest[u].marked
<1>1. CASE peer.state = "down"
  BY <1>1 DEF Widened
<1>2. CASE peer.state # "down"
  BY <1>2 DEF Widened
<1> QED
  BY <1>1, <1>2

LEMMA KnownFrom ==
  ASSUME IInv, Next, NEW u \in Takes, u \in peer'.known
  PROVE  \/ u \in peer.known /\ peer'.planned[u] = peer.planned[u]
         \/ ~manifest[u].marked /\ manifest'[u] = manifest[u] /\ (UiHandles \/ co'.phase \in Busy)
<1>1. /\ TypeOK /\ NumbersHold /\ OwedHolds /\ ValidationHolds /\ PassesHold /\ peer \in Sessions
      /\ ~NoManifest.marked
  BY DEF IInv, TypeOK, NoManifest
<1>2. CASE Record
  <2>1. co.number + 1 \in Takes /\ Widened(co.number + 1)
    BY <1>1, <1>2, TakeTypes, Widens DEF Record
  <2>2. ~manifest[co.number + 1].marked
    BY <1>1, <2>1, CoNumbers DEF NumbersHold
  <2>3. co'.phase = "recording" /\ manifest' = manifest
    BY <1>1, <1>2 DEF Record, TypeOK, CoStates
  <2> QED
    BY <2>1, <2>2, <2>3, FrozenUnmarked DEF Busy
<1>3. CASE StopRecording
  <2>1. co.take \in Takes /\ co.take = co.number /\ Widened(co.take)
    BY <1>1, <1>3, TakeTypes, Widens DEF StopRecording
  <2>2. ~manifest[co.take].marked
    BY <1>1, <1>3, <2>1 DEF NumbersHold, StopRecording
  <2>3. co'.phase = "finalizing" /\ manifest' = manifest
    BY <1>1, <1>3 DEF StopRecording, TypeOK, CoStates
  <2> QED
    BY <2>1, <2>2, <2>3, FrozenUnmarked DEF Busy
<1>4. CASE WorkerRegisters
  <2>1. worker.take \in Takes /\ Active /\ worker.take = co.take /\ co.phase = "finalizing" /\ co.take # 0
    BY <1>1, <1>4, WorkersTake, CoNumbers DEF WorkerRegisters, ValidationHolds, Active
  <2>2. Widened(worker.take)
    BY <1>1, <1>4, <2>1, Widens DEF WorkerRegisters
  <2>3. ~manifest[worker.take].marked \/ worker.take \in peer.known
    BY <1>1, <2>1 DEF OwedHolds
  <2> QED
    BY <1>4, <2>1, <2>2, <2>3, FrozenUnmarked DEF Busy, WorkerRegisters
<1>5. CASE UiHandles
  <2> DEFINE e == ui[1]
  <2>1. /\ e \in Events /\ 1 \in 1..Len(ui) /\ manifest' = manifest
        /\ ShowValidation(e) \/ ShowRefresh(e) \/ ShowEnd(e)
    BY <1>5, UiEffect
  <2>2. CASE ShowValidation(e)
    <3>1. Widened(e.take) \/ peer' = peer
      BY <2>1, <2>2, ShowValidationEffect DEF Shows, Raises
    <3>4. e.take \in Takes /\ e.is = "show"
      BY <2>1, <2>2, ShowValidationEffect
    <3>2. e.take = co.take /\ co.take # 0
      BY <1>1, <2>1, <3>4, CoNumbers DEF ValidationHolds
    <3>3. ~manifest[e.take].marked \/ e.take \in peer.known
      BY <1>1, <3>2 DEF OwedHolds
    <3>5. CASE Widened(e.take)
      BY <1>5, <2>1, <3>3, <3>4, <3>5, FrozenUnmarked
    <3> QED
      BY <3>1, <3>5
  <2>3. CASE ShowRefresh(e)
    <3>1. (Widened(e.take) \/ peer' = peer) /\ e.take \in Takes /\ e.is = "refresh"
      BY <2>1, <2>3, ShowRefreshEffect DEF ShowRefresh
    <3>2. Queued("refresh", e.take)
      BY <2>1, <3>1 DEF Queued
    <3>3. peer.state = "down" \/ e.take \in peer.known
      BY <1>1, <3>1, <3>2 DEF PassesHold, Named
    <3>4. CASE Widened(e.take)
      <4>1. CASE peer.state = "down"
        BY <3>4, <4>1 DEF Widened
      <4>2. CASE peer.state # "down"
        BY <3>3, <3>4, <4>2 DEF Widened
      <4> QED
        BY <4>1, <4>2
    <3> QED
      BY <3>1, <3>4
  <2>4. CASE ShowEnd(e)
    BY <2>1, <2>4, ShowEndEffect
  <2> QED
    BY <2>1, <2>2, <2>3, <2>4
<1>6. CASE peer' = peer
  BY <1>6
<1>7. CASE PeerStarts
  BY <1>7, PeerSteps DEF PeerStarts, Widened, StopRequests, StopFinishes
<1>8. CASE StopStep
  <2>1. CASE StopRequests \/ StopFinishes
    <3>1. stop # "rest" /\ stop' # stop
      BY <2>1 DEF StopRequests, StopFinishes
    <3>2. CASE StopFinishes
      <4>1. [peer EXCEPT !.state = "down"] \in Sessions
        BY <1>1 DEF Sessions
      <4>2. peer'.known = {}
        BY <3>2, <4>1, ClearedType DEF StopFinishes
      <4> QED
        BY <4>2
    <3>3. CASE StopRequests
      BY <1>1, <3>3 DEF StopRequests, Sessions
    <3> QED
      BY <2>1, <3>2, <3>3
  <2>2. CASE StopWaits \/ StopGivesUp
    BY <1>6, <2>2 DEF StopWaits, StopGivesUp
  <2> QED
    BY <1>8, <2>1, <2>2 DEF StopStep
<1>9. CASE WorkerValidates \/ WorkerReadsMarker \/ WorkerNotes \/ WorkerReplaces \/ WorkerLoads \/ WorkerPosts
  BY <1>6, <1>9 DEF WorkerValidates, WorkerReadsMarker, WorkerNotes, WorkerReplaces, WorkerLoads, WorkerPosts
<1>10. CASE JamStarts \/ EndJam \/ MaintenanceStep
  BY <1>6, <1>10 DEF JamStarts, EndJam, MaintenanceStep, MaintenanceCalls, MaintenanceEnds
<1>11. ASSUME NEW p \in Passes, PassLocks(p) \/ PassStep(p)
       PROVE  peer' = peer
  BY <1>11, LeasesGiven
<1>12. CASE \E t \in Takes, g \in Guests : GuestUploads(t, g)
  BY <1>6, <1>12 DEF GuestUploads
<1> QED
  BY <1>2, <1>3, <1>4, <1>5, <1>6, <1>7, <1>8, <1>9, <1>10, <1>11, <1>12 DEF Next, User, WorkerStep

\* A pass that publishes has read what is owed, and says so.
LEMMA PublishedIs ==
  ASSUME IInv, NEW p \in Passes, PassPublishes(p), manifest' # manifest, NEW t, t = pass[p].take
  PROVE  /\ t \in Takes /\ peer.state = "up" /\ t \in peer.known /\ peer' = peer
         /\ ~manifest'[t].open => peer.planned[t] \subseteq Attached(manifest'[t])
         /\ \A u \in Takes : u # t => manifest'[u] = manifest[u]
<1>1. TypeOK /\ PassesHold /\ manifest \in [Takes -> Manifests]
  BY DEF IInv, TypeOK
<1>2. /\ t \in Takes /\ pass[p].at = "attaching" /\ pass[p] \in PassStates /\ Current(pass[p].gen)
      /\ \E n \in Reconciled(pass[p].seen, pass[p].owed, pass[p].inv, pass[p].issue) :
           manifest' = [manifest EXCEPT ![t] = [n EXCEPT !.rev = @ + 1]]
  BY PassManifests DEF PassStep, Published
<1>3. peer.state = "up" /\ peer' = peer
  BY <1>2 DEF Current, PassPublishes
<1>4. t \in peer.known
  <2>1. Named(t)
    BY <1>2 DEF Named, Going
  <2> QED
    BY <1>1, <1>2, <1>3, <2>1 DEF PassesHold
<1>5. PICK m \in Manifests, owed \in SUBSET Guests, inv \in [Guests -> Originals], issue \in BOOLEAN :
        m = pass[p].seen /\ owed = pass[p].owed /\ inv = pass[p].inv /\ issue = pass[p].issue
  BY <1>2 DEF PassStates
<1>6. PICK n \in Reconciled(m, owed, inv, issue) : manifest' = [manifest EXCEPT ![t] = [n EXCEPT !.rev = @ + 1]]
  BY <1>2, <1>5
<1> DEFINE k == [n EXCEPT !.rev = @ + 1]
<1>8. /\ manifest'[t] = k /\ k = [n EXCEPT !.rev = @ + 1]
      /\ \A u \in Takes : u # t => manifest'[u] = manifest[u]
  BY <1>1, <1>2, <1>6
<1> HIDE DEF k
<1>11. n \in Reconciled(m, owed, inv, issue)
  BY <1>6
<1>7. ~k.open => \A g \in owed : g \in Attached(k)
  <2> SUFFICES ASSUME ~k.open
               PROVE  \A g \in owed : g \in Attached(k)
    OBVIOUS
  <2> QED
    BY <1>8, <1>11, ReconciledOwes
<1>9. peer.planned[t] \subseteq owed
  BY <1>1, <1>2, <1>5 DEF PassesHold
<1> QED
  BY <1>2, <1>3, <1>4, <1>7, <1>8, <1>9

\* What is attached stays so, and nothing is owed of a take that is not known.
LEMMA AttachedGrows ==
  ASSUME IInv, Next, NEW t \in Takes
  PROVE  Attached(manifest[t]) \subseteq Attached(manifest'[t])
  BY Follows DEF MayFollow, Attached

LEMMA UnknownOwe ==
  ASSUME IInv, Next, NEW t \in Takes, t \notin peer'.known
  PROVE  peer'.planned[t] = {}
<1>1. OwedHolds
  BY DEF IInv
<1>2. CASE peer' = peer
  BY <1>1, <1>2 DEF OwedHolds
<1>3. ASSUME NEW u \in Takes, Widened(u)
      PROVE  peer'.planned[t] = {}
  BY <1>1, <1>3 DEF OwedHolds, Widened
<1>4. CASE peer'.known = peer.known /\ peer'.planned = peer.planned
  BY <1>1, <1>4 DEF OwedHolds
<1>5. CASE peer'.planned = [v \in Takes |-> {}]
  BY <1>5
<1> QED
  BY <1>2, <1>3, <1>4, <1>5, PeerSteps

\* Only the worker finds that a take has been reconciled.
LEMMA MarkedFrom ==
  ASSUME IInv, Next
  PROVE  co'.marked = co.marked \/ (WorkerReadsMarker /\ co'.marked = worker.take)
<1>1. CASE UiHandles
  <2>1. CASE ShowValidation(ui[1])
    BY <1>1, <2>1, UiEffect, ShowValidationEffect DEF Shows, Raises
  <2>2. CASE ShowRefresh(ui[1]) \/ ShowEnd(ui[1])
    BY <1>1, <2>2, UiEffect, ShowRefreshEffect, ShowEndEffect
  <2> QED
    BY <1>1, <2>1, <2>2, UiEffect
<1> QED
  BY <1>1, CoKept

\* What an outcome says of a take stays true.
LEMMA WholeKept ==
  ASSUME IInv, Next, ~WorkerReadsMarker, NEW t \in Takes, NEW a \in BOOLEAN, Whole(t, a)
  PROVE  Whole(t, a)'
<1>1. SUFFICES ASSUME ~a, co'.marked = t
               PROVE  peer'.planned[t] \subseteq Attached(manifest'[t])
  BY DEF Whole, Attached
<1>2. co.marked = t /\ co.marked # 0 /\ OwedHolds
  BY <1>1, MarkedFrom, CoNumbers DEF IInv
<1>3. manifest[t].marked /\ peer.planned[t] \subseteq Attached(manifest[t])
  BY <1>1, <1>2 DEF OwedHolds, Whole
<1>4. CASE t \in peer'.known
  BY <1>3, <1>4, KnownFrom, AttachedGrows
<1>5. CASE t \notin peer'.known
  BY <1>5, UnknownOwe
<1> QED
  BY <1>4, <1>5

\* A take that was reconciled and whose manifest has no error.
LEMMA MarkedOwes ==
  ASSUME IInv, co.take # 0, co.marked = co.take, ~Attention(manifest[co.take])
  PROVE  peer.planned[co.take] \subseteq Attached(manifest[co.take])
<1>1. co.take \in Takes /\ OwedHolds
  BY CoNumbers DEF IInv
<1>2. manifest[co.take].marked /\ co.take \in peer.known /\ ~manifest[co.take].open
  BY <1>1 DEF OwedHolds, Attention
<1> QED
  BY <1>1, <1>2 DEF OwedHolds

LEMMA WholeWorker ==
  ASSUME IInv, Next, worker'.at = "posting", worker'.found
  PROVE  Whole(worker.take, worker.attention)'
<1>1. /\ TypeOK /\ NumbersHold /\ OwedHolds /\ ValidationHolds /\ worker \in Workers
      /\ manifest \in [Takes -> Manifests]
  BY DEF IInv, TypeOK
<1>2. CASE worker' = worker
  <2>1. PICK t \in Takes, a \in BOOLEAN : t = worker.take /\ a = worker.attention
    BY <1>1, <1>2, WorkersTake DEF Workers
  <2>2. Whole(t, a) /\ ~WorkerReadsMarker
    BY <1>1, <1>2, <2>1 DEF OwedHolds, WorkerReadsMarker
  <2>3. Whole(t, a)'
    BY <2>2, WholeKept
  <2> QED
    BY <1>2, <2>1, <2>3 DEF Whole
<1>3. CASE worker'.attention
  BY <1>3 DEF Whole
<1>4. CASE WorkerValidates
  <2>1. worker.take = co.take /\ co.take = co.number /\ co.marked < co.number /\ co' = co
    BY <1>1, <1>4 DEF WorkerValidates, ValidationHolds, NumbersHold, Busy
  <2>2. (\E found, attention \in BOOLEAN : Result(found, attention)) \/ Lost(worker.take)
    BY <1>4 DEF WorkerValidates
  <2>3. worker'.take = worker.take
    BY <1>1, <2>2 DEF Result, Lost, NoWork, Workers
  <2>4. co'.marked # worker'.take
    BY <1>1, <2>1, <2>3, CoNumbers
  <2> QED
    BY <2>4 DEF Whole
<1>5. CASE WorkerLoads
  <2>1. ~(\E found \in BOOLEAN :
            worker' = [worker EXCEPT !.at = "posting", !.found = found, !.attention = TRUE]) \/ worker'.attention
    BY <1>1 DEF Workers
  <2>2. ~Lost(worker.take)
    BY DEF Lost, NoWork
  <2>3. CASE worker' = [worker EXCEPT !.at = "posting", !.found = TRUE,
                                      !.attention = Attention(manifest[worker.take]) \/ co.marked # worker.take]
    <3>1. /\ worker'.take = worker.take /\ worker.take = co.take /\ co' = co /\ manifest' = manifest /\ peer' = peer
          /\ worker'.attention = (Attention(manifest[worker.take]) \/ co.marked # worker.take)
      BY <1>1, <1>5, <2>3 DEF WorkerLoads, Workers, ValidationHolds
    <3>2. worker.take # 0
      BY <1>1, <1>5, WorkersTake, CoNumbers DEF WorkerLoads
    <3>3. CASE worker'.attention
      BY <1>3, <3>3
    <3>4. CASE ~worker'.attention
      <4>1. ~Attention(manifest[co.take]) /\ co.marked = co.take
        BY <3>1, <3>4
      <4>2. peer.planned[co.take] \subseteq Attached(manifest[co.take])
        BY <3>1, <3>2, <4>1, MarkedOwes
      <4> QED
        BY <3>1, <4>2 DEF Whole, Attached
    <3> QED
      BY <3>3, <3>4
  <2> QED
    BY <1>3, <1>5, <2>1, <2>2, <2>3 DEF WorkerLoads
<1>6. CASE UiHandles
  <2>1. CASE ShowValidation(ui[1])
    <3>1. UNCHANGED worker \/ worker'.at = "lost"
      BY <1>6, <2>1, UiEffect, ShowValidationEffect DEF Shows, Raises
    <3> QED
      BY <1>2, <3>1
  <2>2. CASE ShowRefresh(ui[1]) \/ ShowEnd(ui[1])
    BY <1>2, <1>6, <2>2, UiEffect, ShowRefreshEffect, ShowEndEffect
  <2> QED
    BY <1>6, <2>1, <2>2, UiEffect
<1>7. ASSUME WorkerRegisters \/ WorkerReadsMarker \/ WorkerNotes
      PROVE  worker'.at # "posting"
  <2>1. \/ worker' = [worker EXCEPT !.at = "reconciling"]
        \/ worker' = [worker EXCEPT !.at = "loading"]
        \/ worker' = [worker EXCEPT !.at = "noting", !.left = 3]
        \/ worker' = [worker EXCEPT !.at = "replacing", !.seen = manifest[worker.take]]
    BY <1>7 DEF WorkerRegisters, WorkerReadsMarker, WorkerNotes
  <2>2. worker'.at \in {"reconciling", "loading", "noting", "replacing"}
    BY <1>1, <2>1 DEF Workers
  <2> QED
    BY <2>2
<1>8. ASSUME WorkerReplaces
      PROVE  worker'.at # "posting"
  <2>1. \/ Lost(worker.take)
        \/ \E at \in {"loading", "noting"} :
             worker' = [worker EXCEPT !.at = at, !.left = @ - 1, !.seen = NoManifest]
    BY <1>8 DEF WorkerReplaces
  <2> QED
    BY <1>1, <2>1 DEF Lost, NoWork, Workers
<1>9. ASSUME WorkerPosts \/ StopRecording
      PROVE  worker'.at # "posting"
  <2>1. worker' = NoWork \/ worker' = [NoWork EXCEPT !.at = "validating", !.take = co.take]
    BY <1>9 DEF WorkerPosts, StopRecording
  <2>2. NoWork.at = "rest" /\ [NoWork EXCEPT !.at = "validating", !.take = co.take].at = "validating"
    BY DEF NoWork
  <2> QED
    BY <2>1, <2>2
<1>10. CASE JamStarts \/ PeerStarts \/ Record \/ EndJam \/ MaintenanceStep \/ StopStep
  BY <1>2, <1>10 DEF JamStarts, PeerStarts, Record, EndJam, MaintenanceStep, MaintenanceCalls, MaintenanceEnds,
     StopStep, StopRequests, StopWaits, StopFinishes, StopGivesUp
<1>11. ASSUME NEW p \in Passes, PassLocks(p) \/ PassStep(p)
       PROVE  worker' = worker
  BY <1>11, LeasesGiven
<1>12. CASE \E t \in Takes, g \in Guests : GuestUploads(t, g)
  BY <1>2, <1>12 DEF GuestUploads
<1> QED
  BY <1>2, <1>4, <1>5, <1>6, <1>7, <1>8, <1>9, <1>10, <1>11, <1>12 DEF Next, User, WorkerStep

LEMMA WholeQueued ==
  ASSUME IInv, Next, NEW i \in 1..Len(ui'), ui'[i].is = "show", ui'[i].found
  PROVE  Whole(ui[i].take, ui[i].attention)'
<1>1. TypeOK /\ ValidationHolds /\ OwedHolds /\ ui \in Seq(Events) /\ worker \in Workers
  BY DEF IInv, TypeOK
<1>2. \A x \in Events : x.is = "show" => x.take \in Takes /\ x.attention \in BOOLEAN
  BY DEF Events
\* it was in the queue
<1>3. ASSUME NEW j \in 1..Len(ui), ui'[i] = ui[j]
      PROVE  Whole(ui[i].take, ui[i].attention)'
  <2>1. PICK t \in Takes, a \in BOOLEAN : t = ui[j].take /\ a = ui[j].attention
    BY <1>1, <1>2, <1>3
  <2>2. Whole(t, a)
    BY <1>1, <1>3, <2>1 DEF OwedHolds
  <2>3. ~WorkerReadsMarker
    BY <1>1, <1>3 DEF ValidationHolds, WorkerReadsMarker
  <2>4. Whole(t, a)'
    BY <2>2, <2>3, WholeKept
  <2> QED
    BY <1>3, <2>1, <2>4 DEF Whole
\* or the worker has just put it there
<1>4. CASE WorkerPosts
  <2>1. worker.at = "posting" /\ worker.take \in Takes
    BY <1>4, WorkersTake DEF WorkerPosts
  <2>2. PICK x \in Events : x = [is |-> "show", take |-> worker.take, found |-> worker.found,
                                 attention |-> worker.attention]
    BY <1>1, <2>1, EventTypes DEF Workers
  <2>3. ui' = Append(ui, x) /\ x.take = worker.take /\ x.attention = worker.attention /\ x.found = worker.found
    BY <1>4, <2>2 DEF WorkerPosts
  <2>4. (i \in 1..Len(ui) /\ ui'[i] = ui[i]) \/ ui'[i] = x
    BY <1>1, <2>3, QueuePut
  <2>5. CASE ui'[i] = x
    <3>1. PICK t \in Takes, a \in BOOLEAN : t = worker.take /\ a = worker.attention
      BY <1>1, <2>1 DEF Workers
    <3>2. Whole(t, a) /\ ~WorkerReadsMarker
      BY <1>1, <2>1, <2>3, <2>5, <3>1 DEF OwedHolds, WorkerReadsMarker
    <3>3. Whole(t, a)'
      BY <3>2, WholeKept
    <3> QED
      BY <2>3, <2>5, <3>1, <3>3 DEF Whole
  <2> QED
    BY <1>3, <2>4, <2>5
<1>5. CASE UiHandles
  <2>1. i + 1 \in 1..Len(ui) /\ ui'[i] = ui[i + 1]
    BY <1>1, <1>5, UiEffect, QueueTaken
  <2> QED
    BY <1>3, <2>1
<1>6. CASE ui' = ui
  BY <1>3, <1>6
<1>7. ASSUME NEW e \in Events, e.is # "show", ui' = Append(ui, e)
      PROVE  Whole(ui[i].take, ui[i].attention)'
  <2>1. i \in 1..Len(ui) /\ ui'[i] = ui[i]
    BY <1>1, <1>7, QueuePut
  <2> QED
    BY <1>3, <2>1
<1>8. CASE StopFinishes \/ StopGivesUp
  <2>1. PICK is \in {"ended", "retry"} : Post(is)
    BY <1>8 DEF StopFinishes, StopGivesUp
  <2>2. \E e \in Events : e.is # "show" /\ ui' = Append(ui, e)
    BY <1>1, <2>1, PostEffect
  <2> QED
    BY <1>7, <2>2
<1>9. ASSUME NEW p \in Passes, PassLocks(p) \/ PassStep(p)
      PROVE  Whole(ui[i].take, ui[i].attention)'
  <2>1. CASE PassTells(p)
    <3>1. pass[p].take \in Takes
      BY <2>1, PassTellsEffect
    <3>2. \E e \in Events : e.is # "show" /\ ui' = Append(ui, e)
      BY <2>1, <3>1, EventTypes DEF PassTells
    <3> QED
      BY <1>7, <3>2
  <2>2. CASE ~PassTells(p)
    BY <1>6, <1>9, <2>2, LeasesGiven
  <2> QED
    BY <2>1, <2>2
<1>10. CASE User \/ MaintenanceStep \/ StopRequests \/ StopWaits
  BY <1>6, <1>10 DEF User, JamStarts, PeerStarts, Record, StopRecording, EndJam, MaintenanceStep,
     MaintenanceCalls, MaintenanceEnds, StopRequests, StopWaits
<1>11. CASE WorkerValidates \/ WorkerRegisters \/ WorkerReadsMarker \/ WorkerNotes \/ WorkerReplaces \/ WorkerLoads
  BY <1>6, <1>11 DEF WorkerValidates, WorkerRegisters, WorkerReadsMarker, WorkerNotes, WorkerReplaces, WorkerLoads
<1>12. CASE \E t \in Takes, g \in Guests : GuestUploads(t, g)
  BY <1>6, <1>12 DEF GuestUploads
<1> QED
  BY <1>4, <1>5, <1>8, <1>9, <1>10, <1>11, <1>12 DEF Next, WorkerStep, StopStep

\* What is shown as complete has all that was owed.
LEMMA CompleteHandled ==
  ASSUME IInv, UiHandles, co'.phase = "complete", co'.last # 0
  PROVE  peer'.planned[co'.last] \subseteq Attached(manifest[co'.last])
<1> DEFINE e == ui[1]
<1>1. /\ TypeOK /\ NumbersHold /\ OwedHolds /\ ValidationHolds /\ PassesHold /\ SessionHolds
      /\ e \in Events /\ 1 \in 1..Len(ui)
  BY UiEffect DEF IInv
<1>2. CASE ShowValidation(e)
  <2>1. e.is = "show" /\ e.take \in Takes
    BY <1>1, <1>2, ShowValidationEffect
  <2>2. e.take = co.take /\ co.phase = "finalizing" /\ co.take # 0
    BY <1>1, <2>1, CoNumbers DEF ValidationHolds
  <2>3. PICK a \in BOOLEAN : Shows(e, a)
    BY <1>1, <1>2, <2>2, ShowValidationEffect DEF Raises
  <2>4. /\ Widened(co.take) /\ e.found /\ co'.last = co.take
        /\ co'.phase = PhaseOf(a \/ (e.found /\ Active /\ co.marked # co.take))
        /\ a = (IF co.take \in co.news THEN Attention(manifest[co.take]) ELSE e.attention) \/ a = TRUE
    BY <2>2, <2>3 DEF Shows
  <2>5. ~a /\ (Active => co.marked = co.take)
    BY <2>4 DEF PhaseOf
  <2>6. CASE ~Active
    <3>1. peer' = peer /\ peer.planned = [t \in Takes |-> {}]
      BY <1>1, <2>4, <2>6 DEF SessionHolds, Active, Widened
    <3> QED
      BY <2>1, <2>2, <2>4, <3>1
  <2>7. CASE Active
    <3>1. co.marked = co.take /\ co.take \in Takes
      BY <2>1, <2>2, <2>5, <2>7
    <3>2. co.take \in peer.known
      BY <1>1, <2>2, <3>1 DEF OwedHolds
    <3>3. peer'.planned[co.take] = peer.planned[co.take]
      BY <2>4, <3>1, <3>2 DEF Widened
    <3>4. CASE ~Attention(manifest[co.take])
      BY <2>2, <2>4, <3>1, <3>3, <3>4, MarkedOwes
    <3>5. CASE ~e.attention
      BY <1>1, <2>1, <2>2, <2>4, <3>1, <3>3, <3>5 DEF OwedHolds, Whole
    <3> QED
      BY <2>4, <2>5, <3>4, <3>5
  <2> QED
    BY <2>6, <2>7
<1>3. CASE ShowRefresh(e)
  <2>1. e.take \in Takes /\ e.is = "refresh"
    BY <1>1, <1>3, ShowRefreshEffect
  <2>2. manifest[e.take].marked /\ (peer.state = "down" \/ e.take \in peer.known)
    <3>1. Queued("refresh", e.take)
      BY <1>1, <2>1 DEF Queued
    <3> QED
      BY <1>1, <2>1, <3>1 DEF PassesHold, Named
  <2>3. peer' = peer \/ Widened(e.take)
    BY <1>1, <1>3, ShowRefreshEffect
  <2>4. \A t \in Takes : peer'.planned[t] = peer.planned[t]
    BY <2>1, <2>2, <2>3 DEF Widened
  <2>5. CASE co'.phase = co.phase
    <3>1. co'.last = co.last /\ co.last \in Takes
      BY <1>1, <1>3, ShowRefreshEffect, CoNumbers
    <3> QED
      BY <1>1, <2>4, <2>5, <3>1 DEF OwedHolds
  <2>6. CASE co'.phase # co.phase
    <3>1. co'.last = e.take /\ co'.phase = PhaseOf(Attention(manifest[e.take]))
      BY <1>1, <1>3, <2>6, ShowRefreshEffect DEF RefreshApplies
    <3>2. ~manifest[e.take].open
      BY <3>1 DEF PhaseOf, Attention
    <3>3. CASE e.take \in peer.known
      BY <1>1, <2>1, <2>2, <2>4, <3>1, <3>2, <3>3 DEF OwedHolds
    <3>4. CASE peer.state = "down"
      BY <1>1, <2>1, <2>4, <3>1, <3>4 DEF SessionHolds
    <3> QED
      BY <2>2, <3>3, <3>4
  <2> QED
    BY <2>5, <2>6
<1>4. CASE ShowEnd(e)
  <2>1. co'.last = co.last /\ co'.phase = co.phase /\ peer' = peer
    BY <1>1, <1>4, ShowEndEffect
  <2> QED
    BY <1>1, <2>1 DEF OwedHolds
<1> QED
  BY <1>2, <1>3, <1>4, UiEffect

LEMMA CompleteHas ==
  ASSUME IInv, Next, co'.phase = "complete", co'.last # 0
  PROVE  peer'.planned[co'.last] \subseteq Attached(manifest'[co'.last])
<1>1. TypeOK /\ OwedHolds
  BY DEF IInv
<1>2. CASE UiHandles
  BY <1>2, UiEffect, CompleteHandled
<1>3. CASE ~UiHandles
  <2>1. co'.last = co.last /\ co.phase = "complete" /\ co.last \in Takes
    BY <1>1, <1>3, CoKept, CoNumbers DEF Busy
  <2>2. peer.planned[co.last] \subseteq Attached(manifest[co.last])
    BY <1>1, <2>1 DEF OwedHolds
  <2>3. CASE co.last \in peer'.known
    BY <1>3, <2>1, <2>2, <2>3, KnownFrom, AttachedGrows DEF Busy
  <2>4. CASE co.last \notin peer'.known
    BY <2>1, <2>4, UnknownOwe
  <2> QED
    BY <2>1, <2>3, <2>4
<1> QED
  BY <1>2, <1>3

LEMMA OwedStep ==
  ASSUME IInv, Next
  PROVE  OwedHolds'
<1>1. /\ TypeOK /\ NumbersHold /\ OwedHolds /\ EndHolds /\ ValidationHolds /\ PassesHold /\ ShownHolds
      /\ manifest \in [Takes -> Manifests] /\ ~NoManifest.marked
  BY DEF IInv, TypeOK, NoManifest
<1>2. \A t \in Takes : manifest[t].marked => manifest'[t].marked
  BY Follows DEF MayFollow
\* how a manifest that is marked now may have changed
<1>3. ASSUME NEW t \in Takes, manifest'[t].marked
      PROVE  \/ manifest'[t] = manifest[t]
             \/ manifest[t].marked /\ manifest'[t].open /\ peer' = peer
             \/ \E p \in Passes : PassPublishes(p) /\ manifest' # manifest /\ t = pass[p].take
  <2>1. CASE manifest' = manifest
    BY <2>1
  <2>2. ASSUME NEW base \in BOOLEAN, worker.take \in Takes,
               manifest' = [manifest EXCEPT ![worker.take] = Validated(base)]
        PROVE  manifest'[t] = manifest[t]
    <3>1. ~Validated(base).marked
      BY ValidatedFollows
    <3> QED
      BY <1>1, <1>3, <2>2, <3>1
  <2>3. CASE /\ WorkerReplaces /\ worker.take \in Takes /\ manifest[worker.take] = worker.seen
             /\ manifest' = [manifest EXCEPT ![worker.take] = Noted(worker.seen)]
    <3>1. CASE t = worker.take
      <4>1. worker.seen \in Manifests /\ manifest'[t] = Noted(worker.seen) /\ manifest[t] = worker.seen
        BY <1>1, <2>3, <3>1
      <4> QED
        BY <1>3, <2>3, <4>1, NotedFollows DEF WorkerReplaces
    <3>2. CASE t # worker.take
      BY <1>1, <2>3, <3>2
    <3> QED
      BY <3>1, <3>2
  <2>4. ASSUME NEW p \in Passes, PassPublishes(p), manifest' # manifest
        PROVE  manifest'[t] = manifest[t] \/ t = pass[p].take
    BY <2>4, PublishedIs
  <2> QED
    BY <2>1, <2>2, <2>3, <2>4, ManifestSteps DEF Published
<1>4. ASSUME NEW t \in Takes, t \in peer'.known, manifest'[t].marked, ~manifest'[t].open
      PROVE  peer'.planned[t] \subseteq Attached(manifest'[t])
  <2>1. CASE manifest'[t] = manifest[t]
    <3>1. t \in peer.known /\ peer'.planned[t] = peer.planned[t]
      BY <1>4, <2>1, KnownFrom
    <3> QED
      BY <1>1, <1>4, <2>1, <3>1 DEF OwedHolds
  <2>2. ASSUME NEW p \in Passes, PassPublishes(p), manifest' # manifest, t = pass[p].take
        PROVE  peer'.planned[t] \subseteq Attached(manifest'[t])
    BY <1>4, <2>2, PublishedIs
  <2> QED
    BY <1>3, <1>4, <2>1, <2>2
<1>5. \A t \in Takes : t \notin peer'.known => peer'.planned[t] = {}
  BY UnknownOwe
<1>6. ASSUME co'.take # 0, manifest'[co'.take].marked
      PROVE  co'.take \in peer'.known /\ peer'.state = "up"
  <2>1. co'.take = co.take
    <3>1. CASE UiHandles
      <4>1. CASE ShowValidation(ui[1])
        BY <1>6, <3>1, <4>1, UiEffect, ShowValidationEffect DEF Shows, Raises
      <4>2. CASE ShowRefresh(ui[1]) \/ ShowEnd(ui[1])
        BY <3>1, <4>2, UiEffect, ShowRefreshEffect, ShowEndEffect
      <4> QED
        BY <3>1, <4>1, <4>2, UiEffect
    <3>2. CASE Record
      <4>1. co'.take = co.number + 1 /\ manifest' = manifest /\ co.number + 1 \in Takes
        BY <1>1, <3>2, TakeTypes DEF Record, TypeOK, CoStates
      <4>2. manifest[co.number + 1] = NoManifest
        BY <1>1, <4>1, CoNumbers DEF NumbersHold
      <4> QED
        BY <1>1, <1>6, <4>1, <4>2
    <3> QED
      BY <3>1, <3>2, CoKept
  <2>2. co.take \in Takes /\ co.phase \in Busy /\ co.jam = "open"
    BY <1>1, <1>6, <2>1, CoNumbers DEF NumbersHold, EndHolds
  <2>3. ~StopRequests /\ ~StopFinishes
    BY <1>1, <2>2 DEF EndHolds, StopRequests, StopFinishes
  <2>4. CASE manifest[co.take].marked
    <3>1. co.take \in peer.known /\ peer.state = "up"
      BY <1>1, <1>6, <2>1, <2>4 DEF OwedHolds
    <3> QED
      BY <2>1, <2>3, <3>1, PeerSteps DEF Widened, PeerStarts
  <2>5. CASE ~manifest[co.take].marked
    BY <1>3, <1>6, <2>1, <2>2, <2>5, PublishedIs
  <2> QED
    BY <2>4, <2>5
<1>7. ASSUME co'.marked # 0
      PROVE  manifest'[co'.marked].marked
  <2>1. CASE co'.marked = co.marked
    BY <1>1, <1>2, <1>7, <2>1, CoNumbers DEF OwedHolds
  <2>2. CASE WorkerReadsMarker /\ co'.marked = worker.take
    <3>1. worker.take \in Takes
      BY <2>2, WorkersTake DEF WorkerReadsMarker
    <3>2. manifest[worker.take].marked \/ co' = co
      BY <2>2 DEF WorkerReadsMarker
    <3> QED
      BY <1>2, <2>1, <2>2, <3>1, <3>2
  <2> QED
    BY <2>1, <2>2, MarkedFrom
<1>8. ASSUME co'.phase = "complete", co'.last # 0
      PROVE  peer'.planned[co'.last] \subseteq Attached(manifest'[co'.last])
  BY <1>8, CompleteHas
<1>9. worker'.at = "posting" /\ worker'.found => Whole(worker.take, worker.attention)'
  BY WholeWorker
<1>10. \A i \in 1..Len(ui') : ui'[i].is = "show" /\ ui'[i].found => Whole(ui[i].take, ui[i].attention)'
  BY WholeQueued
<1> QED
  BY <1>4, <1>5, <1>6, <1>7, <1>8, <1>9, <1>10 DEF OwedHolds, Attached
-----------------------------------------------------------------------------
(* The theorems.                                                           *)

LEMMA InitHolds ==
  ASSUME Init
  PROVE  IInv
<1>1. /\ NoManifest.rev = 0 /\ ~NoManifest.marked /\ NoManifest.timing = [g \in Guests |-> "none"]
      /\ NoPass.at = "rest" /\ NoWork.at = "rest" /\ ~NoThread.alive /\ NoThread.todo = {}
  BY DEF NoManifest, NoPass, NoWork, NoThread
<1>2. /\ co.jam = "closed" /\ co.phase = "idle" /\ co.number = 0 /\ co.take = 0 /\ co.last = 0
      /\ co.marked = 0 /\ co.news = {} /\ ~co.lastAttention
      /\ peer.state = "down" /\ peer.registered = {} /\ peer.known = {} /\ peer.planned = [t \in Takes |-> {}]
      /\ ui = <<>> /\ Len(ui) = 0 /\ worker = NoWork /\ loop = NoThread /\ stop = "rest"
      /\ \A p \in Passes : pass[p] = NoPass
      /\ \A t \in Takes : manifest[t] = NoManifest /\ media[t] = {}
  BY DEF Init
<1>3. "maintenance" \in Passes /\ "validation" \in Passes /\ Takes \subseteq Nat /\ \A t \in Takes : t > 0
  BY Bounds DEF Passes, Takes
<1>4. TypeOK
  <2>1. 0 \in 0..MaxTakes /\ 0 \in Generations
    BY Bounds DEF Generations
  <2>2. co \in CoStates
    BY <2>1 DEF Init, CoStates
  <2>3. peer \in Sessions
    BY <2>1 DEF Init, Sessions
  <2>4. ui \in Seq(Events)
    BY DEF Init
  <2>5. worker \in Workers /\ loop \in [alive: BOOLEAN, gen: Generations, todo: SUBSET Takes]
        /\ pass \in [Passes -> PassStates]
    BY ConstantTypes DEF Init
  <2>6. store \in [Takes -> [Guests -> Originals]] /\ manifest \in [Takes -> Manifests]
    BY ManifestTypes DEF Init
  <2>7. /\ media \in [Takes -> SUBSET Guests] /\ stop \in {"rest", "asked", "waiting", "joining"}
        /\ untold \subseteq Takes /\ faults \in Nat
    BY Bounds DEF Init
  <2> QED
    BY <2>2, <2>3, <2>4, <2>5, <2>6, <2>7 DEF TypeOK
<1>5. \A i \in 1..Len(ui) : FALSE
  BY <1>2
<1>6. \A p \in Passes : pass[p].at = "rest" /\ ~Going(p)
  BY <1>1, <1>2 DEF Going
<1>7. ~Leases /\ ~EndQueued /\ \A t : ~Queued("refresh", t)
  BY <1>5, <1>6 DEF Leases, EndQueued, Queued
<1>8. SessionHolds
  BY <1>1, <1>2, <1>3, <1>6 DEF SessionHolds
<1>9. EndHolds
  BY <1>2, <1>5, <1>7 DEF EndHolds, Quiet, Busy
<1>10. ValidationHolds
  BY <1>1, <1>2, <1>3, <1>5, <1>6 DEF ValidationHolds
<1>11. NumbersHold
  BY <1>1, <1>2 DEF NumbersHold, Busy
<1>12. PassesHold
  BY <1>2, <1>6, <1>7 DEF PassesHold
<1>13. ShownHolds
  BY <1>1, <1>2, <1>5 DEF ShownHolds
<1>14. OwedHolds
  BY <1>1, <1>2 DEF OwedHolds
<1>15. TracksBacked
  BY <1>1, <1>2 DEF TracksBacked, Attached
<1> QED
  BY <1>4, <1>8, <1>9, <1>10, <1>11, <1>12, <1>13, <1>14, <1>15 DEF IInv

LEMMA StutterHolds ==
  ASSUME IInv, UNCHANGED vars
  PROVE  IInv'
<1>1. /\ co' = co /\ ui' = ui /\ worker' = worker /\ peer' = peer /\ loop' = loop /\ pass' = pass /\ stop' = stop
      /\ store' = store /\ manifest' = manifest /\ media' = media /\ untold' = untold /\ faults' = faults
  BY DEF vars
<1>2. /\ TypeOK' /\ SessionHolds' /\ EndHolds'
  BY <1>1 DEF IInv, TypeOK, SessionHolds, EndHolds, Quiet, Leases, EndQueued
<1>3. ValidationHolds' /\ NumbersHold' /\ TracksBacked'
  BY <1>1 DEF IInv, ValidationHolds, NumbersHold, TracksBacked, Going
<1>4. PassesHold'
  <2>1. \A t : Named(t)' <=> Named(t)
    BY <1>1 DEF Named, Queued, Going
  <2> QED
    BY <1>1, <2>1 DEF IInv, PassesHold, Going, Queued, Current
<1>5. ShownHolds'
  <2>1. \A t, a : Fresh(t, a)' <=> Fresh(t, a)
    BY <1>1 DEF Fresh, Queued, Holds
  <2> QED
    BY <1>1 DEF IInv, ShownHolds, Fresh, Queued, Holds
<1>6. OwedHolds'
  BY <1>1 DEF IInv, OwedHolds, Whole
<1> QED
  BY <1>2, <1>3, <1>4, <1>5, <1>6 DEF IInv

\* The invariant holds of every behaviour: what the UI thread, the worker,
\* the maintenance and the stop rely on is never undone by the others.
THEOREM Invariance == Spec => []IInv
<1>1. Init => IInv
  BY InitHolds
<1>2. IInv /\ [Next]_vars => IInv'
  <2> SUFFICES ASSUME IInv, [Next]_vars
               PROVE  IInv'
    OBVIOUS
  <2>1. CASE Next
    <3>1. TypeOK' /\ SessionHolds' /\ EndHolds' /\ ValidationHolds' /\ NumbersHold'
      BY <2>1, TypeStep, SessionStep, EndStep, ValidationStep, NumbersStep
    <3>2. PassesHold' /\ ShownHolds' /\ OwedHolds' /\ TracksBacked'
      BY <2>1, PassesStep, ShownStep, OwedStep, TracksStep
    <3> QED
      BY <3>1, <3>2 DEF IInv
  <2>2. CASE UNCHANGED vars
    BY <2>2, StutterHolds
  <2> QED
    BY <2>1, <2>2
<1> QED
  BY <1>1, <1>2, PTL DEF Spec

\* Every variable keeps its type (the fields of the coordinator, of the peer
\* session and of the manifest).
THEOREM TypeCorrect == Spec => []TypeOK
<1>1. IInv => TypeOK
  BY DEF IInv
<1> QED
  BY <1>1, Invariance, PTL

\* A take that is shown as complete has every original that its guests owed;
\* and when its manifest lists an error, that is about to be shown, unless the
\* step that was to tell of it has raised (_show_validation_result).
THEOREM CompleteIsTold == Spec => []CompleteTold
<1>1. ASSUME IInv
      PROVE  CompleteTold
  <2> SUFFICES ASSUME co.phase = "complete", co.last # 0
               PROVE  /\ peer.planned[co.last] \subseteq Attached(manifest[co.last])
                      /\ Attention(manifest[co.last]) => News(co.last) \/ co.last \in untold
    BY DEF CompleteTold
  <2>1. /\ TypeOK /\ ShownHolds /\ OwedHolds /\ co.last \in Takes
    BY <1>1, CoNumbers DEF IInv
  <2>2. Fresh(co.last, co.lastAttention) /\ ~co.lastAttention
    BY <2>1 DEF ShownHolds, Busy
  <2>3. Queued("refresh", co.last) \/ (\E p \in Passes : Holds(p, co.last) /\ pass[p].at = "told")
        => News(co.last)
    BY DEF News, Queued
  <2>4. co.last \notin co.news
    BY <2>1 DEF ShownHolds
  <2>5. co.lastAttention = Attention(manifest[co.last]) \/ co.last \in untold \/ News(co.last)
    BY <2>2, <2>3, <2>4 DEF Fresh
  <2>6. Attention(manifest[co.last]) => News(co.last) \/ co.last \in untold
    BY <2>2, <2>5
  <2>7. peer.planned[co.last] \subseteq Attached(manifest[co.last])
    BY <2>1 DEF OwedHolds
  <2> QED
    BY <2>6, <2>7
<1> QED
  BY <1>1, Invariance, PTL

\* What is shown of a reconciled take is what its manifest says, in whichever
\* order validation and refreshes come, unless the step that was to tell of it
\* has raised (on_peer_take_reconciled).
THEOREM ShownIsTrue == Spec => []ShownTrue
<1>1. ASSUME IInv
      PROVE  ShownTrue
  <2> SUFFICES ASSUME co.phase \in {"complete", "attention"}, co.last # 0, co.marked = co.last,
                      ~News(co.last), co.last \notin untold
               PROVE  co.phase = "attention" <=> Attention(manifest[co.last])
    BY DEF ShownTrue
  <2>1. /\ TypeOK /\ ShownHolds /\ co.last \in Takes
    BY <1>1, CoNumbers DEF IInv
  <2>2. /\ Fresh(co.last, co.lastAttention)
        /\ co.phase = "complete" => ~co.lastAttention
        /\ co.phase = "attention" => co.lastAttention
    BY <2>1 DEF ShownHolds, Busy
  <2>3. ~Queued("refresh", co.last) /\ ~(\E p \in Passes : Holds(p, co.last) /\ pass[p].at = "told")
    BY DEF News, Queued
  <2>4. co.last \notin co.news
    BY <2>1 DEF ShownHolds
  <2>5. co.lastAttention = Attention(manifest[co.last])
    BY <2>2, <2>3, <2>4 DEF Fresh
  <2> QED
    BY <2>2, <2>5
<1> QED
  BY <1>1, Invariance, PTL

\* When a jam has ended no take is shown, the maintenance thread is gone and
\* no callback is queued or has a lease (the comment of
\* on_audio_session_stopped).
THEOREM EndIsQuiet == Spec => []EndedQuiet
<1>1. ASSUME IInv
      PROVE  EndedQuiet
  <2> SUFFICES ASSUME co.jam = "closed"
               PROVE  co.phase = "idle" /\ ui = <<>> /\ ~loop.alive /\ ~Leases
    BY DEF EndedQuiet
  <2>1. ui = <<>>
    BY <1>1 DEF IInv, EndHolds
  <2> QED
    BY <1>1, <2>1, ClosedQuiet
<1> QED
  BY <1>1, Invariance, PTL

\* A track of a manifest has its file in the folder of the take, although the
\* file is copied before the manifest is compared (_reconcile_take_once).
THEOREM TracksAreBacked == Spec => []TracksBacked
<1>1. IInv => TracksBacked
  BY DEF IInv
<1> QED
  BY <1>1, Invariance, PTL

\* No writer of a manifest undoes what another has published
\* (replace_take_project_manifest_if_unchanged).
THEOREM NothingIsDetached == Spec => NothingDetached
<1>1. IInv /\ [Next]_vars => [\A t \in Takes : MayFollow(manifest[t], manifest'[t])]_vars
  BY Follows
<1> QED
  BY <1>1, Invariance, PTL DEF Spec, NothingDetached
=============================================================================
