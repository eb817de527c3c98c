------------------------ MODULE SessionRegistryProofs ------------------------
(***************************************************************************)
(* SessionRegistry keeps its counters, its credentials and its tombstones  *)
(* in order, for every value of the constants.                             *)
(***************************************************************************)
EXTENDS SessionRegistry, FoldLemmas

\* What the assumptions on the constants give.
LEMMA Constants ==
  /\ MaxActive \in Nat \ {0} /\ Idle \in Nat \ {0} /\ TombstoneTtl \in Nat \ {0}
  /\ MaxSessions \in Nat \ {0} /\ MaxPerHost \in Nat \ {0} /\ MaxTombstones \in Nat \ {0}
  /\ MaxPerRecipient \in Nat \ {0} /\ MaxSessionBytes \in Nat \ {0} /\ MaxGlobalBytes \in Nat \ {0}
  /\ Sizes \subseteq Nat /\ ControlSequences \subseteq Nat /\ DatagramSequences \subseteq Nat
  /\ MaxTime \in Nat /\ \A ttl \in Ttls : ttl \in Nat \ {0}
  /\ None \notin Tokens /\ None \notin Endpoints
  BY RegistryAssumption DEF RegistryAssumption

\* The sessions are finitely many and each is in the order once.
LEMMA LiveFinite ==
  ASSUME TypeOK
  PROVE  IsFiniteSet(Live) /\ Cardinality(Live) \in Nat /\ Distinct(order)
  BY SeqCount, FS_CardinalityType DEF TypeOK

-----------------------------------------------------------------------------
(* What the queues hold.                                                   *)

\* The size of a session is the sum of its two queues.
LEMMA SizeIs == ASSUME NEW s PROVE Size(s) = SeqSum(s.queue["host"] \o s.queue["guest"])
  BY DEF Size, SeqSum

\* The total is a sum over a set.
LEMMA QueuedIs ==
  ASSUME NEW live, NEW S, IsFiniteSet(S)
  PROVE  Queued(live, S) = SumOver([id \in S |-> live[id].bytes], S)
<1> DEFINE f == [id \in S |-> live[id].bytes]
           iter == CHOOSE iter : iter = [s \in SUBSET S |->
                     IF s = {} THEN 0 ELSE live[AnyOf(s)].bytes + iter[s \ {AnyOf(s)}]]
<1>1. Queued(live, S) = iter[S]
  BY DEF Queued, MapThenSumSet, MapThenFoldSet, AnyOf
<1>2. PICK g : Sums(g, f, S) /\ SumOver(f, S) = g[S]
  BY SumOverDef
<1>3. \A s \in SUBSET S : s # {} => f[AnyOf(s)] = live[AnyOf(s)].bytes
  BY AnyOfIn
<1>4. g = [s \in SUBSET S |-> IF s = {} THEN 0 ELSE live[AnyOf(s)].bytes + g[s \ {AnyOf(s)}]]
  BY <1>2, <1>3 DEF Sums
<1>5. iter = [s \in SUBSET S |-> IF s = {} THEN 0 ELSE live[AnyOf(s)].bytes + iter[s \ {AnyOf(s)}]]
  BY <1>4
<1>6. Sums(iter, f, S)
  BY <1>3, <1>5 DEF Sums
<1>7. g[S] = iter[S]
  BY <1>2, <1>6, SumsAgree
<1> QED
  BY <1>1, <1>2, <1>7

\* The total depends on no more than what the sessions say they hold.
LEMMA QueuedSame ==
  ASSUME NEW S, IsFiniteSet(S), NEW f, NEW e, \A id \in S : f[id].bytes = e[id].bytes
  PROVE  Queued(f, S) = Queued(e, S)
<1> DEFINE g == [id \in S |-> f[id].bytes]
           h == [id \in S |-> e[id].bytes]
<1>1. g = h
  OBVIOUS
<1>2. Queued(f, S) = SumOver(g, S) /\ Queued(e, S) = SumOver(h, S)
  BY QueuedIs
<1> QED
  BY <1>1, <1>2

\* The total is a natural number.
LEMMA QueuedNat ==
  ASSUME NEW S, IsFiniteSet(S), NEW f, \A id \in S : f[id].bytes \in Nat
  PROVE  Queued(f, S) \in Nat
<1> DEFINE g == [id \in S |-> f[id].bytes]
<1>1. \A id \in S : g[id] \in Nat
  OBVIOUS
<1> HIDE DEF g
<1>2. SumOver(g, S) \in Nat
  BY <1>1, SumNat
<1> QED
  BY <1>2, QueuedIs DEF g

\* No sessions hold nothing.
LEMMA QueuedEmpty ==
  ASSUME NEW f
  PROVE  Queued(f, {}) = 0
  BY QueuedIs, FS_EmptySet, SumEmpty

\* Sessions taken out take what they hold from the total.
LEMMA QueuedSplit ==
  ASSUME NEW S, IsFiniteSet(S), NEW f, \A id \in S : f[id].bytes \in Nat, NEW T \in SUBSET S
  PROVE  Queued(f, S) = Queued(f, S \ T) + Queued(f, T)
<1> DEFINE g == [id \in S |-> f[id].bytes]
           h == [id \in S \ T |-> f[id].bytes]
           k == [id \in T |-> f[id].bytes]
<1>1. /\ \A id \in S : g[id] \in Nat
      /\ \A id \in S \ T : g[id] = h[id]
      /\ \A id \in T : g[id] = k[id]
  OBVIOUS
<1>2. IsFiniteSet(S \ T) /\ IsFiniteSet(T)
  BY FS_Subset, FS_Difference
<1>3. Queued(f, S) = SumOver(g, S) /\ Queued(f, S \ T) = SumOver(h, S \ T) /\ Queued(f, T) = SumOver(k, T)
  BY <1>2, QueuedIs
<1> HIDE DEF g, h, k
<1>4. SumOver(g, S) = SumOver(g, S \ T) + SumOver(g, T)
  BY <1>1, SumDifference
<1>5. SumOver(g, S \ T) = SumOver(h, S \ T)
  BY <1>1, <1>2, SumSame
<1>6. SumOver(g, T) = SumOver(k, T)
  BY <1>1, <1>2, SumSame
<1> QED
  BY <1>3, <1>4, <1>5, <1>6

\* The total is what one session holds and what the others do.
LEMMA QueuedOne ==
  ASSUME NEW S, IsFiniteSet(S), NEW f, \A id \in S : f[id].bytes \in Nat, NEW x \in S
  PROVE  Queued(f, S) = f[x].bytes + Queued(f, S \ {x})
<1> DEFINE g == [id \in S |-> f[id].bytes]
           h == [id \in S \ {x} |-> f[id].bytes]
<1>1. /\ \A id \in S : g[id] \in Nat
      /\ \A id \in S \ {x} : g[id] = h[id]
      /\ g[x] = f[x].bytes
  OBVIOUS
<1>2. IsFiniteSet(S \ {x})
  BY FS_RemoveElement
<1>3. Queued(f, S) = SumOver(g, S) /\ Queued(f, S \ {x}) = SumOver(h, S \ {x})
  BY <1>2, QueuedIs
<1> HIDE DEF g, h
<1>4. SumOver(g, S) = g[x] + SumOver(g, S \ {x})
  BY <1>1, SumRemove
<1>5. SumOver(g, S \ {x}) = SumOver(h, S \ {x})
  BY <1>1, <1>2, SumSame
<1> QED
  BY <1>1, <1>3, <1>4, <1>5
-----------------------------------------------------------------------------
(* What a removal leaves.                                                  *)

\* Ids put in the order of insertion are those of the set, once each.
LEMMA InOrderFacts ==
  ASSUME TypeOK, NEW A
  PROVE  InOrder(A) \in Seq(Ids) /\ ToSet(InOrder(A)) = Live \cap A /\ Distinct(InOrder(A))
<1>1. order \in Seq(Ids) /\ ToSet(order) = Live /\ Distinct(order)
  BY LiveFinite DEF TypeOK
<1>2. InOrder(A) = Picked(order, A)
  BY DEF InOrder, Picked, FoldLeft, MapThenFoldSet
<1> QED
  BY <1>1, <1>2, PickedFacts DEF Distinct

\* cleanup removes the sessions that have expired, and no other.
LEMMA ExpiredFacts ==
  ASSUME TypeOK
  PROVE  /\ Expired \in Seq(Ids) /\ ToSet(Expired) = {id \in Live : IsExpired(session[id])}
  BY InOrderFacts DEF Expired

\* The sessions, their order and the counters after a removal agree.
LEMMA DropFacts ==
  ASSUME IInv, NEW ids \in Seq(Ids), ToSet(ids) \subseteq Live
  PROVE  LET live == Live \ ToSet(ids)  kept == Kept(ids) IN
         /\ DOMAIN kept = live /\ kept \in [live -> Session]
         /\ \A id \in live : kept[id] = session[id]
         /\ KeptOrder(ids) \in Seq(Ids) /\ ToSet(KeptOrder(ids)) = live /\ Distinct(KeptOrder(ids))
         /\ IsFiniteSet(live) /\ Cardinality(live) \in Nat /\ Cardinality(live) <= Cardinality(Live)
         /\ BytesAfter(ids) = Queued(kept, live) /\ BytesAfter(ids) \in Nat
         /\ BytesAfter(ids) <= signalBytes
         /\ HostsAfter(ids) \in [Principals -> Nat]
         /\ \A p \in Principals :
              /\ HostsAfter(ids)[p] = Cardinality({id \in live : kept[id].principal = p})
              /\ HostsAfter(ids)[p] <= hostCount[p]
<1> DEFINE live == Live \ ToSet(ids)
           kept == Kept(ids)
<1> USE DEF Live
<1>1. IsFiniteSet(Live) /\ IsFiniteSet(live) /\ Cardinality(live) \in Nat
      /\ Cardinality(live) <= Cardinality(Live) /\ Cardinality(Live) \in Nat
  <2>1. IsFiniteSet(Live)
    BY LiveFinite DEF IInv
  <2>2. live \in SUBSET Live
    OBVIOUS
  <2> HIDE DEF live
  <2> QED
    BY <2>1, <2>2, FS_Subset, FS_CardinalityType
<1>2. session \in [Live -> Session]
  BY DEF IInv, TypeOK
<1>3. DOMAIN kept = live /\ kept \in [live -> Session] /\ \A id \in live : kept[id] = session[id]
  BY <1>2 DEF Kept, Restrict
<1>4. KeptOrder(ids) \in Seq(Ids) /\ ToSet(KeptOrder(ids)) = live /\ Distinct(KeptOrder(ids))
  <2>1. Live \cap live = live
    OBVIOUS
  <2> QED
    BY <2>1, InOrderFacts DEF KeptOrder, IInv
<1>5. \A id \in Live : session[id].bytes \in Nat
  BY <1>2 DEF Session
<1>6. BytesAfter(ids) = Queued(kept, live) /\ BytesAfter(ids) \in Nat /\ BytesAfter(ids) <= signalBytes
  <2>1. Queued(session, Live) = Queued(session, live) + Queued(session, ToSet(ids))
    BY <1>1, <1>5, QueuedSplit
  <2>2. Queued(session, live) \in Nat
    BY <1>1, <1>5, QueuedNat
  <2>3. IsFiniteSet(ToSet(ids)) /\ \A id \in ToSet(ids) : session[id].bytes \in Nat
    BY <1>1, <1>5, FS_Subset
  <2>4. Queued(session, ToSet(ids)) \in Nat
    BY <2>3, QueuedNat
  <2>5. Queued(session, live) = Queued(kept, live)
    BY <1>1, <1>3, QueuedSame
  <2>6. signalBytes = Queued(session, Live)
    BY DEF IInv, Accounting
  <2> QED
    BY <2>1, <2>2, <2>4, <2>5, <2>6 DEF BytesAfter
<1>7. ASSUME NEW p \in Principals
      PROVE  /\ HostsAfter(ids)[p] = Cardinality({id \in live : kept[id].principal = p})
             /\ HostsAfter(ids)[p] \in Nat /\ HostsAfter(ids)[p] <= hostCount[p]
  <2> DEFINE L == {id \in Live : session[id].principal = p}
             R == {id \in ToSet(ids) : session[id].principal = p}
             K == {id \in live : kept[id].principal = p}
  <2>1. HostsAfter(ids)[p] = hostCount[p] - Cardinality(R)
    BY DEF HostsAfter, Quantify
  <2>2. hostCount[p] = Cardinality(L)
    BY DEF IInv, Accounting
  <2>3. L \in SUBSET Live /\ R \in SUBSET Live /\ K \in SUBSET Live /\ K = L \ R /\ L \cap R = R
    BY <1>3
  <2> HIDE DEF L, R, K
  <2>4. IsFiniteSet(L) /\ IsFiniteSet(R) /\ IsFiniteSet(K)
    BY <2>3, <1>1, FS_Subset
  <2>5. Cardinality(L) \in Nat /\ Cardinality(R) \in Nat /\ Cardinality(K) \in Nat
    BY <2>4, FS_CardinalityType
  <2>6. Cardinality(K) = Cardinality(L) - Cardinality(R)
    <3>1. Cardinality(L \ R) = Cardinality(L) - Cardinality(L \cap R)
      BY <2>4, FS_Difference
    <3> QED
      BY <2>3, <3>1, Zenon
  <2>7. HostsAfter(ids)[p] = Cardinality(K)
    BY <2>1, <2>2, <2>6
  <2>8. HostsAfter(ids)[p] \in Nat /\ HostsAfter(ids)[p] <= hostCount[p]
    BY <2>1, <2>2, <2>5, <2>7
  <2> QED
    BY <2>7, <2>8 DEF K
<1>8. HostsAfter(ids) \in [Principals -> Nat]
  BY <1>7 DEF HostsAfter
<1> QED
  BY <1>1, <1>3, <1>4, <1>6, <1>7, <1>8

Tombstones == Seq([id : Ids, until : Nat])
Removals == [Ids -> [at : Nat, since : 0 .. MaxTombstones]]

\* A removed id is found in its list, and buried that far from its end.
LEMMA GoneFacts ==
  ASSUME IInv, NEW ids \in Seq(Ids)
  PROVE  /\ GoneAfter(ids) \in Removals
         /\ \A id \in Ids :
              /\ id \in ToSet(ids) =>
                   \E k \in 1 .. Len(ids) :
                     /\ ids[k] = id
                     /\ GoneAfter(ids)[id] = [at |-> now, since |-> IF MaxTombstones <= Len(ids) - k
                                                                    THEN MaxTombstones ELSE Len(ids) - k]
              /\ id \notin ToSet(ids) =>
                   GoneAfter(ids)[id] = [at |-> gone[id].at,
                                         since |-> IF MaxTombstones <= gone[id].since + Len(ids)
                                                   THEN MaxTombstones ELSE gone[id].since + Len(ids)]
<1>0. now \in Nat /\ gone \in Removals /\ Len(ids) \in Nat /\ MaxTombstones \in Nat
  BY Constants DEF IInv, TypeOK, Removals
<1>1. ASSUME NEW id \in Ids, id \in ToSet(ids)
      PROVE  \E k \in 1 .. Len(ids) :
                     /\ ids[k] = id
                     /\ GoneAfter(ids)[id] = [at |-> now, since |-> IF MaxTombstones <= Len(ids) - k
                                                                    THEN MaxTombstones ELSE Len(ids) - k]
  <2> DEFINE I == {i \in 1 .. Len(ids) : ids[i] = id}
             k == Min(I)
  <2>1. I \in SUBSET Nat /\ I # {}
    BY <1>1 DEF ToSet
  <2>2. k \in I
    BY <2>1, MinIn
  <2>3. SelectInSeq(ids, LAMBDA x : x = id) = k
    BY <2>1 DEF SelectInSeq
  <2>4. GoneAfter(ids)[id] = [at |-> now, since |-> Min({MaxTombstones, Len(ids) - k})]
    BY <1>1, <2>1 DEF GoneAfter, SelectInSeq
  <2>5. k \in 1 .. Len(ids) /\ ids[k] = id
    BY <2>2
  <2> HIDE DEF k
  <2>6. Min({MaxTombstones, Len(ids) - k})
          = IF MaxTombstones <= Len(ids) - k THEN MaxTombstones ELSE Len(ids) - k
    BY <1>0, <2>5, MinOfTwo
  <2> QED
    BY <2>4, <2>5, <2>6
<1>2. ASSUME NEW id \in Ids, id \notin ToSet(ids)
      PROVE  GoneAfter(ids)[id] = [at |-> gone[id].at,
                                   since |-> IF MaxTombstones <= gone[id].since + Len(ids)
                                             THEN MaxTombstones ELSE gone[id].since + Len(ids)]
  <2>1. gone[id] \in [at : Nat, since : 0 .. MaxTombstones]
    BY <1>0 DEF Removals
  <2>2. GoneAfter(ids)[id] = [gone[id] EXCEPT !.since = Min({MaxTombstones, gone[id].since + Len(ids)})]
    BY <1>2 DEF GoneAfter
  <2>3. Min({MaxTombstones, gone[id].since + Len(ids)})
          = IF MaxTombstones <= gone[id].since + Len(ids) THEN MaxTombstones ELSE gone[id].since + Len(ids)
    BY <1>0, <2>1, MinOfTwo
  <2> QED
    BY <2>1, <2>2, <2>3
<1>3. ASSUME NEW id \in Ids PROVE GoneAfter(ids)[id] \in [at : Nat, since : 0 .. MaxTombstones]
  <2>1. CASE id \in ToSet(ids)
    <3>1. PICK k \in 1 .. Len(ids) :
                GoneAfter(ids)[id] = [at |-> now, since |-> IF MaxTombstones <= Len(ids) - k
                                                            THEN MaxTombstones ELSE Len(ids) - k]
      BY <2>1, <1>1
    <3>2. (IF MaxTombstones <= Len(ids) - k THEN MaxTombstones ELSE Len(ids) - k) \in 0 .. MaxTombstones
      BY <1>0
    <3> QED
      BY <3>1, <3>2, <1>0
  <2>2. CASE id \notin ToSet(ids)
    <3>1. gone[id].at \in Nat /\ gone[id].since \in 0 .. MaxTombstones
      BY <1>0 DEF Removals
    <3>2. (IF MaxTombstones <= gone[id].since + Len(ids) THEN MaxTombstones ELSE gone[id].since + Len(ids))
            \in 0 .. MaxTombstones
      BY <1>0, <3>1
    <3>3. GoneAfter(ids)[id] = [at |-> gone[id].at,
                                since |-> IF MaxTombstones <= gone[id].since + Len(ids)
                                          THEN MaxTombstones ELSE gone[id].since + Len(ids)]
      BY <2>2, <1>2
    <3> QED
      BY <3>1, <3>2, <3>3
  <2> QED
    BY <2>1, <2>2
<1>4. GoneAfter(ids) \in Removals
  <2>1. GoneAfter(ids) = [id \in Ids |-> GoneAfter(ids)[id]]
    BY DEF GoneAfter
  <2> QED
    BY <2>1, <1>3 DEF Removals
<1> QED
  BY <1>1, <1>2, <1>4

LastOnes(q, n) == SubSeq(q, Max({1, Len(q) - n + 1}), Len(q))

\* The last elements of a sequence keep their distance from its end.
LEMMA LastOf ==
  ASSUME NEW T, NEW q \in Seq(T), NEW n \in Nat \ {0}
  PROVE  /\ LastOnes(q, n) \in Seq(T)
         /\ \A d \in 0 .. n - 1 : d < Len(q) =>
              /\ Len(LastOnes(q, n)) - d \in DOMAIN LastOnes(q, n)
              /\ LastOnes(q, n)[Len(LastOnes(q, n)) - d] = q[Len(q) - d]
<1> DEFINE r == LastOnes(q, n)
<1>1. Len(q) \in Nat /\ DOMAIN q = 1 .. Len(q) /\ \A i \in 1 .. Len(q) : q[i] \in T
  OBVIOUS
<1>2. PICK first \in 1 .. Len(q) + 1 :
        /\ first = Max({1, Len(q) - n + 1})
        /\ first = 1 \/ first = Len(q) - n + 1
        /\ first <= Len(q) - n + 1 \/ first = 1
  <2>1. Len(q) - n + 1 \in Int /\ 1 \in Int
    BY <1>1
  <2>2. Max({1, Len(q) - n + 1}) = IF 1 <= Len(q) - n + 1 THEN Len(q) - n + 1 ELSE 1
    BY <2>1, MaxOfTwo
  <2> QED
    BY <1>1, <2>2
<1>3. \A i \in first .. Len(q) : q[i] \in T
  BY <1>1
<1>4. r = SubSeq(q, first, Len(q))
  BY <1>2 DEF LastOnes
<1> HIDE DEF r
<1>5. /\ r \in Seq(T) /\ Len(r) = Len(q) - first + 1
      /\ \A i \in 1 .. Len(q) - first + 1 : r[i] = q[first + i - 1]
  <2>1. /\ SubSeq(q, first, Len(q)) \in Seq(T)
        /\ Len(SubSeq(q, first, Len(q))) = IF first <= Len(q) THEN Len(q) - first + 1 ELSE 0
        /\ \A i \in 1 .. Len(q) - first + 1 : SubSeq(q, first, Len(q))[i] = q[first + i - 1]
    <3>1. first \in Int /\ Len(q) \in Int
      BY <1>1
    <3> QED
      BY <1>3, <3>1, SubSeqProperties
  <2>2. (IF first <= Len(q) THEN Len(q) - first + 1 ELSE 0) = Len(q) - first + 1
    BY <1>1
  <2> QED
    BY <1>4, <2>1, <2>2
<1>6. ASSUME NEW d \in 0 .. n - 1, d < Len(q)
      PROVE  Len(r) - d \in DOMAIN r /\ r[Len(r) - d] = q[Len(q) - d]
  <2>1. DOMAIN r = 1 .. Len(r)
    BY <1>5
  <2>2. Len(r) - d \in 1 .. Len(q) - first + 1
    BY <1>1, <1>2, <1>5, <1>6
  <2>3. r[Len(r) - d] = q[first + (Len(r) - d) - 1]
    BY <1>5, <2>2
  <2>4. first + (Len(r) - d) - 1 = Len(q) - d
    BY <1>1, <1>5
  <2> QED
    BY <1>5, <2>1, <2>2, <2>3, <2>4
<1> QED
  BY <1>5, <1>6 DEF r

\* Counted from the end, the list has the removed ids, then the tombstones it
\* had, as far as its bound reaches.
LEMMA BuriedFacts ==
  ASSUME IInv, NEW ids \in Seq(Ids)
  PROVE  /\ Buried(ids) \in Tombstones
         /\ \A d \in 0 .. MaxTombstones - 1 :
              /\ d < Len(ids) =>
                   /\ Len(Buried(ids)) - d \in DOMAIN Buried(ids)
                   /\ Buried(ids)[Len(Buried(ids)) - d]
                        = [id |-> ids[Len(ids) - d], until |-> now + TombstoneTtl]
              /\ d >= Len(ids) /\ Len(tombstones) - (d - Len(ids)) \in DOMAIN tombstones =>
                   /\ Len(Buried(ids)) - d \in DOMAIN Buried(ids)
                   /\ Buried(ids)[Len(Buried(ids)) - d] = tombstones[Len(tombstones) - (d - Len(ids))]
<1> DEFINE R == [id : Ids, until : Nat]
           new == [i \in 1 .. Len(ids) |-> [id |-> ids[i], until |-> now + TombstoneTtl]]
           all == tombstones \o new
<1>0. /\ now + TombstoneTtl \in Nat /\ MaxTombstones \in Nat \ {0}
      /\ tombstones \in Seq(R) /\ \A i \in 1 .. Len(ids) : ids[i] \in Ids
  BY Constants DEF IInv, TypeOK
<1>1. new \in Seq(R) /\ Len(new) = Len(ids)
  BY <1>0
<1>2. /\ all \in Seq(R) /\ Len(all) = Len(tombstones) + Len(ids)
      /\ \A i \in 1 .. Len(tombstones) + Len(ids) :
           all[i] = IF i <= Len(tombstones) THEN tombstones[i] ELSE new[i - Len(tombstones)]
  <2> HIDE DEF R, new
  <2>1. tombstones \in Seq(R) /\ new \in Seq(R) /\ Len(new) = Len(ids)
    BY <1>0, <1>1
  <2>2. /\ tombstones \o new \in Seq(R) /\ Len(tombstones \o new) = Len(tombstones) + Len(new)
        /\ \A i \in 1 .. Len(tombstones) + Len(new) : (tombstones \o new)[i] =
             IF i <= Len(tombstones) THEN tombstones[i] ELSE new[i - Len(tombstones)]
    BY ONLY <2>1, ConcatProperties, Zenon
  <2> QED
    BY <2>1, <2>2, Zenon
<1>3. Buried(ids) = LastOnes(all, MaxTombstones)
  BY DEF Buried, LastOnes
<1>4. /\ Buried(ids) \in Seq(R)
      /\ \A d \in 0 .. MaxTombstones - 1 : d < Len(all) =>
           /\ Len(Buried(ids)) - d \in DOMAIN Buried(ids)
           /\ Buried(ids)[Len(Buried(ids)) - d] = all[Len(all) - d]
  <2>1. all \in Seq(R) /\ MaxTombstones \in Nat \ {0}
    BY <1>0, <1>2
  <2> HIDE DEF all, R
  <2> QED
    BY <2>1, <1>3, LastOf
<1>5. /\ Len(tombstones) \in Nat /\ DOMAIN tombstones = 1 .. Len(tombstones)
      /\ Len(ids) \in Nat
  BY <1>0
<1>6. ASSUME NEW d \in 0 .. MaxTombstones - 1, d < Len(ids)
      PROVE  /\ Len(Buried(ids)) - d \in DOMAIN Buried(ids)
             /\ Buried(ids)[Len(Buried(ids)) - d]
                  = [id |-> ids[Len(ids) - d], until |-> now + TombstoneTtl]
  <2>1. Len(ids) - d \in 1 .. Len(ids)
    BY <1>5, <1>6
  <2>2. new[Len(ids) - d] = [id |-> ids[Len(ids) - d], until |-> now + TombstoneTtl]
    BY <2>1
  <2> HIDE DEF all, new
  <2>3. d < Len(all)
    BY <1>2, <1>5, <1>6
  <2>4. /\ Len(all) - d \in 1 .. Len(tombstones) + Len(ids)
        /\ ~(Len(all) - d <= Len(tombstones)) /\ (Len(all) - d) - Len(tombstones) = Len(ids) - d
    BY <1>2, <1>5, <1>6
  <2>5. all[Len(all) - d] = new[Len(ids) - d]
    BY <1>2, <2>4
  <2> QED
    BY <1>4, <2>2, <2>3, <2>5
<1>7. ASSUME NEW d \in 0 .. MaxTombstones - 1, d >= Len(ids),
             Len(tombstones) - (d - Len(ids)) \in DOMAIN tombstones
      PROVE  /\ Len(Buried(ids)) - d \in DOMAIN Buried(ids)
             /\ Buried(ids)[Len(Buried(ids)) - d] = tombstones[Len(tombstones) - (d - Len(ids))]
  <2> HIDE DEF all, new
  <2>1. d < Len(all)
    BY <1>2, <1>5, <1>7
  <2>2. /\ Len(all) - d \in 1 .. Len(tombstones) + Len(ids)
        /\ Len(all) - d <= Len(tombstones) /\ Len(all) - d = Len(tombstones) - (d - Len(ids))
    BY <1>2, <1>5, <1>7
  <2>3. all[Len(all) - d] = tombstones[Len(tombstones) - (d - Len(ids))]
    BY <1>2, <2>2
  <2> QED
    BY <1>4, <2>1, <2>3
<1> QED
  BY <1>4, <1>6, <1>7 DEF Tombstones

\* A removal buries what it removes, and still remembers what it does not push out.
LEMMA DropRemembers ==
  ASSUME IInv, ~closed, NEW ids \in Seq(Ids)
  PROVE  RememberedIn(Live \ ToSet(ids), Buried(ids), GoneAfter(ids))
<1> SUFFICES ASSUME NEW id \in Ids \ (Live \ ToSet(ids)),
                    ~(now >= GoneAfter(ids)[id].at + TombstoneTtl),
                    ~(GoneAfter(ids)[id].since >= MaxTombstones)
             PROVE  LET i == Len(Buried(ids)) - GoneAfter(ids)[id].since IN
                    /\ i \in DOMAIN Buried(ids)
                    /\ Buried(ids)[i] = [id |-> id, until |-> GoneAfter(ids)[id].at + TombstoneTtl]
  BY DEF RememberedIn
<1>0. /\ MaxTombstones \in Nat \ {0} /\ Len(ids) \in Nat /\ Len(tombstones) \in Nat
      /\ DOMAIN tombstones = 1 .. Len(tombstones) /\ gone[id].since \in 0 .. MaxTombstones
  BY Constants DEF IInv, TypeOK
<1>1. CASE id \in ToSet(ids)
  <2>1. PICK k \in 1 .. Len(ids) :
          /\ ids[k] = id
          /\ GoneAfter(ids)[id] = [at |-> now, since |-> IF MaxTombstones <= Len(ids) - k
                                                         THEN MaxTombstones ELSE Len(ids) - k]
    BY <1>1, GoneFacts
  <2>2. GoneAfter(ids)[id].since = Len(ids) - k /\ GoneAfter(ids)[id].at = now
    BY <2>1, <1>0
  <2>3. Len(ids) - k \in 0 .. MaxTombstones - 1 /\ Len(ids) - k < Len(ids)
        /\ Len(ids) - (Len(ids) - k) = k
    BY <2>2, <1>0
  <2> QED
    BY <2>1, <2>2, <2>3, BuriedFacts
<1>2. CASE id \notin ToSet(ids)
  <2> DEFINE d == gone[id].since + Len(ids)
  <2>1. GoneAfter(ids)[id] = [at |-> gone[id].at,
                              since |-> IF MaxTombstones <= d THEN MaxTombstones ELSE d]
    BY <1>2, GoneFacts
  <2>2. GoneAfter(ids)[id].since = d /\ GoneAfter(ids)[id].at = gone[id].at
    BY <2>1, <1>0
  <2>3. d \in 0 .. MaxTombstones - 1 /\ d >= Len(ids) /\ d - Len(ids) = gone[id].since
        /\ ~(gone[id].since >= MaxTombstones)
    BY <2>2, <1>0
  <2>4. LET i == Len(tombstones) - gone[id].since IN
        /\ i \in DOMAIN tombstones
        /\ tombstones[i] = [id |-> id, until |-> gone[id].at + TombstoneTtl]
    <3>1. id \in Ids \ Live
      BY <1>2
    <3> QED
      BY <3>1, <2>2, <2>3 DEF IInv, Remembered, RememberedIn
  <2>5. Len(tombstones) - (d - Len(ids)) = Len(tombstones) - gone[id].since
    BY <2>3
  <2> HIDE DEF d
  <2> QED
    BY <2>2, <2>3, <2>4, <2>5, BuriedFacts
<1> QED
  BY <1>1, <1>2

\* Purging tombstones that have expired forgets none that has not.
LEMMA PurgeRemembers ==
  ASSUME now \in Nat, NEW tombs \in Tombstones, NEW live, NEW removed,
         removed \in Removals, RememberedIn(live, tombs, removed)
  PROVE  /\ Purged(tombs) \in Tombstones
         /\ RememberedIn(live, Purged(tombs), removed)
<1> DEFINE R == [id : Ids, until : Nat]
           kept == {i \in DOMAIN tombs : tombs[i].until > now}
<1>0. /\ tombs \in Seq(R) /\ DOMAIN tombs = 1 .. Len(tombs) /\ Len(tombs) \in Nat
      /\ TombstoneTtl \in Nat /\ MaxTombstones \in Nat /\ kept \in SUBSET Nat
      /\ \A i \in 1 .. Len(tombs) : tombs[i] \in R
  <2>1. tombs \in Seq(R)
    BY DEF Tombstones
  <2>2. DOMAIN tombs = 1 .. Len(tombs) /\ Len(tombs) \in Nat /\ \A i \in 1 .. Len(tombs) : tombs[i] \in R
    <3> HIDE DEF R
    <3> QED
      BY <2>1
  <2> QED
    BY <2>1, <2>2, Constants
<1>1. ASSUME NEW id \in Ids \ live,
             ~(now >= removed[id].at + TombstoneTtl), ~(removed[id].since >= MaxTombstones)
      PROVE  LET i == Len(tombs) - removed[id].since IN
             /\ i \in kept
             /\ tombs[i] = [id |-> id, until |-> removed[id].at + TombstoneTtl]
  <2>1. LET i == Len(tombs) - removed[id].since IN
        /\ i \in DOMAIN tombs
        /\ tombs[i] = [id |-> id, until |-> removed[id].at + TombstoneTtl]
    BY <1>1 DEF RememberedIn
  <2>2. removed[id].at \in Nat
    BY DEF Removals
  <2>3. removed[id].at + TombstoneTtl > now
    BY <1>0, <1>1, <2>2
  <2> QED
    BY <2>1, <2>3
<1>2. CASE kept = {}
  <2>1. Purged(tombs) = <<>>
    BY <1>2 DEF Purged
  <2>2. RememberedIn(live, <<>>, removed)
    BY <1>1, <1>2 DEF RememberedIn
  <2> QED
    BY <2>1, <2>2 DEF Tombstones
<1>3. CASE kept # {}
  <2> DEFINE m == Min(kept)
  <2>1. m \in kept /\ \A i \in kept : m <= i
    BY <1>0, <1>3, MinIn
  <2>2. Purged(tombs) = SubSeq(tombs, m, Len(tombs))
    BY <1>3 DEF Purged
  <2>3. m \in 1 .. Len(tombs)
    BY <2>1, <1>0
  <2> HIDE DEF m
  <2>4. \A i \in m .. Len(tombs) : tombs[i] \in R
    <3> HIDE DEF R
    <3> QED
      BY <1>0, <2>3
  <2>5. /\ Purged(tombs) \in Seq(R) /\ Len(Purged(tombs)) = Len(tombs) - m + 1
        /\ \A i \in 1 .. Len(tombs) - m + 1 : Purged(tombs)[i] = tombs[m + i - 1]
    <3> HIDE DEF R
    <3> QED
      BY <1>0, <2>2, <2>3, <2>4, SubSeqProperties
  <2>6. ASSUME NEW id \in Ids \ live,
               ~(now >= removed[id].at + TombstoneTtl), ~(removed[id].since >= MaxTombstones)
        PROVE  LET i == Len(Purged(tombs)) - removed[id].since IN
               /\ i \in DOMAIN Purged(tombs)
               /\ Purged(tombs)[i] = [id |-> id, until |-> removed[id].at + TombstoneTtl]
    <3>0. Len(Purged(tombs)) = Len(tombs) - m + 1 /\ Len(tombs) \in Nat /\ m \in 1 .. Len(tombs)
      BY <1>0, <2>3, <2>5
    <3>1. removed[id].since \in Nat
      BY DEF Removals
    <3>2. LET i == Len(tombs) - removed[id].since IN
          /\ i \in kept /\ m <= i
          /\ tombs[i] = [id |-> id, until |-> removed[id].at + TombstoneTtl]
      BY <1>1, <2>1, <2>6
    <3>3. DOMAIN Purged(tombs) = 1 .. Len(Purged(tombs))
      BY <2>5
    <3>4. Len(Purged(tombs)) - removed[id].since \in 1 .. Len(tombs) - m + 1
      <4>1. m <= Len(tombs) - removed[id].since
        BY <3>2
      <4> QED
        BY <3>0, <3>1, <4>1
    <3>5. m + (Len(Purged(tombs)) - removed[id].since) - 1 = Len(tombs) - removed[id].since
      BY <3>0, <3>1
    <3>6. Purged(tombs)[Len(Purged(tombs)) - removed[id].since] = tombs[Len(tombs) - removed[id].since]
      BY <2>5, <3>4, <3>5
    <3> QED
      BY <2>5, <3>2, <3>3, <3>4, <3>6
  <2> QED
    BY <2>5, <2>6 DEF RememberedIn, Tombstones
<1> QED
  BY <1>2, <1>3
-----------------------------------------------------------------------------
(* The inductive invariant.                                                *)

\* The registry starts empty, with nothing to remember.
LEMMA InitIInv == Init => IInv
<1> SUFFICES ASSUME Init PROVE IInv
  OBVIOUS
<1>1. Live = {} /\ ToSet(order) = {} /\ order \in Seq(Ids) /\ Len(order) = 0
  BY DEF Init, Live, ToSet
<1>2. IsFiniteSet({}) /\ Cardinality({}) = 0
  BY FS_EmptySet
<1>3. TypeOK
  <2>1. session \in [Live -> Session]
    BY <1>1 DEF Init
  <2>2. tombstones \in Seq([id : Ids, until : Nat]) /\ hostCount \in [Principals -> Nat]
        /\ gone \in [Ids -> [at : Nat, since : 0 .. MaxTombstones]]
    BY Constants DEF Init
  <2>3. now \in 0 .. MaxTime /\ closed \in BOOLEAN /\ signalBytes \in Nat
    <3>1. now = 0 /\ signalBytes = 0 /\ MaxTime \in Nat
      BY Constants DEF Init
    <3>2. closed \in BOOLEAN
      BY DEF Init
    <3> QED
      BY <3>1, <3>2
  <2>4. Live \subseteq Ids /\ order \in Seq(Ids) /\ ToSet(order) = Live /\ Len(order) = Cardinality(Live)
    BY <1>1, <1>2, Zenon
  <2> QED
    BY <2>1, <2>2, <2>3, <2>4 DEF TypeOK
<1>4. Accounting
  <2>1. Queued(session, Live) = 0
    BY <1>1, QueuedEmpty
  <2>2. \A p \in Principals : {id \in Live : session[id].principal = p} = {}
    BY <1>1
  <2> QED
    BY <1>1, <1>2, <2>1, <2>2, Constants DEF Accounting, Init
<1>5. Remembered
  BY Constants DEF Remembered, RememberedIn, Init
<1> QED
  BY <1>1, <1>3, <1>4, <1>5 DEF IInv, OneDoor, Aged

\* What NoEarlyReuse and UsedInTime say of one step.
Unforgotten ==
  \A id \in DOMAIN session' :
    id \notin Live \/ session'[id].created # session[id].created =>
      now >= gone'[id].at + TombstoneTtl \/ gone'[id].since >= MaxTombstones

Timely ==
  \A id \in Live \cap DOMAIN session' :
    LET s == session[id]  t == session'[id] IN
    s # t /\ t.created = s.created /\ t.host = s.host =>
      /\ now < Deadline(s) /\ now - s.last < Idle
      /\ t.expires = s.expires /\ t.active = s.active
      /\ s.guest # None => t.guest = s.guest
      /\ \A r \in Roles : s.endpoint[r] \in {None, t.endpoint[r]}

Sound == IInv' /\ Unforgotten /\ Timely

\* A step that takes sessions out, buries them and changes no other is sound.
LEMMA DropStep ==
  ASSUME IInv, NEW ids \in Seq(Ids), ToSet(ids) \subseteq Live, Drop(ids), now' = now,
         closed' \in BOOLEAN, tombstones' \in Tombstones,
         closed' \/ RememberedIn(Live \ ToSet(ids), tombstones', GoneAfter(ids))
  PROVE  Sound
<1> DEFINE live == Live \ ToSet(ids)
<1>1. /\ session' = Kept(ids) /\ order' = KeptOrder(ids) /\ signalBytes' = BytesAfter(ids)
      /\ hostCount' = HostsAfter(ids) /\ gone' = GoneAfter(ids)
  BY DEF Drop
<1>2. /\ Live' = live /\ session' \in [live -> Session]
      /\ \A id \in live : session'[id] = session[id]
      /\ order' \in Seq(Ids) /\ ToSet(order') = live /\ Distinct(order')
      /\ IsFiniteSet(live) /\ Cardinality(live) \in Nat /\ Cardinality(live) <= Cardinality(Live)
      /\ signalBytes' = Queued(session', live) /\ signalBytes' \in Nat /\ signalBytes' <= signalBytes
      /\ hostCount' \in [Principals -> Nat]
      /\ \A p \in Principals :
           /\ hostCount'[p] = Cardinality({id \in live : session'[id].principal = p})
           /\ hostCount'[p] <= hostCount[p]
  <2>1. /\ DOMAIN session' = live /\ session' \in [live -> Session]
        /\ \A id \in live : session'[id] = session[id]
    BY <1>1, DropFacts, Zenon
  <2>2. order' \in Seq(Ids) /\ ToSet(order') = live /\ Distinct(order')
    BY <1>1, DropFacts, Zenon
  <2>3. /\ IsFiniteSet(live) /\ Cardinality(live) \in Nat /\ Cardinality(live) <= Cardinality(Live)
        /\ signalBytes' = Queued(session', live) /\ signalBytes' \in Nat /\ signalBytes' <= signalBytes
    BY <1>1, DropFacts, Zenon
  <2>4. /\ hostCount' \in [Principals -> Nat]
        /\ \A p \in Principals :
             /\ hostCount'[p] = Cardinality({id \in live : session'[id].principal = p})
             /\ hostCount'[p] <= hostCount[p]
    <3>1. /\ HostsAfter(ids) \in [Principals -> Nat]
          /\ \A p \in Principals :
               /\ HostsAfter(ids)[p] = Cardinality({id \in live : Kept(ids)[id].principal = p})
               /\ HostsAfter(ids)[p] <= hostCount[p]
      BY DropFacts, Zenon
    <3>2. hostCount' = HostsAfter(ids) /\ session' = Kept(ids)
      BY <1>1
    <3> QED
      BY ONLY <3>1, <3>2, Zenon
  <2>5. Live' = live
    BY <2>1 DEF Live
  <2> HIDE DEF live
  <2> QED
    BY <2>1, <2>2, <2>3, <2>4, <2>5, Zenon
<1>3. live \subseteq Live /\ Live \subseteq Ids /\ Cardinality(Live) \in Nat /\ signalBytes \in Nat
      /\ hostCount \in [Principals -> Nat] /\ now \in 0 .. MaxTime
  BY LiveFinite DEF IInv, TypeOK
<1> HIDE DEF live
<1>4. TypeOK'
  <2>1. gone' \in Removals
    BY <1>1, GoneFacts
  <2>2. Len(order') = Cardinality(live)
    BY <1>2, SeqCount
  <2> QED
    BY <1>2, <1>3, <2>1, <2>2 DEF TypeOK, Removals, Tombstones
<1>5. OneDoor'
  BY <1>2, <1>3 DEF IInv, OneDoor
<1>6. Accounting'
  <2>1. \A id \in live : session'[id].bytes = Size(session'[id])
    BY <1>2, <1>3 DEF IInv, Accounting
  <2>2. signalBytes' <= MaxGlobalBytes
    BY <1>2, <1>3, Constants DEF IInv, Accounting
  <2>3. Cardinality(live) <= MaxSessions
    BY <1>2, <1>3, Constants DEF IInv, Accounting
  <2>4. ASSUME NEW p \in Principals PROVE hostCount'[p] <= MaxPerHost
    <3>1. hostCount[p] <= MaxPerHost
      BY DEF IInv, Accounting
    <3>2. hostCount'[p] <= hostCount[p] /\ hostCount'[p] \in Nat /\ hostCount[p] \in Nat
      BY <1>2, <1>3
    <3> QED
      BY <3>1, <3>2, Constants
  <2> QED
    BY <1>2, <2>1, <2>2, <2>3, <2>4 DEF Accounting
<1>7. Remembered'
  BY <1>1, <1>2 DEF Remembered, RememberedIn, live
<1>8. Aged'
  BY <1>2, <1>3 DEF IInv, Aged
<1>9. Unforgotten /\ Timely
  BY <1>2, <1>3 DEF Unforgotten, Timely, Live
<1> QED
  BY <1>4, <1>5, <1>6, <1>7, <1>8, <1>9 DEF IInv, Sound

\* A registration enters one session whose credentials nobody holds, whose id
\* is not buried, and which the counters then count.
LEMMA RegisterStep ==
  ASSUME IInv, NEW id \in Ids, NEW h \in Tokens, NEW e \in Tokens, NEW p \in Principals, NEW ttl \in Ttls,
         Register(id, h, e, p, ttl)
  PROVE  Sound
<1> DEFINE dead == Expired
           kept == Kept(dead)
           live == Live \ ToSet(dead)
           s == NewSession(h, e, p, ttl)
           tombs == Purged(Buried(dead))
<1>1. dead \in Seq(Ids) /\ ToSet(dead) \subseteq Live
  BY ExpiredFacts DEF IInv
<1>2. /\ DOMAIN kept = live /\ kept \in [live -> Session]
      /\ \A i \in live : kept[i] = session[i]
      /\ KeptOrder(dead) \in Seq(Ids) /\ ToSet(KeptOrder(dead)) = live /\ Distinct(KeptOrder(dead))
      /\ IsFiniteSet(live) /\ Cardinality(live) \in Nat
      /\ BytesAfter(dead) = Queued(kept, live) /\ BytesAfter(dead) \in Nat /\ BytesAfter(dead) <= signalBytes
      /\ HostsAfter(dead) \in [Principals -> Nat]
      /\ \A q \in Principals :
           /\ HostsAfter(dead)[q] = Cardinality({i \in live : kept[i].principal = q})
           /\ HostsAfter(dead)[q] <= hostCount[q]
  <2> HIDE DEF dead
  <2> QED
    BY <1>1, DropFacts
<1>3. /\ live \subseteq Live /\ Live \subseteq Ids /\ now \in 0 .. MaxTime /\ signalBytes \in Nat
      /\ hostCount \in [Principals -> Nat] /\ now \in Nat
  BY Constants DEF IInv, TypeOK
<1>4. /\ ~closed /\ id \notin live /\ Cardinality(live) < MaxSessions
      /\ HostsAfter(dead)[p] < Min({MaxSessions, MaxPerHost})
      /\ h # e /\ ~InUse(h, kept) /\ ~InUse(e, kept)
      /\ session' = [i \in live \cup {id} |-> IF i = id THEN s ELSE kept[i]]
      /\ order' = Append(KeptOrder(dead), id)
      /\ tombstones' = tombs /\ signalBytes' = BytesAfter(dead)
      /\ hostCount' = [HostsAfter(dead) EXCEPT ![p] = @ + 1]
      /\ gone' = GoneAfter(dead) /\ now' = now /\ closed' = closed
      /\ \A i \in DOMAIN tombs : tombs[i].id # id
  BY <1>2, Zenon DEF Register
<1>5. /\ s \in Session /\ s.bytes = 0 /\ s.principal = p /\ s.host = h /\ s.enrollment = e
      /\ s.guest = None /\ s.created = now /\ s.last = now /\ s.created < s.expires /\ s.created < s.active
      /\ s.queue["host"] = <<>> /\ s.queue["guest"] = <<>>
  <2>1. [r \in Roles |-> [plane \in Planes |-> NewWindow]] \in [Roles -> [Planes -> Window]]
    BY DEF NewWindow, Window
  <2>2. [r \in Roles |-> <<>>] \in [Roles -> Seq(Sizes)]
    OBVIOUS
  <2>3. now + ttl \in Nat /\ now + MaxActive \in Nat /\ now < now + ttl /\ now < now + MaxActive
    BY <1>3, Constants
  <2> QED
    BY <1>3, <2>1, <2>2, <2>3 DEF NewSession, Session, Roles
<1>6. TypeOK' /\ RememberedIn(live, tombs, GoneAfter(dead))
  <2> HIDE DEF s, dead
  <2>1. Live' = live \cup {id} /\ session' \in [live \cup {id} -> Session]
    BY <1>2, <1>4, <1>5 DEF Live
  <2>2. order' \in Seq(Ids) /\ Distinct(order') /\ ToSet(order') = live \cup {id}
    BY <1>2, <1>4, AppendDistinct
  <2>3. Len(order') = Cardinality(live \cup {id})
    BY <2>2, SeqCount
  <2>4. GoneAfter(dead) \in Removals
    BY <1>1, GoneFacts
  <2>5. Buried(dead) \in Tombstones /\ RememberedIn(live, Buried(dead), GoneAfter(dead))
    BY <1>1, <1>4, BuriedFacts, DropRemembers
  <2>6. tombs \in Tombstones /\ RememberedIn(live, tombs, GoneAfter(dead))
    BY <1>3, <2>4, <2>5, PurgeRemembers
  <2>7. hostCount' \in [Principals -> Nat]
    BY <1>2, <1>4
  <2>8. signalBytes' \in Nat /\ now' \in 0 .. MaxTime /\ closed' \in BOOLEAN
    <3>1. signalBytes' \in Nat /\ now' \in 0 .. MaxTime
      BY <1>2, <1>3, <1>4
    <3>2. closed' \in BOOLEAN
      BY <1>4, Zenon DEF IInv, TypeOK
    <3> QED
      BY <3>1, <3>2
  <2>9. gone' \in Removals /\ tombstones' \in Tombstones /\ Live' \subseteq Ids
    BY <1>3, <1>4, <2>1, <2>4, <2>6
  <2> HIDE DEF live, tombs
  <2>10. TypeOK'
    BY <2>1, <2>2, <2>3, <2>7, <2>8, <2>9 DEF TypeOK, Removals, Tombstones
  <2> QED
    BY <2>6, <2>10
<1>7. /\ Live' = live \cup {id} /\ session'[id] = s
      /\ \A i \in live : session'[i] = kept[i] /\ session'[i] = session[i] /\ i # id
  BY <1>2, <1>4 DEF Live
<1> HIDE DEF dead, kept, live, s, tombs
<1>8. OneDoor'
  <2>1. \A i \in live : h \notin Credentials(kept[i]) /\ e \notin Credentials(kept[i])
    BY <1>2, <1>4 DEF InUse
  <2>2. Credentials(s) = {h, e}
    BY <1>5, Constants DEF Credentials
  <2>3. \A i, j \in live : i # j => Credentials(session[i]) \cap Credentials(session[j]) = {}
    BY <1>3 DEF IInv, OneDoor
  <2>4. \A i \in live : session[i].host \notin {session[i].guest, session[i].enrollment}
                       /\ (session[i].guest # None => session[i].enrollment = None)
    BY <1>3 DEF IInv, OneDoor
  <2>5. s.host \notin {s.guest, s.enrollment} /\ (s.guest # None => s.enrollment = None)
    BY <1>4, <1>5, Constants
  <2>6. ASSUME NEW i \in live \cup {id}, NEW j \in live \cup {id}, i # j
        PROVE  Credentials(session'[i]) \cap Credentials(session'[j]) = {}
    <3>1. CASE i = id
      BY <3>1, <2>6, <1>7, <2>1, <2>2
    <3>2. CASE j = id
      BY <3>2, <2>6, <1>7, <2>1, <2>2
    <3>3. CASE i # id /\ j # id
      BY <3>3, <2>6, <1>7, <2>3
    <3> QED
      BY <3>1, <3>2, <3>3
  <2>7. ASSUME NEW i \in live \cup {id}
        PROVE  session'[i].host \notin {session'[i].guest, session'[i].enrollment}
               /\ (session'[i].guest # None => session'[i].enrollment = None)
    BY <1>7, <2>4, <2>5
  <2> QED
    BY <1>7, <2>6, <2>7 DEF OneDoor
<1>9. Accounting'
  <2> DEFINE new == live \cup {id}
  <2>1. IsFiniteSet(new) /\ Cardinality(new) = Cardinality(live) + 1 /\ new \ {id} = live /\ id \in new
    BY <1>2, <1>4, FS_AddElement
  <2>2. \A i \in new : session'[i].bytes \in Nat
    BY <1>2, <1>5, <1>7 DEF Session
  <2>3. Queued(session', new) = session'[id].bytes + Queued(session', live)
    BY <2>1, <2>2, QueuedOne
  <2>4. Queued(session', live) = Queued(kept, live)
    BY <1>2, <1>7, QueuedSame
  <2>5. signalBytes' = Queued(session', new) /\ signalBytes' <= MaxGlobalBytes
    <3>1. signalBytes <= MaxGlobalBytes
      BY DEF IInv, Accounting
    <3> QED
      BY <1>2, <1>3, <1>4, <1>5, <1>7, <2>3, <2>4, <3>1, Constants
  <2>6. \A i \in new : session'[i].bytes = Size(session'[i])
    <3>1. \A i \in live : session[i].bytes = Size(session[i])
      BY <1>3 DEF IInv, Accounting
    <3>2. Size(s) = 0
      <4>1. <<>> \o <<>> = <<>>
        OBVIOUS
      <4> QED
        BY <1>5, <4>1, SizeIs, SeqSumEmpty
    <3> QED
      BY <1>5, <1>7, <3>1, <3>2
  <2>7. ASSUME NEW q \in Principals
        PROVE  hostCount'[q] = Cardinality({i \in new : session'[i].principal = q})
               /\ hostCount'[q] <= MaxPerHost
    <3> DEFINE K == {i \in live : kept[i].principal = q}
               N == {i \in new : session'[i].principal = q}
    <3>1. HostsAfter(dead)[q] = Cardinality(K) /\ HostsAfter(dead)[q] <= hostCount[q] /\ hostCount[q] <= MaxPerHost
      BY <1>2 DEF IInv, Accounting
    <3>2. IsFiniteSet(K) /\ Cardinality(K) \in Nat
      BY <1>2, FS_Subset, FS_CardinalityType
    <3>3. CASE q = p
      <4>1. N = K \cup {id} /\ id \notin K
        BY <1>4, <1>5, <1>7, <3>3
      <4>2. Cardinality(N) = Cardinality(K) + 1
        BY <3>2, <4>1, FS_AddElement
      <4>3. hostCount'[q] = HostsAfter(dead)[q] + 1
        BY <1>2, <1>4, <3>3
      <4>4. Min({MaxSessions, MaxPerHost}) <= MaxPerHost /\ Min({MaxSessions, MaxPerHost}) \in Int
        BY Constants, MinOfTwo
      <4>5. HostsAfter(dead)[q] < Min({MaxSessions, MaxPerHost})
        BY <1>4, <3>3
      <4> HIDE DEF K, N
      <4>6. hostCount'[q] <= MaxPerHost
        BY <3>1, <3>2, <4>3, <4>4, <4>5, Constants
      <4> QED
        BY <3>1, <4>2, <4>3, <4>6 DEF N
    <3>4. CASE q # p
      <4>1. N = K
        BY <1>5, <1>7, <3>4
      <4>2. hostCount'[q] = HostsAfter(dead)[q]
        BY <1>2, <1>4, <3>4
      <4>3. hostCount[q] \in Nat
        BY <1>3
      <4> HIDE DEF K
      <4>4. hostCount'[q] <= MaxPerHost
        BY <3>1, <3>2, <4>2, <4>3, Constants
      <4> QED
        BY <3>1, <4>1, <4>2, <4>4
    <3> QED
      BY <3>3, <3>4
  <2>8. Cardinality(new) <= MaxSessions
    BY <1>2, <1>4, <2>1, Constants
  <2> HIDE DEF new
  <2>9. Live' = new
    BY <1>7 DEF new
  <2> QED
    BY <2>5, <2>6, <2>7, <2>8, <2>9 DEF Accounting
<1>10. Remembered'
  BY <1>4, <1>6, <1>7 DEF Remembered, RememberedIn
<1>11. Aged'
  <2>1. now' \in Nat /\ now' = now
    BY <1>3, <1>4
  <2>2. \A i \in live : LET t == session[i] IN
          /\ t.created <= t.last /\ t.last <= now
          /\ t.created < t.expires /\ t.created < t.active
    BY <1>3 DEF IInv, Aged
  <2> QED
    BY <1>5, <1>7, <2>1, <2>2 DEF Aged
<1>12. Unforgotten
  <2>1. now >= gone'[id].at + TombstoneTtl \/ gone'[id].since >= MaxTombstones
    <3> DEFINE k == Len(tombs) - GoneAfter(dead)[id].since
    <3>1. ~(k \in DOMAIN tombs /\ tombs[k] = [id |-> id, until |-> GoneAfter(dead)[id].at + TombstoneTtl])
      BY <1>4
    <3>2. id \in Ids \ live
      BY <1>4
    <3>3. now >= GoneAfter(dead)[id].at + TombstoneTtl \/ GoneAfter(dead)[id].since >= MaxTombstones
      BY <1>6, <3>1, <3>2, Zenon DEF RememberedIn
    <3> QED
      BY <1>4, <3>3
  <2> QED
    BY <1>3, <1>7, <2>1 DEF Unforgotten, Live
<1>13. Timely
  <2>1. ASSUME id \in Live, s.created = session[id].created PROVE FALSE
    <3> DEFINE o == session[id]
    <3>1. IsExpired(o)
      BY <1>4, <2>1, ExpiredFacts DEF IInv, live, dead
    <3>2. o \in Session /\ o.created <= o.last /\ o.last <= now /\ o.created < o.expires /\ o.created < o.active
      BY <2>1 DEF IInv, TypeOK, Aged
    <3>3. o.last \in Nat /\ o.expires \in Nat /\ o.active \in Nat /\ o.created = now
      BY <1>5, <2>1, <3>2 DEF Session
    <3> HIDE DEF o
    <3> QED
      BY <1>3, <3>1, <3>2, <3>3, Constants DEF IsExpired, Deadline
  <2>2. \A i \in Live \cap Live' : i # id => session'[i] = session[i]
    BY <1>7
  <2> QED
    BY <1>7, <2>1, <2>2 DEF Timely, Live
<1> QED
  BY <1>6, <1>8, <1>9, <1>10, <1>11, <1>12, <1>13 DEF IInv, Sound

\* A step that changes one session, and the total by as much, is sound.
LEMMA UpdateStep ==
  ASSUME IInv, NEW id \in Live, NEW s \in Session, Update(id, s), OneDoor',
         signalBytes' = signalBytes - session[id].bytes + s.bytes, signalBytes' <= MaxGlobalBytes,
         s.bytes = Size(s), s.principal = session[id].principal,
         s.created = session[id].created, s.expires = session[id].expires,
         s.active = session[id].active, s.last \in {session[id].last, now},
         Found(id), session[id].guest # None => s.guest = session[id].guest,
         \A r \in Roles : session[id].endpoint[r] \in {None, s.endpoint[r]}
  PROVE  Sound
<1>1. /\ session' = [session EXCEPT ![id] = s] /\ now' = now /\ order' = order
      /\ tombstones' = tombstones /\ hostCount' = hostCount /\ closed' = closed /\ gone' = gone
  BY DEF Update
<1>2. /\ session \in [Live -> Session] /\ IsFiniteSet(Live) /\ signalBytes \in Nat /\ now \in Nat
  BY LiveFinite, Constants DEF IInv, TypeOK
<1>3. /\ Live' = Live /\ session' \in [Live -> Session] /\ session'[id] = s
      /\ \A i \in Live : i # id => session'[i] = session[i]
  BY <1>1, <1>2 DEF Live
<1>4. Queued(session', Live) = signalBytes'
  <2>1. /\ \A i \in Live : session[i].bytes \in Nat /\ session'[i].bytes \in Nat
        /\ \A i \in Live \ {id} : session'[i].bytes = session[i].bytes
    BY <1>2, <1>3 DEF Session
  <2>2. Queued(session, Live) = session[id].bytes + Queued(session, Live \ {id})
    BY <1>2, <2>1, QueuedOne
  <2>3. Queued(session', Live) = s.bytes + Queued(session', Live \ {id})
    BY <1>2, <1>3, <2>1, QueuedOne
  <2>4. IsFiniteSet(Live \ {id})
    BY <1>2, FS_RemoveElement
  <2>5. Queued(session', Live \ {id}) = Queued(session, Live \ {id})
    BY <2>1, <2>4, QueuedSame
  <2>6. Queued(session, Live \ {id}) \in Nat
    BY <2>1, <2>4, QueuedNat
  <2>7. signalBytes = Queued(session, Live)
    BY DEF IInv, Accounting
  <2>8. session[id].bytes \in Nat /\ s.bytes \in Nat
    BY <1>3, <2>1
  <2> QED
    BY <2>2, <2>3, <2>5, <2>6, <2>7, <2>8
<1>5. signalBytes' \in Nat
  <2>1. \A i \in Live : session'[i].bytes \in Nat
    BY <1>3 DEF Session
  <2> QED
    BY <1>2, <1>4, <2>1, QueuedNat
<1>6. TypeOK'
  BY <1>1, <1>3, <1>5 DEF IInv, TypeOK
<1>7. Accounting'
  <2>1. \A i \in Live : session'[i].bytes = Size(session'[i])
    BY <1>3 DEF IInv, Accounting
  <2>2. \A p \in Principals : {i \in Live : session'[i].principal = p} = {i \in Live : session[i].principal = p}
    BY <1>3
  <2>3. /\ \A p \in Principals : hostCount[p] = Cardinality({i \in Live : session[i].principal = p})
        /\ \A p \in Principals : hostCount[p] <= MaxPerHost
        /\ Cardinality(Live) <= MaxSessions
    BY DEF IInv, Accounting
  <2> QED
    BY <1>1, <1>3, <1>4, <2>1, <2>2, <2>3 DEF Accounting
<1>8. Remembered'
  BY <1>1, <1>3 DEF IInv, Remembered, RememberedIn
<1>9. Aged'
  <2>1. \A i \in Live : LET t == session[i] IN
          /\ t.created <= t.last /\ t.last <= now
          /\ t.created < t.expires /\ t.created < t.active
          /\ t.created \in Nat /\ t.last \in Nat
    BY <1>2 DEF IInv, Aged, Session
  <2>2. s.created <= s.last /\ s.last <= now /\ s.created < s.expires /\ s.created < s.active
    BY <1>2, <2>1
  <2> QED
    BY <1>1, <1>3, <2>1, <2>2 DEF Aged
<1>10. Unforgotten
  BY <1>3 DEF Unforgotten, Live
<1>11. Timely
  <2>1. now < Deadline(session[id]) /\ now - session[id].last < Idle
    <3>1. session[id] \in Session
      BY <1>2
    <3>2. Deadline(session[id]) \in Nat /\ session[id].last \in Nat
      BY <3>1 DEF Session, Deadline
    <3> QED
      BY <1>2, <3>2, Constants DEF Found, IsExpired
  <2> QED
    BY <1>3, <2>1 DEF Timely, Live
<1> QED
  BY <1>6, <1>7, <1>8, <1>9, <1>10, <1>11 DEF IInv, Sound

\* The doors of a session whose credentials stay open no others.
LEMMA SameDoors ==
  ASSUME IInv, NEW id \in Live, NEW s, Update(id, s),
         s.host = session[id].host, s.guest = session[id].guest, s.enrollment = session[id].enrollment
  PROVE  OneDoor'
<1>1. session \in [Live -> Session] /\ session' = [session EXCEPT ![id] = s]
  BY DEF IInv, TypeOK, Update
<1>2. /\ Live' = Live /\ session'[id] = s
      /\ \A i \in Live : i # id => session'[i] = session[i]
  BY <1>1 DEF Live
<1>3. \A i \in Live : /\ Credentials(session'[i]) = Credentials(session[i])
                      /\ session'[i].host = session[i].host /\ session'[i].guest = session[i].guest
                      /\ session'[i].enrollment = session[i].enrollment
  BY <1>2 DEF Credentials
<1> QED
  BY <1>2, <1>3 DEF IInv, OneDoor

\* The size of a session is what its two queues sum to.
LEMMA QueueSize ==
  ASSUME NEW s \in Session
  PROVE  /\ s.queue["host"] \in Seq(Nat) /\ s.queue["guest"] \in Seq(Nat)
         /\ Size(s) = SeqSum(s.queue["host"]) + SeqSum(s.queue["guest"])
         /\ SeqSum(s.queue["host"]) \in Nat /\ SeqSum(s.queue["guest"]) \in Nat
<1>1. s.queue["host"] \in Seq(Sizes) /\ s.queue["guest"] \in Seq(Sizes)
  BY DEF Session, Roles
<1>2. s.queue["host"] \in Seq(Nat) /\ s.queue["guest"] \in Seq(Nat)
  BY <1>1, Constants, SeqMonotonic
<1> QED
  BY <1>2, SizeIs, SeqSumConcat, SeqSumNat

\* Only the queue of one role, and with it the size, changes.
LEMMA QueueChanged ==
  ASSUME NEW s \in Session, NEW t \in Session, NEW role \in Roles, NEW q,
         t.queue = [s.queue EXCEPT ![role] = q]
  PROVE  /\ s.queue[role] \in Seq(Nat) /\ q \in Seq(Nat)
         /\ SeqSum(s.queue[role]) \in Nat /\ SeqSum(q) \in Nat
         /\ Size(t) = Size(s) - SeqSum(s.queue[role]) + SeqSum(q)
<1>1. s.queue \in [Roles -> Seq(Sizes)]
  BY DEF Session
<1> DEFINE sh == SeqSum(s.queue["host"])
           sg == SeqSum(s.queue["guest"])
           th == SeqSum(t.queue["host"])
           tg == SeqSum(t.queue["guest"])
<1>2. /\ sh \in Nat /\ sg \in Nat /\ Size(s) = sh + sg
      /\ th \in Nat /\ tg \in Nat /\ Size(t) = th + tg
  BY QueueSize
<1>3. /\ s.queue["host"] \in Seq(Nat) /\ s.queue["guest"] \in Seq(Nat)
      /\ t.queue["host"] \in Seq(Nat) /\ t.queue["guest"] \in Seq(Nat)
  BY QueueSize
<1>4. CASE role = "host"
  <2>1. t.queue["host"] = q /\ t.queue["guest"] = s.queue["guest"]
    BY <1>1, <1>4 DEF Roles
  <2>2. tg = sg /\ SeqSum(s.queue[role]) = sh /\ SeqSum(q) = th
    BY <1>4, <2>1, Zenon
  <2>3. s.queue[role] \in Seq(Nat) /\ q \in Seq(Nat)
    BY <1>3, <1>4, <2>1
  <2> HIDE DEF sh, sg, th, tg
  <2> QED
    BY <1>2, <2>2, <2>3
<1>5. CASE role = "guest"
  <2>1. t.queue["guest"] = q /\ t.queue["host"] = s.queue["host"]
    BY <1>1, <1>5 DEF Roles
  <2>2. th = sh /\ SeqSum(s.queue[role]) = sg /\ SeqSum(q) = tg
    BY <1>5, <2>1, Zenon
  <2>3. s.queue[role] \in Seq(Nat) /\ q \in Seq(Nat)
    BY <1>3, <1>5, <2>1
  <2> HIDE DEF sh, sg, th, tg
  <2> QED
    BY <1>2, <2>2, <2>3
<1> QED
  BY <1>4, <1>5 DEF Roles

\* What the replay window of a peer remembers is all that an authenticated
\* request changes by itself.
LEMMA HeardFacts ==
  ASSUME IInv, NEW id \in Ids, NEW role \in Roles, NEW plane \in Planes, NEW seq \in Nat,
         Authentic(id, role, plane, seq)
  PROVE  LET s == Heard(session[id], role, plane, seq) IN
         /\ id \in Live /\ ~closed /\ session[id] \in Session /\ s \in Session
         /\ s = [session[id] EXCEPT !.window = s.window]
<1>1. id \in Live /\ ~closed /\ Accepts(session[id].window[role][plane], seq)
  BY DEF Authentic, Found
<1>2. session[id] \in Session
  BY <1>1 DEF IInv, TypeOK
<1> DEFINE w == session[id].window[role][plane]
           v == [session[id].window EXCEPT ![role][plane] = Accepted(w, seq)]
<1>3. session[id].window \in [Roles -> [Planes -> Window]] /\ w \in Window
  BY <1>2 DEF Session
<1>4. Accepted(w, seq) \in Window
  <2>1. Width \in Nat \ {0} /\ w.highest \in Int /\ w.mask \in SUBSET (0 .. Width - 1)
        /\ w = [highest |-> w.highest, mask |-> w.mask]
    BY <1>3, WindowAssumption DEF Window, WindowAssumption
  <2>2. 0 \in 0 .. Width - 1
    BY <2>1
  <2> HIDE DEF w
  <2>3. CASE w.highest < 0
    BY <2>1, <2>2, <2>3 DEF Accepted, Window
  <2>4. CASE ~(w.highest < 0) /\ seq > w.highest
    <3>1. Shifted(w.mask, seq - w.highest) \in SUBSET (0 .. Width - 1)
      BY <2>2 DEF Shifted
    <3> QED
      BY <2>1, <2>4, <3>1 DEF Accepted, Window
  <2>5. CASE ~(w.highest < 0) /\ ~(seq > w.highest)
    <3>1. w.highest - seq \in 0 .. Width - 1
      BY <1>1, <2>1, <2>5 DEF Accepts, w
    <3>2. Accepted(w, seq) = [w EXCEPT !.mask = w.mask \cup {w.highest - seq}]
      BY <2>5 DEF Accepted
    <3> QED
      BY <2>1, <3>1, <3>2 DEF Window
  <2> QED
    BY <2>3, <2>4, <2>5
<1> HIDE DEF w
<1>5. v \in [Roles -> [Planes -> Window]]
  BY <1>3, <1>4
<1>6. Heard(session[id], role, plane, seq) = [session[id] EXCEPT !.window = v]
  BY <1>2 DEF Heard, Session, w
<1> HIDE DEF v
<1> QED
  BY <1>1, <1>2, <1>5, <1>6 DEF Session
-----------------------------------------------------------------------------
(* Every step is sound.                                                    *)

\* Time only ages sessions and tombstones.
LEMMA TickStep ==
  ASSUME IInv, Tick
  PROVE  Sound
<1>1. /\ now' = now + 1 /\ now < MaxTime /\ session' = session /\ order' = order
      /\ tombstones' = tombstones /\ signalBytes' = signalBytes /\ hostCount' = hostCount
      /\ closed' = closed /\ gone' = gone
  BY DEF Tick
<1>2. now \in 0 .. MaxTime /\ MaxTime \in Nat /\ session \in [Live -> Session]
      /\ gone \in Removals /\ TombstoneTtl \in Nat /\ Live' = Live
  BY <1>1, Constants DEF IInv, TypeOK, Removals, Live
<1>3. TypeOK'
  <2>1. now' \in 0 .. MaxTime
    BY <1>1, <1>2
  <2>2. closed' \in BOOLEAN
    BY <1>1, Zenon DEF IInv, TypeOK
  <2> QED
    BY <1>1, <1>2, <2>1, <2>2 DEF IInv, TypeOK
<1>4. OneDoor' /\ Accounting'
  BY <1>1, <1>2, Zenon DEF IInv, OneDoor, Accounting
<1>5. Remembered'
  <2>1. \A id \in Ids : gone[id].at \in Nat
    BY <1>2 DEF Removals
  <2> QED
    BY <1>1, <1>2, <2>1 DEF IInv, Remembered, RememberedIn
<1>6. Aged'
  <2>1. \A id \in Live : session[id].last \in Nat
    BY <1>2 DEF Session
  <2> QED
    BY <1>1, <1>2, <2>1 DEF IInv, Aged
<1>7. Unforgotten /\ Timely
  BY <1>1 DEF Unforgotten, Timely, Live
<1> QED
  BY <1>3, <1>4, <1>5, <1>6, <1>7 DEF IInv, Sound

\* A step that changes nothing keeps the invariant.
LEMMA StutterStep ==
  ASSUME IInv, UNCHANGED vars
  PROVE  IInv'
BY Zenon DEF IInv, TypeOK, OneDoor, Accounting, Remembered, RememberedIn, Aged, vars, Live, IsExpired

\* The sessions a step takes out, one or several, are buried.
LEMMA BuryStep ==
  ASSUME IInv, ~closed, NEW ids \in Seq(Ids), ToSet(ids) \subseteq Live, Drop(ids),
         tombstones' \in {Buried(ids), Purged(Buried(ids))}, UNCHANGED <<now, closed>>
  PROVE  Sound
<1>1. Buried(ids) \in Tombstones /\ RememberedIn(Live \ ToSet(ids), Buried(ids), GoneAfter(ids))
  BY BuriedFacts, DropRemembers
<1>2. now \in Nat /\ GoneAfter(ids) \in Removals
  BY GoneFacts, Constants DEF IInv, TypeOK
<1>3. Purged(Buried(ids)) \in Tombstones
      /\ RememberedIn(Live \ ToSet(ids), Purged(Buried(ids)), GoneAfter(ids))
  BY <1>1, <1>2, PurgeRemembers
<1>4. tombstones' \in Tombstones /\ RememberedIn(Live \ ToSet(ids), tombstones', GoneAfter(ids))
  BY <1>1, <1>3
<1>5. closed' \in BOOLEAN /\ now' = now
  BY Zenon DEF IInv, TypeOK
<1> QED
  BY <1>4, <1>5, DropStep

\* A single removal is a sequence of removals.
LEMMA OneId ==
  ASSUME NEW id \in Live, TypeOK
  PROVE  <<id>> \in Seq(Ids) /\ ToSet(<<id>>) \subseteq Live
BY DEF TypeOK, ToSet

\* cleanup buries what has expired and purges old tombstones.
LEMMA CleanupStep ==
  ASSUME IInv, Cleanup
  PROVE  Sound
<1>1. Expired \in Seq(Ids) /\ ToSet(Expired) \subseteq Live
  BY ExpiredFacts DEF IInv
<1>2. ~closed /\ Drop(Expired) /\ tombstones' = Purged(Buried(Expired)) /\ UNCHANGED <<now, closed>>
  BY DEF Cleanup
<1> QED
  BY <1>1, <1>2, BuryStep

\* A request that finds its session expired removes it.
LEMMA FindExpiredStep ==
  ASSUME IInv, NEW id \in Ids, FindExpired(id)
  PROVE  Sound
<1>1. /\ id \in Live /\ ~closed /\ Drop(<<id>>) /\ tombstones' = Buried(<<id>>)
      /\ UNCHANGED <<now, closed>>
  BY DEF FindExpired
<1>2. <<id>> \in Seq(Ids) /\ ToSet(<<id>>) \subseteq Live
  BY <1>1, OneId DEF IInv
<1> QED
  BY <1>1, <1>2, BuryStep

\* close empties the registry and leaves no tombstone.
LEMMA CloseStep ==
  ASSUME IInv, Close
  PROVE  Sound
<1>1. order \in Seq(Ids) /\ ToSet(order) \subseteq Live
  BY DEF IInv, TypeOK
<1>2. Drop(order) /\ tombstones' = <<>> /\ closed' = TRUE /\ now' = now
  BY DEF Close
<1>3. tombstones' \in Tombstones /\ closed' \in BOOLEAN
  BY <1>2 DEF Tombstones
<1> QED
  BY <1>1, <1>2, <1>3, DropStep

\* Enrollment trades one credential for another that nobody holds.
LEMMA EnrollStep ==
  ASSUME IInv, NEW id \in Ids, NEW e \in Tokens, NEW g \in Tokens, Enroll(id, e, g)
  PROVE  Sound
<1> DEFINE s == session[id]
           t == [s EXCEPT !.guest = g, !.enrollment = None, !.last = now]
<1>1. /\ Found(id) /\ id \in Live /\ s.guest = None /\ s.enrollment = e
      /\ g # s.host /\ g # e /\ ~InUse(g, session) /\ Update(id, t) /\ signalBytes' = signalBytes
  BY DEF Enroll, Found
<1>2. s \in Session /\ session \in [Live -> Session] /\ now \in Nat /\ signalBytes \in Nat
  BY <1>1, Constants DEF IInv, TypeOK
<1>3. /\ t \in Session /\ t.guest = g /\ t.enrollment = None /\ t.last = now /\ t.host = s.host
      /\ t.principal = s.principal /\ t.created = s.created /\ t.expires = s.expires
      /\ t.active = s.active /\ t.endpoint = s.endpoint /\ t.bytes = s.bytes /\ t.queue = s.queue
  BY <1>2 DEF Session
<1> HIDE DEF t
<1>4. /\ Live' = Live /\ session'[id] = t
      /\ \A i \in Live : i # id => session'[i] = session[i]
  BY <1>1, <1>2 DEF Update, Live
<1>5. OneDoor'
  <2>1. \A i \in Live : g \notin Credentials(session[i])
    BY <1>1 DEF InUse, Live
  <2>2. Credentials(t) \subseteq Credentials(s) \cup {g}
    BY <1>3 DEF Credentials
  <2>3. \A i, j \in Live : i # j => Credentials(session[i]) \cap Credentials(session[j]) = {}
    BY DEF IInv, OneDoor
  <2>4. s.host # None
    BY <1>2, Constants DEF Session
  <2>5. t.host \notin {t.guest, t.enrollment}
    BY <1>1, <1>3, <2>4
  <2>6. ASSUME NEW i \in Live, NEW j \in Live, i # j
        PROVE  Credentials(session'[i]) \cap Credentials(session'[j]) = {}
    <3>1. CASE i = id
      BY <1>1, <1>4, <2>1, <2>2, <2>3, <2>6, <3>1
    <3>2. CASE j = id
      BY <1>1, <1>4, <2>1, <2>2, <2>3, <2>6, <3>2
    <3>3. CASE i # id /\ j # id
      BY <1>4, <2>3, <2>6, <3>3
    <3> QED
      BY <3>1, <3>2, <3>3
  <2>7. ASSUME NEW i \in Live
        PROVE  session'[i].host \notin {session'[i].guest, session'[i].enrollment}
               /\ (session'[i].guest # None => session'[i].enrollment = None)
    <3>1. CASE i = id
      BY <1>3, <1>4, <2>5, <3>1
    <3>2. CASE i # id
      BY <1>4, <3>2 DEF IInv, OneDoor
    <3> QED
      BY <3>1, <3>2
  <2> QED
    BY <1>4, <2>6, <2>7 DEF OneDoor
<1>6. t.bytes = Size(t) /\ signalBytes' = signalBytes - s.bytes + t.bytes /\ signalBytes' <= MaxGlobalBytes
  <2>1. s.bytes = Size(s) /\ signalBytes <= MaxGlobalBytes
    BY <1>1 DEF IInv, Accounting
  <2>2. Size(t) = Size(s)
    BY <1>3, SizeIs
  <2>3. s.bytes \in Nat
    BY <1>2 DEF Session
  <2> QED
    BY <1>1, <1>2, <1>3, <2>1, <2>2, <2>3
<1>7. \A r \in Roles : s.endpoint[r] \in {None, t.endpoint[r]}
  BY <1>3
<1> QED
  BY <1>1, <1>3, <1>5, <1>6, <1>7, UpdateStep

\* A request that leaves the queues, the credentials and the deadlines alone.
LEMMA QuietStep ==
  ASSUME IInv, NEW id \in Live, Found(id), NEW s \in Session, Update(id, s), signalBytes' = signalBytes,
         s.host = session[id].host, s.guest = session[id].guest, s.enrollment = session[id].enrollment,
         s.principal = session[id].principal, s.created = session[id].created,
         s.expires = session[id].expires, s.active = session[id].active,
         s.queue = session[id].queue, s.bytes = session[id].bytes, s.last \in {session[id].last, now},
         \A r \in Roles : session[id].endpoint[r] \in {None, s.endpoint[r]}
  PROVE  Sound
<1>1. s.bytes = Size(s) /\ signalBytes' <= MaxGlobalBytes
  <2>1. session[id].bytes = Size(session[id]) /\ signalBytes <= MaxGlobalBytes
    BY DEF IInv, Accounting
  <2>2. Size(s) = Size(session[id])
    BY SizeIs
  <2> QED
    BY <2>1, <2>2
<1>2. signalBytes' = signalBytes - session[id].bytes + s.bytes
  <2>1. s.bytes \in Nat /\ signalBytes \in Nat
    BY DEF Session, IInv, TypeOK
  <2> QED
    BY <2>1
<1>3. OneDoor'
  BY SameDoors
<1> QED
  BY <1>1, <1>2, <1>3, UpdateStep

\* What a session says it holds is what its queues hold, and a part of the whole.
LEMMA HeldFacts ==
  ASSUME IInv, NEW id \in Live
  PROVE  /\ session[id] \in Session /\ session[id].bytes \in Nat /\ session[id].bytes = Size(session[id])
         /\ now \in Nat /\ signalBytes \in Nat /\ signalBytes <= MaxGlobalBytes
         /\ session[id].bytes <= signalBytes
<1>1. session[id].bytes = Size(session[id]) /\ signalBytes = Queued(session, Live) /\ signalBytes <= MaxGlobalBytes
  BY DEF IInv, Accounting
<1>2. \A i \in Live : session[i] \in Session /\ session[i].bytes \in Nat
  BY DEF IInv, TypeOK, Session
<1>3. now \in Nat /\ signalBytes \in Nat /\ IsFiniteSet(Live)
  BY LiveFinite, Constants DEF IInv, TypeOK
<1>4. Queued(session, Live) = session[id].bytes + Queued(session, Live \ {id})
  BY <1>2, <1>3, QueuedOne
<1>5. Queued(session, Live \ {id}) \in Nat
  <2>1. IsFiniteSet(Live \ {id})
    BY <1>3, FS_RemoveElement
  <2> QED
    BY <1>2, <2>1, QueuedNat
<1> QED
  BY <1>1, <1>2, <1>3, <1>4, <1>5

\* A signal joins the queue of the other peer, or changes nothing but the window.
LEMMA PublishStep ==
  ASSUME IInv, NEW id \in Ids, NEW role \in Roles, NEW seq \in Nat, NEW size \in Sizes,
         PublishSignal(id, role, seq, size)
  PROVE  Sound
<1> DEFINE o == session[id]
           s == Heard(o, role, "control", seq)
           to == Other(role)
           t == [s EXCEPT !.queue[to] = Append(@, size), !.bytes = @ + size, !.last = now]
<1>1. /\ id \in Live /\ ~closed /\ o \in Session /\ s \in Session /\ s = [o EXCEPT !.window = s.window]
      /\ Found(id) /\ to \in Roles
  <2>1. Authentic(id, role, "control", seq)
    BY DEF PublishSignal
  <2> QED
    BY <2>1, HeardFacts DEF Planes, Authentic, Other, Roles
<1>2. /\ s.host = o.host /\ s.guest = o.guest /\ s.enrollment = o.enrollment /\ s.principal = o.principal
      /\ s.created = o.created /\ s.expires = o.expires /\ s.active = o.active /\ s.last = o.last
      /\ s.endpoint = o.endpoint /\ s.queue = o.queue /\ s.bytes = o.bytes
  BY <1>1 DEF Session
<1>3. /\ now \in Nat /\ signalBytes \in Nat /\ size \in Nat /\ o.bytes \in Nat
      /\ s.queue \in [Roles -> Seq(Sizes)] /\ o.bytes = Size(o)
  <2>1. s.queue \in [Roles -> Seq(Sizes)]
    BY <1>1 DEF Session
  <2>2. size \in Nat
    BY Constants
  <2> QED
    BY <1>1, <2>1, <2>2, HeldFacts
<1>4. \/ /\ HasRoom(s, to, size) /\ Update(id, t) /\ signalBytes' = signalBytes + size
      \/ Update(id, s) /\ signalBytes' = signalBytes
  BY DEF PublishSignal
<1> HIDE DEF s, to
<1>5. CASE HasRoom(s, to, size) /\ Update(id, t) /\ signalBytes' = signalBytes + size
  <2> DEFINE q == Append(s.queue[to], size)
  <2>1. q \in Seq(Sizes)
    BY <1>1, <1>3
  <2> HIDE DEF q
  <2>0. t = [s EXCEPT !.queue = [s.queue EXCEPT ![to] = q], !.bytes = s.bytes + size, !.last = now]
    BY DEF q
  <2> HIDE DEF t
  <2>2. /\ t \in Session /\ t.queue = [s.queue EXCEPT ![to] = q] /\ t.bytes = s.bytes + size /\ t.last = now
        /\ t.host = s.host /\ t.guest = s.guest /\ t.enrollment = s.enrollment /\ t.principal = s.principal
        /\ t.created = s.created /\ t.expires = s.expires /\ t.active = s.active /\ t.endpoint = s.endpoint
    <3>1. [s.queue EXCEPT ![to] = q] \in [Roles -> Seq(Sizes)] /\ s.bytes + size \in Nat
      BY <1>1, <1>2, <1>3, <2>1
    <3> QED
      BY <1>1, <1>3, <2>0, <3>1 DEF Session
  <2>3. Size(t) = Size(s) + size
    <3>1. /\ s.queue[to] \in Seq(Nat) /\ SeqSum(s.queue[to]) \in Nat
          /\ Size(t) = Size(s) - SeqSum(s.queue[to]) + SeqSum(q)
      <4>1. s \in Session /\ t \in Session /\ to \in Roles /\ t.queue = [s.queue EXCEPT ![to] = q]
        BY <1>1, <2>2
      <4> HIDE DEF o
      <4> QED
        BY ONLY <4>1, QueueChanged
    <3>2. SeqSum(q) = SeqSum(s.queue[to]) + size
      BY <1>3, <3>1, SeqSumAppend DEF q
    <3>3. Size(s) = Size(o)
      BY <1>2, SizeIs
    <3> QED
      BY <1>3, <3>1, <3>2, <3>3
  <2>4. t.bytes = Size(t)
    <3>1. Size(s) = Size(o)
      BY <1>2, SizeIs
    <3> QED
      BY <1>2, <1>3, <2>2, <2>3, <3>1
  <2>5. signalBytes' = signalBytes - o.bytes + t.bytes /\ signalBytes' <= MaxGlobalBytes
    BY <1>2, <1>3, <1>5, <2>2, Constants DEF HasRoom
  <2>6. OneDoor'
    BY <1>1, <1>2, <1>5, <2>2, SameDoors
  <2>7. t.principal = o.principal /\ t.created = o.created /\ t.expires = o.expires /\ t.active = o.active
        /\ t.host = o.host /\ t.guest = o.guest /\ t.endpoint = o.endpoint
    BY <1>2, <2>2
  <2> HIDE DEF o
  <2>8. \A r \in Roles : o.endpoint[r] \in {None, t.endpoint[r]}
    BY <2>7
  <2> QED
    BY <1>1, <1>5, <2>2, <2>4, <2>5, <2>6, <2>7, <2>8, UpdateStep DEF o
<1>6. CASE Update(id, s) /\ signalBytes' = signalBytes
  BY <1>1, <1>2, <1>6, QuietStep
<1> QED
  BY <1>4, <1>5, <1>6

\* A poll takes the oldest signal, and its size from both totals.
LEMMA PollStep ==
  ASSUME IInv, NEW id \in Ids, NEW role \in Roles, NEW seq \in Nat, PollSignals(id, role, seq)
  PROVE  Sound
<1> DEFINE o == session[id]
           s == Heard(o, role, "control", seq)
           q == s.queue[role]
           size == IF q = <<>> THEN 0 ELSE Head(q)
           rest == IF q = <<>> THEN q ELSE Tail(q)
           t == [s EXCEPT !.queue[role] = rest, !.bytes = @ - size, !.last = now]
<1>1. /\ id \in Live /\ ~closed /\ o \in Session /\ s \in Session /\ s = [o EXCEPT !.window = s.window]
      /\ Found(id)
  <2>1. Authentic(id, role, "control", seq)
    BY DEF PollSignals
  <2> QED
    BY <2>1, HeardFacts DEF Planes, Authentic
<1>2. /\ s.host = o.host /\ s.guest = o.guest /\ s.enrollment = o.enrollment /\ s.principal = o.principal
      /\ s.created = o.created /\ s.expires = o.expires /\ s.active = o.active /\ s.last = o.last
      /\ s.endpoint = o.endpoint /\ s.queue = o.queue /\ s.bytes = o.bytes
  BY <1>1 DEF Session
<1>3. /\ now \in Nat /\ signalBytes \in Nat /\ o.bytes \in Nat
      /\ s.queue \in [Roles -> Seq(Sizes)] /\ o.bytes = Size(o)
      /\ o.bytes <= signalBytes /\ signalBytes <= MaxGlobalBytes
  <2>1. s.queue \in [Roles -> Seq(Sizes)]
    BY <1>1 DEF Session
  <2> QED
    BY <1>1, <2>1, HeldFacts
<1>4. Update(id, t) /\ signalBytes' = signalBytes - size
  BY DEF PollSignals
<1>5. q \in Seq(Sizes) /\ q \in Seq(Nat) /\ SeqSum(q) \in Nat
  <2>1. q \in Seq(Sizes)
    BY <1>3
  <2> HIDE DEF q
  <2> QED
    BY <2>1, Constants, SeqMonotonic, SeqSumNat
<1>6. /\ rest \in Seq(Sizes) /\ size \in Nat /\ SeqSum(rest) \in Nat
      /\ SeqSum(q) = size + SeqSum(rest)
  <2> HIDE DEF q
  <2>1. CASE q = <<>>
    BY <1>5, <2>1
  <2>2. CASE q # <<>>
    <3>1. Tail(q) \in Seq(Sizes)
      BY <1>5, <2>2
    <3>2. Head(q) \in Nat /\ Tail(q) \in Seq(Nat) /\ SeqSum(q) = Head(q) + SeqSum(Tail(q))
      BY <1>5, <2>2, SeqSumTail
    <3>3. SeqSum(Tail(q)) \in Nat
      BY <3>2, SeqSumNat
    <3> QED
      BY <2>2, <3>1, <3>2, <3>3
  <2> QED
    BY <2>1, <2>2
<1>7. Size(s) = Size(o)
  BY <1>2, SizeIs
<1> HIDE DEF rest, size, s
<1>8. o.bytes - size \in Nat /\ signalBytes - size \in Nat /\ signalBytes - size <= signalBytes
  <2>1. \E n \in Nat : Size(o) = SeqSum(q) + n
    <3>1. /\ Size(s) = SeqSum(s.queue["host"]) + SeqSum(s.queue["guest"])
          /\ SeqSum(s.queue["host"]) \in Nat /\ SeqSum(s.queue["guest"]) \in Nat
      BY <1>1, QueueSize
    <3>2. CASE role = "host"
      BY <1>7, <3>1, <3>2
    <3>3. CASE role = "guest"
      BY <1>7, <3>1, <3>3
    <3> QED
      BY <3>2, <3>3 DEF Roles
  <2> HIDE DEF q, o
  <2> QED
    BY <1>3, <1>5, <1>6, <2>1
<1>9. /\ t \in Session /\ t.queue = [s.queue EXCEPT ![role] = rest] /\ t.bytes = s.bytes - size
      /\ t.last = now /\ t.host = s.host /\ t.guest = s.guest /\ t.enrollment = s.enrollment
      /\ t.principal = s.principal /\ t.created = s.created /\ t.expires = s.expires
      /\ t.active = s.active /\ t.endpoint = s.endpoint
  BY <1>1, <1>2, <1>3, <1>6, <1>8 DEF Session
<1> HIDE DEF t
<1>10. t.bytes = Size(t)
  <2>1. Size(t) = Size(s) - SeqSum(q) + SeqSum(rest)
    BY <1>1, <1>9, QueueChanged
  <2> HIDE DEF q
  <2> QED
    BY <1>2, <1>3, <1>5, <1>6, <1>7, <1>9, <2>1
<1>11. signalBytes' = signalBytes - o.bytes + t.bytes /\ signalBytes' <= MaxGlobalBytes
  <2>1. t.bytes = o.bytes - size /\ signalBytes' = signalBytes - size
    BY <1>2, <1>4, <1>9
  <2> HIDE DEF o
  <2> QED
    BY <1>3, <1>6, <1>8, <2>1, Constants
<1>12. OneDoor'
  BY <1>1, <1>2, <1>4, <1>9, SameDoors
<1>13. t.principal = o.principal /\ t.created = o.created /\ t.expires = o.expires /\ t.active = o.active
       /\ t.host = o.host /\ t.guest = o.guest /\ t.endpoint = o.endpoint
  BY <1>2, <1>9
<1>14. \A r \in Roles : o.endpoint[r] \in {None, t.endpoint[r]}
  <2> HIDE DEF o
  <2> QED
    BY <1>13
<1> QED
  BY <1>1, <1>4, <1>9, <1>10, <1>11, <1>12, <1>13, <1>14, UpdateStep

\* The host closes its session; a guest is only heard.
LEMMA CloseSessionStep ==
  ASSUME IInv, NEW id \in Ids, NEW role \in Roles, NEW seq \in Nat, CloseSession(id, role, seq)
  PROVE  Sound
<1> DEFINE o == session[id]
           s == Heard(o, role, "control", seq)
<1>1. /\ id \in Live /\ ~closed /\ o \in Session /\ s \in Session /\ s = [o EXCEPT !.window = s.window]
      /\ Found(id)
  <2>1. Authentic(id, role, "control", seq)
    BY DEF CloseSession
  <2> QED
    BY <2>1, HeardFacts DEF Planes, Authentic
<1>2. CASE Drop(<<id>>) /\ tombstones' = Buried(<<id>>) /\ UNCHANGED <<now, closed>>
  <2>1. <<id>> \in Seq(Ids) /\ ToSet(<<id>>) \subseteq Live
    BY <1>1, OneId DEF IInv
  <2> QED
    BY <1>1, <1>2, <2>1, BuryStep
<1>3. CASE Update(id, s) /\ signalBytes' = signalBytes
  <2>1. /\ s.host = o.host /\ s.guest = o.guest /\ s.enrollment = o.enrollment /\ s.principal = o.principal
        /\ s.created = o.created /\ s.expires = o.expires /\ s.active = o.active /\ s.last = o.last
        /\ s.endpoint = o.endpoint /\ s.queue = o.queue /\ s.bytes = o.bytes
    BY <1>1 DEF Session
  <2> HIDE DEF s
  <2> QED
    BY <1>1, <1>3, <2>1, QuietStep
<1> QED
  BY <1>2, <1>3 DEF CloseSession

\* BIND, KEEPALIVE and DATA leave queues, credentials and deadlines alone.
LEMMA DatagramStep ==
  ASSUME IInv, NEW id \in Ids, NEW role \in Roles, NEW seq \in Nat, NEW source \in Endpoints,
         Bind(id, role, seq, source) \/ Relay(id, role, seq, source)
  PROVE  Sound
<1> DEFINE o == session[id]
           s == Heard(o, role, "datagram", seq)
           b == [s EXCEPT !.endpoint[role] = source, !.last = now]
           r == [s EXCEPT !.last = now]
<1>1. /\ id \in Live /\ ~closed /\ o \in Session /\ s \in Session /\ s = [o EXCEPT !.window = s.window]
      /\ Found(id)
  <2>1. Authentic(id, role, "datagram", seq)
    BY DEF Bind, Relay
  <2> QED
    BY <2>1, HeardFacts DEF Planes, Authentic
<1>2. /\ s.host = o.host /\ s.guest = o.guest /\ s.enrollment = o.enrollment /\ s.principal = o.principal
      /\ s.created = o.created /\ s.expires = o.expires /\ s.active = o.active /\ s.last = o.last
      /\ s.endpoint = o.endpoint /\ s.queue = o.queue /\ s.bytes = o.bytes
  BY <1>1 DEF Session
<1>3. \/ s.endpoint[role] \in {None, source} /\ Update(id, b)
      \/ Update(id, r)
      \/ Update(id, s)
  BY DEF Bind, Relay
<1>4. now \in Nat /\ signalBytes' = signalBytes /\ s.endpoint \in [Roles -> Endpoints \cup {None}]
  <2>1. s.endpoint \in [Roles -> Endpoints \cup {None}]
    BY <1>1 DEF Session
  <2>2. signalBytes' = signalBytes
    BY DEF Bind, Relay
  <2> QED
    BY <1>1, <2>1, <2>2, HeldFacts
<1> HIDE DEF s
<1>5. CASE s.endpoint[role] \in {None, source} /\ Update(id, b)
  <2>1. /\ b \in Session /\ b.last = now /\ b.host = o.host /\ b.guest = o.guest
        /\ b.enrollment = o.enrollment /\ b.principal = o.principal /\ b.created = o.created
        /\ b.expires = o.expires /\ b.active = o.active /\ b.queue = o.queue /\ b.bytes = o.bytes
        /\ b.endpoint = [o.endpoint EXCEPT ![role] = source]
    BY <1>1, <1>2, <1>4 DEF Session
  <2>2. \A x \in Roles : o.endpoint[x] \in {None, b.endpoint[x]}
    BY <1>2, <1>4, <1>5, <2>1
  <2> HIDE DEF b
  <2> QED
    BY <1>1, <1>4, <1>5, <2>1, <2>2, QuietStep
<1>6. CASE Update(id, r)
  <2>1. /\ r \in Session /\ r.last = now /\ r.host = o.host /\ r.guest = o.guest
        /\ r.enrollment = o.enrollment /\ r.principal = o.principal /\ r.created = o.created
        /\ r.expires = o.expires /\ r.active = o.active /\ r.queue = o.queue /\ r.bytes = o.bytes
        /\ r.endpoint = o.endpoint
    BY <1>1, <1>2, <1>4 DEF Session
  <2> HIDE DEF r
  <2> QED
    BY <1>1, <1>4, <1>6, <2>1, QuietStep
<1>7. CASE Update(id, s)
  BY <1>1, <1>2, <1>4, <1>7, QuietStep
<1> QED
  BY <1>3, <1>5, <1>6, <1>7

\* Every step is sound.
LEMMA NextStep ==
  ASSUME IInv, Next
  PROVE  Sound
<1>1. ASSUME NEW id \in Ids, Control(id) PROVE Sound
  <2>1. PICK role \in Roles, seq \in ControlSequences :
          \/ \E size \in Sizes : PublishSignal(id, role, seq, size)
          \/ PollSignals(id, role, seq)
          \/ CloseSession(id, role, seq)
    BY <1>1 DEF Control
  <2>2. seq \in Nat
    BY Constants
  <2> QED
    BY <2>1, <2>2, PublishStep, PollStep, CloseSessionStep
<1>2. ASSUME NEW id \in Ids, Datagram(id) PROVE Sound
  <2>1. PICK role \in Roles, seq \in DatagramSequences, source \in Endpoints :
          Bind(id, role, seq, source) \/ Relay(id, role, seq, source)
    BY <1>2 DEF Datagram
  <2>2. seq \in Nat
    BY Constants
  <2> QED
    BY <2>1, <2>2, DatagramStep
<1> QED
  BY <1>1, <1>2, TickStep, CleanupStep, CloseStep, FindExpiredStep, RegisterStep, EnrollStep DEF Next

-----------------------------------------------------------------------------
\* The inductive invariant holds throughout.
THEOREM Invariance == Spec => []IInv
<1>1. IInv /\ [Next]_vars => IInv'
  BY NextStep, StutterStep DEF Sound
<1> QED
  BY InitIInv, <1>1, PTL DEF Spec

\* Every variable keeps its type: state.py keeps one order entry per session.
THEOREM TypeCorrect == Spec => []TypeOK
<1>1. IInv => TypeOK
  BY DEF IInv
<1> QED
  BY Invariance, <1>1, PTL

\* No credential is ever held twice, by two sessions or in two roles of one
\* (register and enroll of state.py).
THEOREM DoorsApart == Spec => []OneDoor
<1>1. IInv => OneDoor
  BY DEF IInv
<1> QED
  BY Invariance, <1>1, PTL

\* The counters that admission reads are always what the sessions add up to,
\* and within their bounds (_remove, register, publish_signal, poll_signals).
THEOREM CountersExact == Spec => []Accounting
<1>1. IInv => Accounting
  BY DEF IInv
<1> QED
  BY Invariance, <1>1, PTL

\* A removed id is registered again only when its tombstone has expired or the
\* bound on tombstones has pushed it out (_remove, cleanup, register).
THEOREM IdsNotReusedEarly == Spec => NoEarlyReuse
<1>1. IInv /\ [Next]_vars => [Unforgotten]_vars
  BY NextStep DEF Sound
<1> QED
  BY Invariance, <1>1, PTL DEF Spec, NoEarlyReuse, Unforgotten

\* A session changes only before its deadlines, and never moves them nor its
\* peers and their endpoints (_live_session, enroll, handle_datagram).
THEOREM SessionsUsedInTime == Spec => UsedInTime
<1>1. IInv /\ [Next]_vars => [Timely]_vars
  BY NextStep DEF Sound
<1> QED
  BY Invariance, <1>1, PTL DEF Spec, UsedInTime, Timely
=============================================================================
