------------------------- MODULE ReplayFilterProofs -------------------------
(***************************************************************************)
(* The replay window filters duplicates exactly, for every width and every *)
(* range of sequences.                                                     *)
(***************************************************************************)
EXTENDS ReplayFilter, TLAPS

Inv == TypeOK /\ Remembers /\ Exact

\* A new window remembers nothing.
LEMMA InitInv == Init => Inv
  BY WindowAssumption, SequenceAssumption
  DEF Init, Inv, TypeOK, Remembers, Exact, NewWindow, WindowAssumption,
      SequenceAssumption, Sequences

\* What the window says of a sequence, when it remembers what it should.
LEMMA AcceptsMeaning ==
  ASSUME Inv, NEW s \in Sequences
  PROVE  Accepts(window, s) <=> s \notin seen /\ \A t \in seen : t - s < Width
<1>1. /\ Width \in Nat \ {0} /\ s \in Nat /\ seen \subseteq Nat
      /\ window.highest \in Int /\ (window.highest < 0 <=> seen = {})
  BY WindowAssumption, SequenceAssumption
  DEF Inv, TypeOK, Remembers, WindowAssumption, SequenceAssumption, Sequences
<1>2. CASE seen = {}
  BY <1>1, <1>2 DEF Accepts
<1>3. CASE seen # {}
  <2>1. window.highest \in seen /\ \A t \in seen : t <= window.highest
    BY <1>3 DEF Inv, Remembers
  <2>2. CASE s > window.highest
    BY <1>1, <2>1, <2>2 DEF Accepts
  <2>3. CASE s <= window.highest
    <3>1. window.highest - s < Width => (window.highest - s \in window.mask <=> s \in seen)
      <4>1. window.highest - (window.highest - s) = s
        BY <1>1
      <4>2. window.highest - s < Width => window.highest - s \in 0 .. Width - 1
        BY <1>1, <2>3
      <4> QED
        BY <4>1, <4>2 DEF Inv, Remembers
    <3> QED
      BY <1>1, <1>3, <2>1, <2>3, <3>1 DEF Accepts
  <2> QED
    BY <1>1, <2>2, <2>3
<1> QED
  BY <1>2, <1>3

\* Accepting a sequence, the window goes on remembering what it should.
LEMMA AcceptRemembers ==
  ASSUME Inv, NEW s \in Sequences, Accept(s)
  PROVE  (TypeOK /\ Remembers)'
<1>1. /\ Width \in Nat \ {0} /\ s \in Nat /\ seen \subseteq Nat /\ MaxSequence \in Nat
      /\ window.highest \in Int /\ (window.highest < 0 <=> seen = {})
      /\ window \in [highest : {-1} \cup Sequences, mask : SUBSET (0 .. Width - 1)]
  BY WindowAssumption, SequenceAssumption
  DEF Inv, TypeOK, Remembers, WindowAssumption, SequenceAssumption, Sequences
<1>2. /\ window' = Accepted(window, s) /\ seen' = seen \cup {s} /\ Accepts(window, s)
      /\ verdict' \in {"none", "fresh", "replayed", "refused", "lost"}
      /\ seen' \subseteq Sequences
  BY DEF Accept, Inv, TypeOK
<1>3. CASE seen = {}
  <2>1. window' = [highest |-> s, mask |-> {0}] /\ seen' = {s}
    BY <1>1, <1>2, <1>3 DEF Accepted
  <2>2. \A d \in 0 .. Width - 1 : d \in {0} <=> s - d \in {s}
    BY <1>1
  <2> QED
    BY <1>1, <1>2, <2>1, <2>2 DEF TypeOK, Remembers
<1>4. CASE seen # {} /\ s > window.highest
  <2> DEFINE h == window.highest
  <2>1. window' = [highest |-> s, mask |-> Shifted(window.mask, s - h)] /\ h >= 0
    BY <1>1, <1>2, <1>4 DEF Accepted
  <2>2. h \in seen /\ \A t \in seen : t <= h
    BY <1>4 DEF Inv, Remembers
  <2>3. Shifted(window.mask, s - h) \subseteq 0 .. Width - 1
    BY <1>1 DEF Shifted
  <2>4. ASSUME NEW d \in 0 .. Width - 1
        PROVE  d \in Shifted(window.mask, s - h) <=> s - d \in seen \cup {s}
    <3>1. CASE d = 0
      BY <1>1, <3>1 DEF Shifted
    <3>2. CASE d # 0
      <4>1. d \in Shifted(window.mask, s - h) <=> d - (s - h) \in window.mask
        BY <1>1, <3>2 DEF Shifted
      <4>2. CASE d - (s - h) \in 0 .. Width - 1
        <5>1. h - (d - (s - h)) = s - d /\ s - d # s
          BY <1>1, <3>2
        <5>2. d - (s - h) \in window.mask <=> h - (d - (s - h)) \in seen
          BY <4>2 DEF Inv, Remembers
        <5> QED
          BY <4>1, <5>1, <5>2
      <4>3. CASE d - (s - h) \notin 0 .. Width - 1
        <5>1. d - (s - h) < 0
          BY <1>1, <1>4, <4>3
        <5>2. s - d > h /\ s - d # s
          BY <1>1, <3>2, <5>1
        <5>3. s - d \notin seen \cup {s}
          BY <1>1, <2>2, <5>2
        <5> QED
          BY <1>1, <4>1, <4>3, <5>3
      <4> QED
        BY <4>2, <4>3
    <3> QED
      BY <3>1, <3>2
  <2>5. \A t \in seen \cup {s} : t <= s
    BY <1>1, <1>4, <2>2
  <2>6. TypeOK'
    BY <1>2, <2>1, <2>3 DEF TypeOK
  <2>7. Remembers'
    BY <1>1, <1>2, <2>1, <2>4, <2>5 DEF Remembers
  <2> QED
    BY <2>6, <2>7
<1>5. CASE seen # {} /\ s <= window.highest
  <2> DEFINE h == window.highest
  <2>1. window' = [window EXCEPT !.mask = @ \cup {h - s}] /\ h >= 0
    BY <1>1, <1>2, <1>5 DEF Accepted
  <2>2. h \in seen /\ \A t \in seen : t <= h
    BY <1>5 DEF Inv, Remembers
  <2>3. h - s \in 0 .. Width - 1
    BY <1>1, <1>2, <1>5 DEF Accepts
  <2>4. window'.highest = h /\ window'.mask = window.mask \cup {h - s}
    BY <1>1, <2>1
  <2>5. ASSUME NEW d \in 0 .. Width - 1
        PROVE  d \in window.mask \cup {h - s} <=> h - d \in seen \cup {s}
    <3>1. d = h - s <=> h - d = s
      BY <1>1
    <3>2. d \in window.mask <=> h - d \in seen
      BY DEF Inv, Remembers
    <3> QED
      BY <3>1, <3>2
  <2>6. TypeOK'
    BY <1>1, <1>2, <2>1, <2>3 DEF TypeOK
  <2>7. Remembers'
    BY <1>1, <1>2, <1>5, <2>2, <2>4, <2>5 DEF Remembers
  <2> QED
    BY <2>6, <2>7
<1> QED
  BY <1>1, <1>3, <1>4, <1>5 DEF Sequences

\* Every step keeps the window exact.
LEMMA NextInv == Inv /\ [Next]_fvars => Inv'
<1> SUFFICES ASSUME Inv, [Next]_fvars PROVE Inv'
  OBVIOUS
<1>1. ASSUME NEW s \in Sequences, Accept(s) PROVE Inv'
  <2>1. Exact'
    BY <1>1, AcceptsMeaning DEF Accept, Exact
  <2> QED
    BY <1>1, <2>1, AcceptRemembers DEF Inv
<1>2. ASSUME NEW s \in Sequences, Refuse(s) PROVE Inv'
  <2>1. s \in seen \/ \E t \in seen : t - s >= Width
    <3>1. Width \in Int /\ s \in Int /\ \A t \in seen : t \in Int
      BY WindowAssumption, SequenceAssumption
      DEF Inv, TypeOK, Sequences, WindowAssumption, SequenceAssumption
    <3> QED
      BY <1>2, <3>1, AcceptsMeaning DEF Refuse
  <2> QED
    BY <1>2, <2>1 DEF Refuse, Inv, TypeOK, Remembers, Exact
<1>3. CASE UNCHANGED fvars
  BY <1>3 DEF fvars, Inv, TypeOK, Remembers, Exact
<1> QED
  BY <1>1, <1>2, <1>3 DEF Next

\* The mask never grows past its width, whatever the sequences.
THEOREM TypeCorrect == Spec => []TypeOK
<1>1. Inv => TypeOK
  BY DEF Inv
<1> QED
  BY <1>1, InitInv, NextInv, PTL DEF Spec

\* The window always remembers exactly the sequences within its width.
THEOREM Memory == Spec => []Remembers
<1>1. Inv => Remembers
  BY DEF Inv
<1> QED
  BY <1>1, InitInv, NextInv, PTL DEF Spec

\* No frame or control operation is ever accepted under a sequence that was
\* accepted before, and no new one within the window is ever lost.
THEOREM ExactlyOnce == Spec => []Exact
<1>1. Inv => Exact
  BY DEF Inv
<1> QED
  BY <1>1, InitInv, NextInv, PTL DEF Spec
=============================================================================
