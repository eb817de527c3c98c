----------------------------- MODULE FoldLemmas -----------------------------
(***************************************************************************)
(* What the folds of the community modules compute, for every input: sums  *)
(* over finite sets and sequences, and the elements of a sequence that     *)
(* belong to a set.                                                        *)
(*                                                                         *)
(* A fold is a CHOOSE of a recursive function on the subsets of its set.   *)
(* That the function exists, and what it computes, goes by induction; the  *)
(* induction is over the members of a set here (NatInduct, SetInduct),     *)
(* from the well-foundedness of the order on Nat.                          *)
(***************************************************************************)
EXTENDS SequencesExt, FiniteSetTheorems, SequenceTheorems, WellFoundedInduction, TLAPS

\* A set that holds 0 and the successor of each of its members holds Nat.
LEMMA NatInduct ==
  ASSUME NEW S, 0 \in S, \A n \in Nat : n \in S => n + 1 \in S
  PROVE  Nat \subseteq S
<1> DEFINE T == Nat \ S
<1>1. SUFFICES ASSUME T # {} PROVE FALSE
  OBVIOUS
<1>2. PICK x \in T : \A y \in T : <<y, x>> \notin OpToRel(<, Nat)
  <2>1. IsWellFoundedOn(OpToRel(<, Nat), Nat)
    BY NatLessThanWellFounded
  <2> HIDE DEF T
  <2>2. T \subseteq Nat
    BY DEF T
  <2> QED
    BY <1>1, <2>1, <2>2, WFMin
<1>3. x # 0 /\ x - 1 \in Nat
  OBVIOUS
<1>4. x - 1 \in T
  BY <1>3
<1>5. <<x - 1, x>> \in OpToRel(<, Nat)
  BY <1>3, <1>4 DEF OpToRel
<1> QED
  BY <1>2, <1>4, <1>5

\* A family that holds the empty set, and a set whenever it holds the set
\* without any one member, holds every subset of a finite set.
LEMMA SetInduct ==
  ASSUME NEW S, IsFiniteSet(S), NEW F, {} \in F,
         \A T \in SUBSET S : T # {} /\ (\A x \in T : T \ {x} \in F) => T \in F
  PROVE  \A T \in SUBSET S : T \in F
<1> DEFINE N == {n \in Nat : \A T \in SUBSET S : Cardinality(T) = n => T \in F}
<1>1. \A T \in SUBSET S : IsFiniteSet(T) /\ Cardinality(T) \in Nat
  BY FS_Subset, FS_CardinalityType
<1>2. 0 \in N
  BY <1>1, FS_EmptySet
<1>3. ASSUME NEW n \in Nat, n \in N PROVE n + 1 \in N
  <2> SUFFICES ASSUME NEW T \in SUBSET S, Cardinality(T) = n + 1 PROVE T \in F
    OBVIOUS
  <2>1. T # {}
    <3>1. Cardinality({}) = 0
      BY FS_EmptySet
    <3> QED
      BY <3>1
  <2>2. ASSUME NEW x \in T PROVE T \ {x} \in F
    <3>1. Cardinality(T \ {x}) = n
      BY <1>1, FS_RemoveElement
    <3> QED
      BY <3>1, <1>3
  <2> QED
    BY <2>1, <2>2
<1>4. Nat \subseteq N
  <2> HIDE DEF N
  <2> QED
    BY <1>2, <1>3, NatInduct
<1> QED
  BY <1>1, <1>4

-----------------------------------------------------------------------------
(* Sums over a finite set.                                                 *)

SumOver(f, S) == MapThenFoldSet(+, 0, LAMBDA x : f[x], LAMBDA s : CHOOSE x \in s : TRUE, S)

AnyOf(s) == CHOOSE x \in s : TRUE

Sums(iter, f, S) ==
  iter = [s \in SUBSET S |-> IF s = {} THEN 0 ELSE f[AnyOf(s)] + iter[s \ {AnyOf(s)}]]

\* The chosen member is one.
LEMMA AnyOfIn == ASSUME NEW s, s # {} PROVE AnyOf(s) \in s
  BY DEF AnyOf

\* The recursive function exists: CHOOSE does define it.
LEMMA SumsExist ==
  ASSUME NEW f, NEW S, IsFiniteSet(S)
  PROVE  \E iter : Sums(iter, f, S)
<1> DEFINE Small(n) == {s \in SUBSET S : Cardinality(s) <= n}
           Up(h, s) == IF s = {} THEN 0 ELSE f[AnyOf(s)] + h[s \ {AnyOf(s)}]
           N == {n \in Nat : \E h : h = [s \in Small(n) |-> Up(h, s)]}
<1>1. \A T \in SUBSET S : IsFiniteSet(T) /\ Cardinality(T) \in Nat
  BY FS_Subset, FS_CardinalityType
<1>2. 0 \in N
  <2>1. Small(0) = {{}}
    BY <1>1, FS_EmptySet
  <2>2. [s \in {{}} |-> 0] = [s \in Small(0) |-> Up([s_1 \in {{}} |-> 0], s)]
    BY <2>1
  <2> QED
    BY <2>2
<1>3. ASSUME NEW n \in Nat, n \in N PROVE n + 1 \in N
  <2>1. PICK h : h = [s \in Small(n) |-> Up(h, s)]
    BY <1>3
  <2> DEFINE g == [s \in Small(n + 1) |-> Up(h, s)]
  <2>2. ASSUME NEW s \in Small(n + 1), s # {} PROVE g[s \ {AnyOf(s)}] = h[s \ {AnyOf(s)}]
    <3>1. AnyOf(s) \in s
      BY <2>2, AnyOfIn
    <3>2. s \ {AnyOf(s)} \in Small(n)
      BY <1>1, <3>1, FS_RemoveElement
    <3>3. Small(n) \subseteq Small(n + 1)
      BY <1>1
    <3> HIDE DEF Small, Up
    <3> QED
      BY <3>2, <3>3, <2>1
  <2>3. \A s \in Small(n + 1) : Up(h, s) = Up(g, s)
    <3> HIDE DEF g, Small
    <3> QED
      BY <2>2
  <2>4. g = [s \in Small(n + 1) |-> Up(g, s)]
    BY <2>3
  <2> HIDE DEF g, Small, Up
  <2>5. \E e : e = [s \in Small(n + 1) |-> Up(e, s)]
    BY <2>4
  <2> QED
    BY <2>5
<1>4. Cardinality(S) \in N
  <2> HIDE DEF N
  <2> QED
    BY <1>1, <1>2, <1>3, NatInduct
<1>5. Small(Cardinality(S)) = SUBSET S
  BY <1>1, FS_Subset
<1> QED
  BY <1>4, <1>5 DEF Sums

\* Two such functions agree where what they add up does.
LEMMA SumsAgree ==
  ASSUME NEW S, IsFiniteSet(S), NEW T \in SUBSET S, NEW f, NEW e, \A x \in T : f[x] = e[x],
         NEW g, Sums(g, f, S), NEW h, Sums(h, e, T)
  PROVE  g[T] = h[T]
<1> DEFINE F == {t \in SUBSET T : g[t] = h[t]}
<1>1. IsFiniteSet(T)
  BY FS_Subset
<1>2. {} \in F
  BY DEF Sums
<1>3. ASSUME NEW t \in SUBSET T, t # {}, \A x \in t : t \ {x} \in F PROVE t \in F
  <2>1. AnyOf(t) \in t
    BY <1>3, AnyOfIn
  <2>2. g[t] = f[AnyOf(t)] + g[t \ {AnyOf(t)}]
    BY <1>3 DEF Sums
  <2>3. h[t] = e[AnyOf(t)] + h[t \ {AnyOf(t)}]
    BY <1>3 DEF Sums
  <2> QED
    BY <2>1, <2>2, <2>3, <1>3
<1>4. \A t \in SUBSET T : t \in F
  <2> HIDE DEF F
  <2> QED
    BY <1>1, <1>2, <1>3, SetInduct
<1> QED
  BY <1>4

\* The fold is that recursive function.
LEMMA SumOverDef ==
  ASSUME NEW f, NEW S, IsFiniteSet(S)
  PROVE  \E iter : Sums(iter, f, S) /\ SumOver(f, S) = iter[S]
<1> DEFINE iter == CHOOSE iter : Sums(iter, f, S)
<1>1. SumOver(f, S) = iter[S]
  BY DEF SumOver, MapThenFoldSet, Sums, AnyOf
<1>2. Sums(iter, f, S)
  BY SumsExist
<1> QED
  BY <1>1, <1>2

\* The sum depends on no more than the values on the set.
LEMMA SumSame ==
  ASSUME NEW S, IsFiniteSet(S), NEW f, NEW e, \A x \in S : f[x] = e[x]
  PROVE  SumOver(f, S) = SumOver(e, S)
<1>1. PICK g : Sums(g, f, S) /\ SumOver(f, S) = g[S]
  BY SumOverDef
<1>2. PICK h : Sums(h, e, S) /\ SumOver(e, S) = h[S]
  BY SumOverDef
<1>3. g[S] = h[S]
  BY <1>1, <1>2, SumsAgree
<1> QED
  BY <1>1, <1>2, <1>3

\* The sum over no elements.
LEMMA SumEmpty ==
  ASSUME NEW f
  PROVE  SumOver(f, {}) = 0
<1>1. IsFiniteSet({})
  BY FS_EmptySet
<1>2. PICK g : Sums(g, f, {}) /\ SumOver(f, {}) = g[{}]
  BY <1>1, SumOverDef
<1> QED
  BY <1>2 DEF Sums

\* The sum is the value of the chosen member and the sum of the others.
LEMMA SumStep ==
  ASSUME NEW S, IsFiniteSet(S), S # {}, NEW f
  PROVE  SumOver(f, S) = f[AnyOf(S)] + SumOver(f, S \ {AnyOf(S)})
<1> DEFINE T == S \ {AnyOf(S)}
<1>1. IsFiniteSet(T) /\ T \in SUBSET S
  BY FS_RemoveElement
<1>2. PICK g : Sums(g, f, S) /\ SumOver(f, S) = g[S]
  BY SumOverDef
<1>3. PICK h : Sums(h, f, T) /\ SumOver(f, T) = h[T]
  BY <1>1, SumOverDef
<1>4. g[T] = h[T]
  BY <1>1, <1>2, <1>3, SumsAgree
<1>5. g[S] = f[AnyOf(S)] + g[T]
  BY <1>2 DEF Sums
<1> QED
  BY <1>2, <1>3, <1>4, <1>5

\* A sum of naturals is one.
LEMMA SumNat ==
  ASSUME NEW S, IsFiniteSet(S), NEW f, \A x \in S : f[x] \in Nat
  PROVE  SumOver(f, S) \in Nat
<1> DEFINE F == {t \in SUBSET S : SumOver(f, t) \in Nat}
<1>1. {} \in F
  BY SumEmpty
<1>2. ASSUME NEW t \in SUBSET S, t # {}, \A x \in t : t \ {x} \in F PROVE t \in F
  <2>1. AnyOf(t) \in t /\ IsFiniteSet(t)
    BY <1>2, AnyOfIn, FS_Subset
  <2>2. SumOver(f, t) = f[AnyOf(t)] + SumOver(f, t \ {AnyOf(t)})
    BY <1>2, <2>1, SumStep
  <2> QED
    BY <2>1, <2>2, <1>2
<1> HIDE DEF F
<1>3. \A t \in SUBSET S : t \in F
  BY <1>1, <1>2, SetInduct
<1> QED
  BY <1>3 DEF F

\* Whichever member is taken out first.
LEMMA SumRemove ==
  ASSUME NEW S, IsFiniteSet(S), NEW f, \A x \in S : f[x] \in Nat, NEW x \in S
  PROVE  SumOver(f, S) = f[x] + SumOver(f, S \ {x})
<1> DEFINE F == {t \in SUBSET S : \A y \in t : SumOver(f, t) = f[y] + SumOver(f, t \ {y})}
<1>1. {} \in F
  OBVIOUS
<1>2. ASSUME NEW t \in SUBSET S, t # {}, \A y \in t : t \ {y} \in F PROVE t \in F
  <2> SUFFICES ASSUME NEW y \in t PROVE SumOver(f, t) = f[y] + SumOver(f, t \ {y})
    OBVIOUS
  <2> DEFINE c == AnyOf(t)
  <2>1. c \in t /\ IsFiniteSet(t)
    BY <1>2, AnyOfIn, FS_Subset
  <2>2. SumOver(f, t) = f[c] + SumOver(f, t \ {c})
    BY <1>2, <2>1, SumStep
  <2> HIDE DEF c
  <2>3. CASE y # c
    <3>1. SumOver(f, t \ {c}) = f[y] + SumOver(f, (t \ {c}) \ {y})
      BY <1>2, <2>1, <2>3
    <3>2. SumOver(f, t \ {y}) = f[c] + SumOver(f, (t \ {y}) \ {c})
      BY <1>2, <2>1, <2>3
    <3>3. (t \ {c}) \ {y} = (t \ {y}) \ {c}
      OBVIOUS
    <3>4. SumOver(f, (t \ {y}) \ {c}) \in Nat
      <4>1. IsFiniteSet((t \ {y}) \ {c})
        BY <2>1, FS_RemoveElement
      <4> QED
        BY <4>1, SumNat
    <3>5. f[c] \in Nat /\ f[y] \in Nat
      BY <2>1
    <3> QED
      BY <2>2, <3>1, <3>2, <3>3, <3>4, <3>5
  <2> QED
    BY <2>2, <2>3
<1> HIDE DEF F
<1>3. \A t \in SUBSET S : t \in F
  BY <1>1, <1>2, SetInduct
<1> QED
  BY <1>3 DEF F

\* The sum over a set is the sums over a part and over the rest.
LEMMA SumDifference ==
  ASSUME NEW S, IsFiniteSet(S), NEW f, \A x \in S : f[x] \in Nat, NEW T \in SUBSET S
  PROVE  SumOver(f, S) = SumOver(f, S \ T) + SumOver(f, T)
<1> DEFINE F == {t \in SUBSET T : SumOver(f, S) = SumOver(f, S \ t) + SumOver(f, t)}
<1>0. IsFiniteSet(T)
  BY FS_Subset
<1>1. {} \in F
  <2>1. SumOver(f, S) \in Nat /\ S \ {} = S
    BY SumNat
  <2> QED
    BY <2>1, SumEmpty
<1>2. ASSUME NEW t \in SUBSET T, t # {}, \A y \in t : t \ {y} \in F PROVE t \in F
  <2>1. PICK y \in t : TRUE
    BY <1>2
  <2>2. SumOver(f, S) = SumOver(f, S \ (t \ {y})) + SumOver(f, t \ {y})
    BY <1>2
  <2>3. IsFiniteSet(t) /\ IsFiniteSet(t \ {y}) /\ IsFiniteSet(S \ (t \ {y})) /\ IsFiniteSet(S \ t)
    BY <1>0, FS_Subset
  <2>4. (S \ (t \ {y})) \ {y} = S \ t /\ y \in S \ (t \ {y}) /\ y \in S
    BY <2>1
  <2>5. SumOver(f, S \ (t \ {y})) = f[y] + SumOver(f, S \ t)
    BY <2>3, <2>4, SumRemove
  <2>6. SumOver(f, t) = f[y] + SumOver(f, t \ {y})
    BY <2>3, <2>1, SumRemove
  <2>7. SumOver(f, S \ t) \in Nat /\ SumOver(f, t \ {y}) \in Nat /\ f[y] \in Nat
    BY <2>3, <2>4, SumNat
  <2> QED
    BY <2>2, <2>5, <2>6, <2>7
<1> HIDE DEF F
<1>3. \A t \in SUBSET T : t \in F
  BY <1>0, <1>1, <1>2, SetInduct
<1> QED
  BY <1>3 DEF F
-----------------------------------------------------------------------------
(* Sums over a sequence.                                                   *)

SeqSum(q) == FoldSeq(+, 0, q)

\* The sum of a sequence is the sum over its positions.
LEMMA SeqSumDef ==
  ASSUME NEW q \in Seq(Nat)
  PROVE  /\ SeqSum(q) = SumOver(q, 1 .. Len(q))
         /\ IsFiniteSet(1 .. Len(q)) /\ \A i \in 1 .. Len(q) : q[i] \in Nat
<1>1. DOMAIN q = 1 .. Len(q) /\ Len(q) \in Nat
  OBVIOUS
<1>2. SeqSum(q) = SumOver(q, DOMAIN q)
  BY DEF SeqSum, FoldSeq, FoldFunction, FoldFunctionOnSet, SumOver
<1>3. IsFiniteSet(1 .. Len(q))
  BY <1>1, FS_Interval
<1> QED
  BY <1>1, <1>2, <1>3

\* The sum of a sequence of naturals is one.
LEMMA SeqSumNat == ASSUME NEW q \in Seq(Nat) PROVE SeqSum(q) \in Nat
  BY SeqSumDef, SumNat

\* The empty sequence sums to zero.
LEMMA SeqSumEmpty == SeqSum(<<>>) = 0
<1>1. <<>> \in Seq(Nat) /\ 1 .. Len(<<>>) = {}
  OBVIOUS
<1> QED
  BY <1>1, SeqSumDef, SumEmpty

\* An element appended adds its value.
LEMMA SeqSumAppend ==
  ASSUME NEW q \in Seq(Nat), NEW x \in Nat
  PROVE  SeqSum(Append(q, x)) = SeqSum(q) + x
<1> DEFINE r == Append(q, x)
           n == Len(q) + 1
<1>1. r \in Seq(Nat) /\ Len(r) = n /\ n \in 1 .. Len(r) /\ r[n] = x
      /\ \A i \in 1 .. Len(q) : r[i] = q[i]
  BY AppendProperties
<1>2. (1 .. Len(r)) \ {n} = 1 .. Len(q)
  BY <1>1
<1> HIDE DEF r, n
<1>3. SumOver(r, 1 .. Len(r)) = r[n] + SumOver(r, (1 .. Len(r)) \ {n})
  BY <1>1, SeqSumDef, SumRemove
<1>4. SumOver(r, 1 .. Len(q)) = SumOver(q, 1 .. Len(q))
  BY <1>1, SeqSumDef, SumSame
<1>5. SeqSum(r) = SumOver(r, 1 .. Len(r)) /\ SeqSum(q) = SumOver(q, 1 .. Len(q)) /\ SeqSum(q) \in Nat
  BY <1>1, SeqSumDef, SeqSumNat
<1>6. SumOver(r, (1 .. Len(r)) \ {n}) = SeqSum(q)
  BY <1>2, <1>4, <1>5, Zenon
<1>7. SeqSum(r) = x + SeqSum(q)
  BY <1>1, <1>3, <1>5, <1>6, Zenon
<1> QED
  BY <1>5, <1>7 DEF r

\* The sums of two sequences are that of their concatenation.
LEMMA SeqSumConcat ==
  ASSUME NEW p \in Seq(Nat), NEW q \in Seq(Nat)
  PROVE  SeqSum(p \o q) = SeqSum(p) + SeqSum(q)
<1> DEFINE N == {n \in Nat : \A r \in Seq(Nat) : Len(r) = n => SeqSum(p \o r) = SeqSum(p) + SeqSum(r)}
<1>1. 0 \in N
  <2> SUFFICES ASSUME NEW r \in Seq(Nat), Len(r) = 0 PROVE SeqSum(p \o r) = SeqSum(p) + SeqSum(r)
    OBVIOUS
  <2>1. r = <<>> /\ p \o r = p
    BY ConcatEmptySeq
  <2> QED
    BY <2>1, SeqSumEmpty, SeqSumNat
<1>2. ASSUME NEW n \in Nat, n \in N PROVE n + 1 \in N
  <2> SUFFICES ASSUME NEW r \in Seq(Nat), Len(r) = n + 1 PROVE SeqSum(p \o r) = SeqSum(p) + SeqSum(r)
    OBVIOUS
  <2>1. r # <<>>
    OBVIOUS
  <2>2. PICK s \in Seq(Nat), x \in Nat : r = Append(s, x)
    BY <2>1, SequenceEmptyOrAppend
  <2>3. Len(s) = n
    BY <2>2, AppendProperties
  <2>4. p \o r = Append(p \o s, x) /\ p \o s \in Seq(Nat)
    <3>1. r = s \o <<x>> /\ <<x>> \in Seq(Nat)
      BY <2>2, AppendIsConcat
    <3>2. p \o s \in Seq(Nat) /\ Append(p \o s, x) = (p \o s) \o <<x>>
      BY ConcatProperties, AppendIsConcat
    <3> QED
      BY <3>1, <3>2, ConcatAssociative
  <2>5. SeqSum(p \o s) = SeqSum(p) + SeqSum(s)
    BY <2>3, <1>2
  <2>6. SeqSum(p \o r) = SeqSum(p \o s) + x
    BY <2>4, SeqSumAppend, Zenon
  <2>7. SeqSum(r) = SeqSum(s) + x
    BY <2>2, SeqSumAppend, Zenon
  <2>8. SeqSum(p) \in Nat /\ SeqSum(s) \in Nat
    BY SeqSumNat
  <2> QED
    BY <2>5, <2>6, <2>7, <2>8
<1> HIDE DEF N
<1>3. Nat \subseteq N
  BY <1>1, <1>2, NatInduct
<1>4. Len(q) \in N
  BY <1>3
<1> QED
  BY <1>4 DEF N

\* The head taken away takes its value from the sum.
LEMMA SeqSumTail ==
  ASSUME NEW q \in Seq(Nat), q # <<>>
  PROVE  Head(q) \in Nat /\ Tail(q) \in Seq(Nat) /\ SeqSum(q) = Head(q) + SeqSum(Tail(q))
<1>1. Head(q) \in Nat /\ Tail(q) \in Seq(Nat)
  OBVIOUS
<1>2. <<>> \in Seq(Nat) /\ Append(<<>>, Head(q)) = <<Head(q)>> /\ <<Head(q)>> \in Seq(Nat)
  BY <1>1
<1>3. q = <<Head(q)>> \o Tail(q)
  BY <1>1
<1>4. SeqSum(<<Head(q)>>) = Head(q)
  <2>1. SeqSum(Append(<<>>, Head(q))) = SeqSum(<<>>) + Head(q)
    BY <1>1, <1>2, SeqSumAppend
  <2> QED
    BY <1>1, <1>2, <2>1, SeqSumEmpty
<1>5. SeqSum(<<Head(q)>> \o Tail(q)) = SeqSum(<<Head(q)>>) + SeqSum(Tail(q))
  BY <1>1, <1>2, SeqSumConcat
<1> QED
  BY <1>1, <1>3, <1>4, <1>5
-----------------------------------------------------------------------------
(* The elements of a sequence that belong to a set.                        *)

Distinct(q) == \A i, j \in DOMAIN q : q[i] = q[j] => i = j

Picked(q, A) == FoldLeft(LAMBDA r, x : IF x \in A THEN Append(r, x) ELSE r, <<>>, q)

Picks(iter, q, A) ==
  iter = [s \in SUBSET (DOMAIN q) |->
            IF s = {} THEN <<>>
            ELSE IF q[Max(s)] \in A THEN Append(iter[s \ {Max(s)}], q[Max(s)])
                 ELSE iter[s \ {Max(s)}]]

\* A member no smaller than any is the maximum.
LEMMA MaxIs ==
  ASSUME NEW S, NEW m \in S, S \subseteq Int, \A x \in S : x <= m
  PROVE  Max(S) = m
<1>1. \A x \in S : m >= x
  OBVIOUS
<1>2. ASSUME NEW y \in S, \A x \in S : y >= x PROVE y = m
  <2>1. y >= m /\ m >= y /\ y \in Int /\ m \in Int
    BY <1>1, <1>2
  <2> QED
    BY <2>1
<1> QED
  BY <1>1, <1>2, Zenon DEF Max

\* A set of positions has its maximum.
LEMMA MaxIn ==
  ASSUME NEW n \in Nat, NEW S \in SUBSET (1 .. n), S # {}
  PROVE  Max(S) \in S /\ \A x \in S : x <= Max(S)
<1> DEFINE F == {t \in SUBSET (1 .. n) : t # {} => \E m \in t : \A x \in t : x <= m}
<1>1. IsFiniteSet(1 .. n)
  BY FS_Interval
<1>2. {} \in F
  OBVIOUS
<1>3. ASSUME NEW t \in SUBSET (1 .. n), t # {}, \A y \in t : t \ {y} \in F PROVE t \in F
  <2>1. PICK y \in t : TRUE
    BY <1>3
  <2>2. CASE t \ {y} = {}
    BY <2>1, <2>2
  <2>3. CASE t \ {y} # {}
    <3>1. PICK m \in t \ {y} : \A x \in t \ {y} : x <= m
      BY <2>3, <1>3
    <3>2. m \in Int /\ y \in Int
      BY <3>1, <2>1
    <3>3. CASE m <= y
      <4>1. \A x \in t : x <= y
        BY <3>1, <3>2, <3>3
      <4> QED
        BY <4>1
    <3>4. CASE y <= m
      <4>1. \A x \in t : x <= m
        BY <3>1, <3>2, <3>4
      <4> QED
        BY <4>1, <3>1
    <3> QED
      BY <3>2, <3>3, <3>4
  <2> QED
    BY <2>2, <2>3
<1> HIDE DEF F
<1>4. \A t \in SUBSET (1 .. n) : t \in F
  BY <1>1, <1>2, <1>3, SetInduct
<1>5. PICK m \in S : \A x \in S : x <= m
  BY <1>4 DEF F
<1>6. Max(S) = m
  <2>1. S \subseteq Int
    OBVIOUS
  <2> QED
    BY <1>5, <2>1, MaxIs
<1> QED
  BY <1>5, <1>6

\* The recursive function exists: CHOOSE does define it.
LEMMA PicksExist ==
  ASSUME NEW T, NEW q \in Seq(T), NEW A
  PROVE  \E iter : Picks(iter, q, A)
<1> DEFINE D == DOMAIN q
           Small(n) == {s \in SUBSET D : Cardinality(s) <= n}
           Up(h, s) == IF s = {} THEN <<>>
                       ELSE IF q[Max(s)] \in A THEN Append(h[s \ {Max(s)}], q[Max(s)])
                            ELSE h[s \ {Max(s)}]
           N == {n \in Nat : \E h : h = [s \in Small(n) |-> Up(h, s)]}
<1>0. D = 1 .. Len(q) /\ Len(q) \in Nat /\ IsFiniteSet(D)
  BY FS_Interval
<1>1. \A s \in SUBSET D : IsFiniteSet(s) /\ Cardinality(s) \in Nat
  BY <1>0, FS_Subset, FS_CardinalityType
<1>2. 0 \in N
  <2>1. Small(0) = {{}}
    BY <1>1, FS_EmptySet
  <2>2. [s \in {{}} |-> <<>>] = [s \in Small(0) |-> Up([s_1 \in {{}} |-> <<>>], s)]
    BY <2>1
  <2> QED
    BY <2>2
<1>3. ASSUME NEW n \in Nat, n \in N PROVE n + 1 \in N
  <2>1. PICK h : h = [s \in Small(n) |-> Up(h, s)]
    BY <1>3
  <2> DEFINE g == [s \in Small(n + 1) |-> Up(h, s)]
  <2>2. ASSUME NEW s \in Small(n + 1), s # {} PROVE g[s \ {Max(s)}] = h[s \ {Max(s)}]
    <3>1. Max(s) \in s
      BY <1>0, <2>2, MaxIn
    <3>2. s \ {Max(s)} \in Small(n)
      BY <1>1, <3>1, FS_RemoveElement
    <3>3. Small(n) \subseteq Small(n + 1)
      BY <1>1
    <3> HIDE DEF Small, Up
    <3> QED
      BY <3>2, <3>3, <2>1
  <2>3. \A s \in Small(n + 1) : Up(h, s) = Up(g, s)
    <3> HIDE DEF g, Small
    <3> QED
      BY <2>2
  <2>4. g = [s \in Small(n + 1) |-> Up(g, s)]
    BY <2>3
  <2> HIDE DEF g, Small, Up
  <2>5. \E e : e = [s \in Small(n + 1) |-> Up(e, s)]
    BY <2>4
  <2> QED
    BY <2>5
<1>4. Cardinality(D) \in N
  <2> HIDE DEF N
  <2> QED
    BY <1>1, <1>2, <1>3, NatInduct
<1>5. Small(Cardinality(D)) = SUBSET D
  BY <1>0, <1>1, FS_Subset
<1> QED
  BY <1>4, <1>5 DEF Picks

\* What is picked is what belongs to the set, once each where the sequence has
\* no repetition.
LEMMA PickedFacts ==
  ASSUME NEW T, NEW q \in Seq(T), NEW A
  PROVE  /\ Picked(q, A) \in Seq(T) /\ ToSet(Picked(q, A)) = ToSet(q) \cap A
         /\ Distinct(q) => Distinct(Picked(q, A))
<1> DEFINE iter == CHOOSE iter : Picks(iter, q, A)
           P(k) == {q[i] : i \in 1 .. k}
           Inj(s) == \A i, j \in DOMAIN s : s[i] = s[j] => i = j
           Good(k, s) == /\ s \in Seq(T) /\ ToSet(s) = P(k) \cap A
                         /\ Inj(q) => Inj(s)
           N == {k \in Nat : k <= Len(q) => Good(k, iter[1 .. k])}
<1>0. DOMAIN q = 1 .. Len(q) /\ Len(q) \in Nat
  OBVIOUS
<1>1. Picked(q, A) = iter[DOMAIN q]
  BY DEF Picked, FoldLeft, MapThenFoldSet, Picks
<1>2. Picks(iter, q, A)
  BY PicksExist
<1> HIDE DEF iter
<1>3. 0 \in N
  <2>1. 1 .. 0 = {} /\ iter[{}] = <<>>
    BY <1>2 DEF Picks
  <2>2. Good(0, <<>>)
    BY DEF ToSet
  <2> QED
    BY <2>1, <2>2
<1>4. ASSUME NEW k \in Nat, k \in N PROVE k + 1 \in N
  <2> SUFFICES ASSUME k + 1 <= Len(q) PROVE Good(k + 1, iter[1 .. (k + 1)])
    OBVIOUS
  <2> DEFINE s == iter[1 .. k]
             x == q[k + 1]
  <2>1. Good(k, s)
    BY <1>4, <1>0
  <2>2. Max(1 .. (k + 1)) = k + 1
    <3>1. k + 1 \in 1 .. (k + 1) /\ 1 .. (k + 1) \subseteq Int /\ \A i \in 1 .. (k + 1) : i <= k + 1
      OBVIOUS
    <3> QED
      BY <3>1, MaxIs
  <2>3. (1 .. (k + 1)) \ {k + 1} = 1 .. k /\ 1 .. (k + 1) \in SUBSET (DOMAIN q) /\ 1 .. (k + 1) # {}
    <3>1. (1 .. (k + 1)) \ {k + 1} = 1 .. k
      OBVIOUS
    <3>2. 1 .. (k + 1) \in SUBSET (DOMAIN q)
      BY <1>0
    <3>3. k + 1 \in 1 .. (k + 1)
      OBVIOUS
    <3> QED
      BY <3>1, <3>2, <3>3
  <2>4. iter[1 .. (k + 1)] = IF x \in A THEN Append(s, x) ELSE s
    BY <1>2, <2>2, <2>3 DEF Picks
  <2>5. P(k + 1) = P(k) \cup {x} /\ x \in T
    BY <1>0
  <2>6. Inj(q) => x \notin P(k)
    BY <1>0
  <2> HIDE DEF P, s, x
  <2>7. CASE x \notin A
    BY <2>1, <2>4, <2>5, <2>7
  <2>8. CASE x \in A
    <3>1. /\ Append(s, x) \in Seq(T) /\ Len(Append(s, x)) = Len(s) + 1
          /\ DOMAIN Append(s, x) = 1 .. Len(s) + 1 /\ DOMAIN s = 1 .. Len(s) /\ Len(s) \in Nat
          /\ \A i \in 1 .. Len(s) : Append(s, x)[i] = s[i]
          /\ Append(s, x)[Len(s) + 1] = x
      BY <2>1, <2>5, AppendProperties
    <3>2. ToSet(Append(s, x)) = ToSet(s) \cup {x}
      BY <3>1 DEF ToSet
    <3>3. ASSUME Inj(q) PROVE Inj(Append(s, x))
      <4>1. x \notin ToSet(s)
        BY <3>3, <2>6, <2>1
      <4>2. \A i \in 1 .. Len(s) : s[i] # x
        BY <4>1, <3>1 DEF ToSet
      <4>3. Inj(s)
        BY <2>1, <3>3
      <4> QED
        BY <3>1, <4>2, <4>3
    <3> QED
      BY <2>1, <2>4, <2>5, <2>8, <3>1, <3>2, <3>3
  <2> QED
    BY <2>7, <2>8
<1>5. Nat \subseteq N
  <2> HIDE DEF N
  <2> QED
    BY <1>3, <1>4, NatInduct
<1>6. Good(Len(q), iter[1 .. Len(q)])
  <2>1. Len(q) \in N
    BY <1>5, <1>0
  <2> HIDE DEF Good
  <2> QED
    BY <2>1, <1>0
<1>7. ToSet(q) = P(Len(q))
  BY <1>0 DEF ToSet
<1> QED
  BY <1>0, <1>1, <1>6, <1>7 DEF Distinct

\* A sequence without repetition is as long as its elements are many.
LEMMA SeqCount ==
  ASSUME NEW T, NEW q \in Seq(T)
  PROVE  /\ IsFiniteSet(ToSet(q))
         /\ Len(q) = Cardinality(ToSet(q)) <=> Distinct(q)
<1> DEFINE I == 1 .. Len(q)
<1>1. DOMAIN q = I /\ Len(q) \in Nat
  OBVIOUS
<1>2. IsFiniteSet(I) /\ Cardinality(I) = Len(q)
  BY <1>1, FS_Interval
<1>3. q \in Surjection(I, ToSet(q))
  BY <1>1 DEF Surjection, ToSet
<1>4. /\ IsFiniteSet(ToSet(q))
      /\ Cardinality(ToSet(q)) = Cardinality(I) <=> q \in Injection(I, ToSet(q))
  BY <1>2, <1>3, FS_Surjection
<1>5. q \in [I -> ToSet(q)]
  BY <1>3 DEF Surjection
<1>6. q \in Injection(I, ToSet(q)) <=> Distinct(q)
  BY <1>1, <1>5 DEF Injection, IsInjective, Distinct
<1> QED
  BY <1>2, <1>4, <1>6

\* The maximum of two numbers.
LEMMA MaxOfTwo ==
  ASSUME NEW a \in Int, NEW b \in Int
  PROVE  Max({a, b}) = IF a <= b THEN b ELSE a
<1>1. CASE a <= b
  <2>1. b \in {a, b} /\ {a, b} \subseteq Int /\ \A x \in {a, b} : x <= b
    BY <1>1
  <2> QED
    BY <1>1, <2>1, MaxIs
<1>2. CASE ~(a <= b)
  <2>1. a \in {a, b} /\ {a, b} \subseteq Int /\ \A x \in {a, b} : x <= a
    BY <1>2
  <2> QED
    BY <1>2, <2>1, MaxIs
<1> QED
  BY <1>1, <1>2

\* A member no larger than any is the minimum.
LEMMA MinIs ==
  ASSUME NEW S, NEW m \in S, S \subseteq Int, \A x \in S : m <= x
  PROVE  Min(S) = m
<1>1. ASSUME NEW y \in S, \A x \in S : y <= x PROVE y = m
  <2>1. y >= m /\ m >= y /\ y \in Int /\ m \in Int
    BY <1>1
  <2> QED
    BY <2>1
<1> QED
  BY <1>1, Zenon DEF Min

\* The minimum of two numbers.
LEMMA MinOfTwo ==
  ASSUME NEW a \in Int, NEW b \in Int
  PROVE  Min({a, b}) = IF a <= b THEN a ELSE b
<1>1. CASE a <= b
  <2>1. a \in {a, b} /\ {a, b} \subseteq Int /\ \A x \in {a, b} : a <= x
    BY <1>1
  <2> QED
    BY <1>1, <2>1, MinIs
<1>2. CASE ~(a <= b)
  <2>1. b \in {a, b} /\ {a, b} \subseteq Int /\ \A x \in {a, b} : b <= x
    BY <1>2
  <2> QED
    BY <1>2, <2>1, MinIs
<1> QED
  BY <1>1, <1>2

\* A set of naturals has its minimum.
LEMMA MinIn ==
  ASSUME NEW S \in SUBSET Nat, S # {}
  PROVE  Min(S) \in S /\ \A x \in S : Min(S) <= x
<1> DEFINE N == {n \in Nat : \A x \in S : n <= x}
<1>1. ~(Nat \subseteq N)
  <2>1. PICK x \in S : TRUE
    OBVIOUS
  <2>2. x + 1 \in Nat /\ x + 1 \notin N
    BY <2>1
  <2> QED
    BY <2>2
<1>2. 0 \in N
  OBVIOUS
<1> HIDE DEF N
<1>3. PICK n \in Nat : n \in N /\ n + 1 \notin N
  BY <1>1, <1>2, NatInduct
<1>4. PICK x \in S : ~(n + 1 <= x)
  BY <1>3 DEF N
<1>5. n \in S /\ \A y \in S : n <= y
  <2>1. \A y \in S : n <= y
    BY <1>3 DEF N
  <2>2. n <= x /\ x \in Nat
    BY <2>1
  <2>3. x = n
    BY <2>2, <1>4
  <2> QED
    BY <2>1, <2>3
<1>6. S \subseteq Int
  OBVIOUS
<1>7. Min(S) = n
  BY <1>5, <1>6, MinIs
<1> QED
  BY <1>5, <1>7

\* A new element appended repeats nothing.
LEMMA AppendDistinct ==
  ASSUME NEW T, NEW q \in Seq(T), Distinct(q), NEW x \in T, x \notin ToSet(q)
  PROVE  /\ Append(q, x) \in Seq(T) /\ Distinct(Append(q, x))
         /\ ToSet(Append(q, x)) = ToSet(q) \cup {x}
<1> DEFINE r == Append(q, x)
<1>1. /\ r \in Seq(T) /\ DOMAIN r = 1 .. Len(q) + 1 /\ DOMAIN q = 1 .. Len(q) /\ Len(q) \in Nat
      /\ \A i \in 1 .. Len(q) : r[i] = q[i]
      /\ r[Len(q) + 1] = x
  BY AppendProperties
<1>2. \A i \in 1 .. Len(q) : q[i] # x
  BY <1>1 DEF ToSet
<1> HIDE DEF r
<1>3. Distinct(r)
  BY <1>1, <1>2 DEF Distinct
<1>4. ToSet(r) = ToSet(q) \cup {x}
  BY <1>1 DEF ToSet
<1> QED
  BY <1>1, <1>3, <1>4 DEF r
=============================================================================
