--------------------------- MODULE SequenceLemmas ---------------------------
(***************************************************************************)
(* Facts about queues that the proofs of the transport cite, and induction *)
(* over the naturals in a form without an operator as its parameter: the   *)
(* set of naturals up to n, closed under successor, is a set.              *)
(***************************************************************************)
EXTENDS Integers, Sequences, Functions, SequenceTheorems, WellFoundedInduction, TLAPS

\* No element stands in a queue twice.
Distinct(s) == \A i, j \in DOMAIN s : s[i] = s[j] => i = j

LEMMA HeadTail ==
  ASSUME NEW S, NEW s \in Seq(S), s # <<>>
  PROVE  /\ 1 \in DOMAIN s /\ Head(s) = s[1] /\ Head(s) \in S
         /\ Tail(s) \in Seq(S)
         /\ \A i \in DOMAIN Tail(s) :
              i # 0 /\ i + 1 # 1 /\ i + 1 \in DOMAIN s /\ Tail(s)[i] = s[i + 1]
BY HeadTailProperties, SMT

LEMMA TailDistinct ==
  ASSUME NEW S, NEW s \in Seq(S), s # <<>>, Distinct(s)
  PROVE  Distinct(Tail(s)) /\ \A i \in DOMAIN Tail(s) : Tail(s)[i] # Head(s)
<1>1. \A i \in DOMAIN Tail(s) : i \in Nat
  BY HeadTail, SMT
<1> QED
  BY <1>1, HeadTail, SMT DEF Distinct

LEMMA AppendDistinct ==
  ASSUME NEW S, NEW s \in Seq(S), Distinct(s), NEW e \in S, \A i \in DOMAIN s : s[i] # e
  PROVE  Distinct(Append(s, e))
BY AppendProperties, SMT DEF Distinct

\* What is left of a sequence when its i-th element leaves it.
LeftOut(s, i) == [j \in 1..(Len(s) - 1) |-> IF j < i THEN s[j] ELSE s[j + 1]]

LEMMA LeaveOut ==
  ASSUME NEW S, NEW s \in Seq(S), NEW i \in DOMAIN s
  PROVE  /\ LeftOut(s, i) \in Seq(S)
         /\ \A j \in DOMAIN LeftOut(s, i) : \E k \in DOMAIN s : LeftOut(s, i)[j] = s[k]
         /\ Distinct(s) => Distinct(LeftOut(s, i))
<1> DEFINE t == LeftOut(s, i)
<1>1. Len(s) \in Nat /\ DOMAIN s = 1..Len(s) /\ i \in 1..Len(s)
  BY LenProperties
<1>2. \A j \in 1..(Len(s) - 1) : j \in 1..Len(s) /\ j + 1 \in 1..Len(s)
  BY <1>1
<1>3. t \in [1..(Len(s) - 1) -> S]
  BY <1>1, <1>2, ElementOfSeq DEF LeftOut
<1>4. t \in Seq(S)
  BY <1>1, <1>3, SMT
<1>5. DOMAIN t = 1..(Len(s) - 1)
  BY DEF LeftOut
<1>6. \A j \in DOMAIN t : \E k \in DOMAIN s :
        t[j] = s[k] /\ k = IF j < i THEN j ELSE j + 1
  BY <1>1, <1>2, <1>5 DEF LeftOut
<1>7. Distinct(s) => Distinct(t)
  BY <1>1, <1>5, <1>6 DEF Distinct
<1> QED
  BY <1>4, <1>6, <1>7

LEMMA RangeEmpty == Range(<<>>) = {} /\ Distinct(<<>>)
BY DEF Range, Distinct

LEMMA InRange == ASSUME NEW s, NEW x PROVE x \in Range(s) <=> \E i \in DOMAIN s : s[i] = x
BY DEF Range

LEMMA RangeHeadTail ==
  ASSUME NEW S, NEW s \in Seq(S), s # <<>>, Distinct(s)
  PROVE  Range(Tail(s)) = Range(s) \ {Head(s)} /\ Head(s) \in Range(s)
<1>1. \A i \in DOMAIN s : i # 1 => i - 1 \in DOMAIN Tail(s) /\ Tail(s)[i - 1] = s[i]
  BY HeadTailProperties, SMT
<1>2. \A i \in DOMAIN Tail(s) : i + 1 \in DOMAIN s /\ Tail(s)[i] = s[i + 1] /\ Tail(s)[i] # Head(s)
  BY HeadTail, TailDistinct
<1>3. 1 \in DOMAIN s /\ s[1] = Head(s)
  BY HeadTail
<1>4. ASSUME NEW x \in Range(Tail(s)) PROVE x \in Range(s) /\ x # Head(s)
  <2>1. PICK i \in DOMAIN Tail(s) : Tail(s)[i] = x
    BY <1>4, InRange
  <2> QED
    BY <1>2, <2>1, InRange
<1>5. ASSUME NEW x \in Range(s), x # Head(s) PROVE x \in Range(Tail(s))
  <2>1. PICK i \in DOMAIN s : s[i] = x
    BY <1>5, InRange
  <2> QED
    BY <1>1, <1>3, <1>5, <2>1, InRange
<1>6. Head(s) \in Range(s)
  BY <1>3, InRange
<1> QED
  BY <1>4, <1>5, <1>6

LEMMA RangeAppend ==
  ASSUME NEW S, NEW s \in Seq(S), NEW e \in S
  PROVE  Range(Append(s, e)) = Range(s) \cup {e}
<1> DEFINE t == Append(s, e)
<1>0. /\ Len(s) \in Nat /\ DOMAIN s = 1..Len(s)
      /\ t \in Seq(S) /\ Len(t) = Len(s) + 1 /\ t[Len(s) + 1] = e
      /\ \A i \in 1..Len(s) : t[i] = s[i]
  <2>1. Len(s) \in Nat /\ DOMAIN s = 1..Len(s)
    BY LenProperties
  <2>2. t \in Seq(S) /\ Len(t) = Len(s) + 1
    BY AppendProperties
  <2>3. t[Len(s) + 1] = e /\ \A i \in 1..Len(s) : t[i] = s[i]
    BY AppendProperties
  <2> HIDE DEF t
  <2> QED
    BY <2>1, <2>2, <2>3
<1>1. /\ \A i \in DOMAIN s : i \in DOMAIN t /\ t[i] = s[i]
      /\ Len(s) + 1 \in DOMAIN t /\ t[Len(s) + 1] = e
      /\ \A i \in DOMAIN t : i \in DOMAIN s \/ i = Len(s) + 1
  <2>1. DOMAIN t = 1..(Len(s) + 1)
    BY <1>0, LenProperties
  <2> HIDE DEF t
  <2> QED
    BY <1>0, <2>1
<1> HIDE DEF t
<1> QED
  BY <1>1 DEF Range

\* An element that is put before the others.
LEMMA PutFirst ==
  ASSUME NEW S, NEW s \in Seq(S), NEW e \in S, e \notin Range(s), Distinct(s)
  PROVE  /\ <<e>> \o s \in Seq(S) /\ Distinct(<<e>> \o s)
         /\ Range(<<e>> \o s) = {e} \cup Range(s)
<1> DEFINE t == <<e>> \o s
<1>1. <<e>> \in Seq(S) /\ Len(<<e>>) = 1 /\ <<e>>[1] = e /\ Len(s) \in Nat /\ DOMAIN s = 1..Len(s)
  BY LenProperties
<1>2. t \in Seq(S) /\ DOMAIN t = 1..(Len(s) + 1) /\ t[1] = e
  BY <1>1, ConcatProperties, LenProperties
<1>3. \A i \in DOMAIN s : i + 1 \in DOMAIN t /\ t[i + 1] = s[i]
  BY <1>1, <1>2, ConcatProperties
<1>4. \A i \in DOMAIN t : i = 1 \/ (i - 1 \in DOMAIN s /\ t[i] = s[i - 1])
  BY <1>1, <1>2, ConcatProperties
<1> HIDE DEF t
<1>5. Range(t) = {e} \cup Range(s)
  <2>1. 1 \in DOMAIN t
    BY <1>1, <1>2
  <2>2. ASSUME NEW x \in Range(t) PROVE x = e \/ x \in Range(s)
    <3>1. PICK i \in DOMAIN t : t[i] = x
      BY <2>2, InRange
    <3> QED
      BY <1>2, <1>4, <3>1, InRange
  <2>3. ASSUME NEW x \in Range(s) PROVE x \in Range(t)
    <3>1. PICK i \in DOMAIN s : s[i] = x
      BY <2>3, InRange
    <3> QED
      BY <1>3, <3>1, InRange
  <2>4. e \in Range(t)
    BY <1>2, <2>1, InRange
  <2> QED
    BY <2>2, <2>3, <2>4
<1>6. Distinct(t)
  <2> SUFFICES ASSUME NEW i \in DOMAIN t, NEW j \in DOMAIN t, t[i] = t[j] PROVE i = j
    BY DEF Distinct
  <2>1. i \in Nat /\ j \in Nat
    BY <1>2
  <2>2. \A k \in DOMAIN s : s[k] # e
    BY DEF Range
  <2>6. \A k \in DOMAIN t : t[k] = e => k = 1
    BY <1>4, <2>2
  <2>3. CASE i = 1
    <3>1. t[j] = e
      BY <1>2, <2>3
    <3> QED
      BY <2>3, <2>6, <3>1
  <2>4. CASE j = 1
    <3>1. t[i] = e
      BY <1>2, <2>4
    <3> QED
      BY <2>4, <2>6, <3>1
  <2>5. CASE i # 1 /\ j # 1
    BY <1>4, <2>1, <2>5 DEF Distinct
  <2> QED
    BY <2>3, <2>4, <2>5
<1> QED
  BY <1>2, <1>5, <1>6 DEF t

-----------------------------------------------------------------------------
\* The order of the naturals is well founded: a set of them has a least element.
LEMMA LeastNat == ASSUME NEW T, T \subseteq Nat, T # {} PROVE \E n \in T : \A m \in T : n <= m
<1> DEFINE R == {ss \in Nat \X Nat : ss[1] < ss[2]}
<1>0. R = OpToRel(<, Nat)
  BY DEF OpToRel
<1>1. IsWellFoundedOn(R, Nat)
  BY <1>0, NatLessThanWellFounded
<1>2. \E x \in T : \A y \in T : ~ (<<y, x>> \in R)
  <2> HIDE DEF R
  <2> QED
    BY <1>1, WFMin
<1>3. PICK x \in T : \A y \in T : ~ (<<y, x>> \in R)
  BY <1>2
<1>4. ASSUME NEW y \in T PROVE x <= y
  <2>1. y \in Nat /\ x \in Nat
    OBVIOUS
  <2>2. ~(y < x)
    BY <1>3, <2>1
  <2> QED
    BY <2>1, <2>2
<1> QED
  BY <1>4

\* Induction up to n, for membership in a set.
LEMMA UpTo == ASSUME NEW T, 0 \in T, NEW n \in Nat, \A k \in 0..(n - 1) : k \in T => k + 1 \in T
                PROVE \A k \in 0..n : k \in T
<1> DEFINE B == {k \in 0..n : k \notin T}
<1> SUFFICES ASSUME B # {} PROVE FALSE
  OBVIOUS
<1>1. PICK k \in B : \A m \in B : k <= m
  <2>1. B \subseteq Nat
    OBVIOUS
  <2> HIDE DEF B
  <2> QED
    BY <2>1, LeastNat
<1>2. k # 0 /\ k - 1 \in 0..(n - 1) /\ k - 1 \notin B
  BY <1>1
<1> QED
  BY <1>1, <1>2
=============================================================================
