-------------------------- MODULE CollectionLemmas --------------------------
(***************************************************************************)
(* Facts about finite sets of numbers, about the operator OnlyIn and about *)
(* sequences, for the proofs about knowledgebases and learners.            *)
(***************************************************************************)
EXTENDS KnowledgebaseTree, FiniteSetTheorems, SequenceTheorems,
        WellFoundedInduction, TLAPS

(***************************************************************************)
(* A finite non-empty set of integers has a largest element, which is what *)
(* Max returns: largest_symbol and the reloaded clock are such maxima.     *)
(***************************************************************************)
LEMMA FiniteSetHasMax ==
    ASSUME NEW S, S \subseteq Int, IsFiniteSet(S), S # {}
    PROVE  /\ \E x \in S : \A y \in S : x >= y
           /\ Max(S) \in S
           /\ \A y \in S : Max(S) >= y
<1> DEFINE HasMax(T) == \E x \in T : \A y \in T : x >= y
           Bad == {T \in FiniteSubsetsOf(S) : T # {} /\ ~HasMax(T)}
<1>1. HasMax(S)
  <2> SUFFICES ASSUME ~HasMax(S) PROVE FALSE
    OBVIOUS
  <2>1. S \in Bad
    BY DEF FiniteSubsetsOf
  <2>2. PICK T \in Bad : \A U \in Bad : ~(<<U, T>> \in StrictSubsetOrdering(S))
    <3>1. Bad \subseteq FiniteSubsetsOf(S) /\ Bad # {}
      BY <2>1
    <3> HIDE DEF Bad
    <3> QED BY <3>1, FS_StrictSubsetOrderingWellFounded, WFMin, Zenon
  <2>3. T \subseteq S /\ IsFiniteSet(T) /\ T # {} /\ ~HasMax(T)
    BY <2>2 DEF FiniteSubsetsOf
  <2>4. PICK x \in T : TRUE
    BY <2>3
  <2> DEFINE U == T \ {x}
  <2>5. CASE U = {}
    BY <2>3, <2>4, <2>5
  <2>6. CASE U # {}
    <3>1. IsFiniteSet(U) /\ U \subseteq S /\ U \subseteq T /\ U # T
      BY <2>3, <2>4, FS_RemoveElement
    <3>2. <<U, T>> \in StrictSubsetOrdering(S)
      BY <2>3, <3>1 DEF StrictSubsetOrdering
    <3>3. HasMax(U)
      BY <2>2, <2>6, <3>1, <3>2 DEF FiniteSubsetsOf
    <3>4. PICK m \in U : \A y \in U : m >= y
      BY <3>3
    <3>5. CASE m >= x
      <4>1. \A y \in T : m >= y
        BY <3>4, <3>5
      <4> QED BY <4>1, <2>3, <3>1, <3>4
    <3>6. CASE ~(m >= x)
      <4>1. \A y \in T : x >= y
        BY <3>4, <3>6, <2>3, <2>4
      <4> QED BY <4>1, <2>3, <2>4
    <3> QED BY <3>5, <3>6
  <2> QED BY <2>5, <2>6
<1> QED BY <1>1 DEF Max

\* The sequence q has the elements of s that are in S, in their order.
Picked(W, s, S, q) ==
    \E f \in [1..Len(q) -> 1..Len(s)] :
       /\ q \in Seq(W)
       /\ \A m, n \in 1..Len(q) : m < n => f[m] < f[n]
       /\ \A n \in 1..Len(q) : q[n] = s[f[n]] /\ s[f[n]] \in S
       /\ \A i \in 1..Len(s) : s[i] \in S => \E n \in 1..Len(q) : f[n] = i

(***************************************************************************)
(* Removal from a list: what is left are the elements of s that are in S,  *)
(* in their old order.                                                     *)
(***************************************************************************)
LEMMA OnlyInByIndex ==
    ASSUME NEW W, NEW s \in Seq(W), NEW S
    PROVE  Picked(W, s, S, OnlyIn(s, S))
<1> DEFINE I == KeptIndices(s, S)
           c == Cardinality(I)
           f == [n \in 1..c |-> CHOOSE i \in I : Rank(I, i) = n]
           r == [i \in I |-> Rank(I, i)]
<1>1. /\ I \subseteq 1..Len(s) /\ IsFiniteSet(I) /\ c \in Nat /\ Len(s) \in Nat
  <2>1. IsFiniteSet(1..Len(s)) /\ Len(s) \in Nat
    BY FS_Interval, LenProperties
  <2> QED BY <2>1, FS_Subset, FS_CardinalityType DEF KeptIndices
<1>2. \A i \in I : r[i] \in 1..c
  <2> SUFFICES ASSUME NEW i \in I PROVE Rank(I, i) \in 1..c
    OBVIOUS
  <2> DEFINE J == {j \in I : j <= i}
  <2>1. IsFiniteSet(J) /\ Cardinality(J) <= c /\ Cardinality(J) \in Nat
    BY <1>1, FS_Subset, FS_CardinalityType
  <2>2. i \in J
    BY <1>1
  <2>3. Cardinality(J) # 0
    BY <2>1, <2>2, FS_EmptySet
  <2> QED BY <2>1, <2>3, <1>1 DEF Rank
<1>3. \A i, j \in I : i < j => r[i] < r[j]
  <2> SUFFICES ASSUME NEW i \in I, NEW j \in I, i < j PROVE Rank(I, i) < Rank(I, j)
    OBVIOUS
  <2> DEFINE A == {h \in I : h <= i}
             B == {h \in I : h <= j}
  <2>1. IsFiniteSet(B) /\ Cardinality(B) \in Nat
    BY <1>1, FS_Subset, FS_CardinalityType
  <2>2. A \subseteq B /\ j \in B /\ j \notin A
    BY <1>1
  <2>3. Cardinality(A) <= Cardinality(B) /\ Cardinality(A) # Cardinality(B)
    BY <2>1, <2>2, FS_Subset
  <2>4. Cardinality(A) \in Nat
    BY <2>1, <2>2, FS_Subset, FS_CardinalityType
  <2> QED BY <2>1, <2>3, <2>4 DEF Rank
<1>4. r \in Injection(I, 1..c)
  <2>1. r \in [I -> 1..c]
    BY <1>2
  <2>2. \A i, j \in I : r[i] = r[j] => i = j
    <3> SUFFICES ASSUME NEW i \in I, NEW j \in I, r[i] = r[j] PROVE i = j
      OBVIOUS
    <3> HIDE DEF r
    <3>1. i \in Int /\ j \in Int /\ r[i] \in Int
      BY <1>1, <2>1
    <3> QED BY <3>1, <1>3
  <2> HIDE DEF r
  <2> QED BY <2>1, <2>2 DEF Injection, IsInjective
<1>5. \A n \in 1..c : \E i \in I : r[i] = n
  <2>1. IsFiniteSet(1..c) /\ Cardinality(1..c) = c
    BY <1>1, FS_Interval
  <2>2. r \in Surjection(I, 1..c)
    <3> HIDE DEF r
    <3> QED BY <1>1, <1>4, <2>1, FS_Injection
  <2> HIDE DEF r
  <2> QED BY <2>2 DEF Surjection
<1>6. \A n \in 1..c : f[n] \in I /\ r[f[n]] = n
  BY <1>5
<1>7. /\ OnlyIn(s, S) = [n \in 1..c |-> s[f[n]]]
      /\ \A n \in 1..c : s[f[n]] \in W
  <2>1. \A n \in 1..c : f[n] = CHOOSE i \in I : Rank(I, i) = n
    OBVIOUS
  <2>2. OnlyIn(s, S) = [n \in 1..c |-> s[CHOOSE i \in I : Rank(I, i) = n]]
    BY Zenon DEF OnlyIn
  <2>3. [n \in 1..c |-> s[CHOOSE i \in I : Rank(I, i) = n]] = [n \in 1..c |-> s[f[n]]]
    <3> HIDE DEF c, I
    <3> QED BY <2>1
  <2>4. \A n \in 1..c : s[f[n]] \in W
    <3> HIDE DEF c, I, f
    <3> QED BY <1>1, <1>6, ElementOfSeq
  <2> HIDE DEF c, I, f
  <2> QED BY <2>2, <2>3, <2>4
<1>8. OnlyIn(s, S) \in Seq(W) /\ Len(OnlyIn(s, S)) = c
  <2> DEFINE g == [n \in 1..c |-> s[f[n]]]
  <2>1. c \in Nat
    BY <1>1
  <2> HIDE DEF c, I, f
  <2>2. OnlyIn(s, S) = g /\ g \in [1..c -> W]
    BY <1>7
  <2> HIDE DEF g
  <2> QED BY ONLY <2>1, <2>2
<1>9. \A m, n \in 1..c : m < n => f[m] < f[n]
  <2> SUFFICES ASSUME NEW m \in 1..c, NEW n \in 1..c, m < n PROVE f[m] < f[n]
    OBVIOUS
  <2> HIDE DEF f, r
  <2>1. f[m] \in I /\ f[n] \in I /\ r[f[m]] = m /\ r[f[n]] = n
    BY <1>6
  <2>2. f[m] \in Int /\ f[n] \in Int
    BY <2>1, <1>1
  <2>3. CASE f[n] < f[m]
    BY <2>1, <2>3, <1>3
  <2>4. CASE f[n] = f[m]
    BY <2>1, <2>4
  <2> QED BY <2>2, <2>3, <2>4
<1>10. \A i \in 1..Len(s) : s[i] \in S => \E n \in 1..c : f[n] = i
  <2> HIDE DEF c, f, r
  <2>1. ASSUME NEW i \in 1..Len(s), s[i] \in S PROVE \E n \in 1..c : f[n] = i
    <3>1. i \in I /\ r[i] \in 1..c
      BY <1>2, <2>1 DEF KeptIndices, r
    <3> HIDE DEF I
    <3>2. f[r[i]] \in I /\ r[f[r[i]]] = r[i]
      BY <3>1, <1>6
    <3>3. f[r[i]] = i
      BY <3>1, <3>2, <1>4 DEF Injection, IsInjective
    <3> QED BY <3>1, <3>3
  <2> QED BY <2>1
<1>11. f \in [1..c -> 1..Len(s)]
  BY <1>1, <1>6
<1>12. \A n \in 1..c : s[f[n]] \in S
  BY <1>6 DEF KeptIndices
<1> HIDE DEF f, r, c, I
<1> QED BY <1>7, <1>8, <1>9, <1>10, <1>11, <1>12 DEF Picked

(***************************************************************************)
(* The same in terms of the elements.                                      *)
(***************************************************************************)
LEMMA OnlyInElements ==
    ASSUME NEW W, NEW s \in Seq(W), NEW S
    PROVE  /\ OnlyIn(s, S) \in Seq(W)
           /\ Range(OnlyIn(s, S)) = Range(s) \cap S
           /\ IsInjective(s) => IsInjective(OnlyIn(s, S))
<1> DEFINE q == OnlyIn(s, S)
<1>0. Picked(W, s, S, q)
  BY OnlyInByIndex
<1> HIDE DEF q
<1>1. PICK f \in [1..Len(q) -> 1..Len(s)] :
              /\ q \in Seq(W)
              /\ \A m, n \in 1..Len(q) : m < n => f[m] < f[n]
              /\ \A n \in 1..Len(q) : q[n] = s[f[n]] /\ s[f[n]] \in S
              /\ \A i \in 1..Len(s) : s[i] \in S => \E n \in 1..Len(q) : f[n] = i
  BY ONLY <1>0 DEF Picked
<1>2. DOMAIN q = 1..Len(q) /\ DOMAIN s = 1..Len(s) /\ Len(q) \in Nat /\ Len(s) \in Nat
  BY <1>1, LenProperties
<1>3. Range(q) = Range(s) \cap S
  <2>1. ASSUME NEW x \in Range(q) PROVE x \in Range(s) /\ x \in S
    <3>1. PICK n \in 1..Len(q) : x = q[n]
      BY <1>2 DEF Range
    <3>2. x = s[f[n]] /\ x \in S /\ f[n] \in 1..Len(s)
      BY <1>1, <3>1
    <3> QED BY <3>2, <1>2 DEF Range
  <2>2. ASSUME NEW x \in Range(s), x \in S PROVE x \in Range(q)
    <3>1. PICK i \in 1..Len(s) : x = s[i]
      BY <1>2 DEF Range
    <3>2. PICK n \in 1..Len(q) : f[n] = i
      BY <1>1, <2>2, <3>1
    <3>3. q[n] = x
      BY <1>1, <3>1, <3>2
    <3> QED BY <1>2, <3>3 DEF Range
  <2> QED BY <2>1, <2>2
<1>4. ASSUME IsInjective(s) PROVE IsInjective(q)
  <2> SUFFICES ASSUME NEW m \in 1..Len(q), NEW n \in 1..Len(q), q[m] = q[n]
               PROVE  m = n
    BY <1>2 DEF IsInjective
  <2>1. f[m] = f[n]
    BY <1>1, <1>2, <1>4 DEF IsInjective
  <2>2. f[m] \in Int /\ f[n] \in Int /\ m \in Int /\ n \in Int
    <3>1. f[m] \in 1..Len(s) /\ f[n] \in 1..Len(s)
      BY <1>1
    <3> QED BY ONLY <3>1, m \in 1..Len(q), n \in 1..Len(q)
  <2>3. ~(m < n) /\ ~(n < m)
    BY <1>1, <2>1, <2>2
  <2> QED BY <2>2, <2>3
<1> QED BY <1>1, <1>3, <1>4 DEF q

(***************************************************************************)
(* A function with a finite domain has a finite range.                     *)
(***************************************************************************)
LEMMA FiniteRange ==
    ASSUME NEW D, IsFiniteSet(D), NEW f, f = [x \in D |-> f[x]]
    PROVE  IsFiniteSet(Range(f))
<1>1. f \in Surjection(D, Range(f))
  BY DEF Surjection, Range
<1> QED BY <1>1, FS_Surjection

(***************************************************************************)
(* The prefixes of a word are finitely many words, among them the empty    *)
(* word and the word itself, and they are closed under prefix.             *)
(***************************************************************************)
LEMMA PrefixesOfWord ==
    ASSUME NEW w \in Word
    PROVE  /\ Prefixes(w) \subseteq Word
           /\ IsFiniteSet(Prefixes(w))
           /\ <<>> \in Prefixes(w)
           /\ w \in Prefixes(w)
           /\ \A p \in Prefixes(w) : Prefixes(p) \subseteq Prefixes(w)
<1>1. Len(w) \in Nat /\ w \in Seq(Symbols) /\ \A i \in 1..Len(w) : w[i] \in Symbols
  BY LenProperties, ElementOfSeq DEF Word
<1>2. ASSUME NEW n \in 0..Len(w)
      PROVE  SubSeq(w, 1, n) \in Word /\ Len(SubSeq(w, 1, n)) = n
  BY <1>1, SubSeqProperties DEF Word
<1>3. IsFiniteSet(Prefixes(w))
  <2> DEFINE f == [n \in 0..Len(w) |-> SubSeq(w, 1, n)]
  <2>1. IsFiniteSet(0..Len(w))
    BY <1>1, FS_Interval
  <2>2. Range(f) = Prefixes(w)
    BY DEF Prefixes, Range
  <2> QED BY <2>1, <2>2, FiniteRange
<1>4. <<>> \in Prefixes(w) /\ w \in Prefixes(w)
  <2>1. SubSeq(w, 1, 0) = <<>>
    BY SubSeqEmpty
  <2>2. SubSeq(w, 1, Len(w)) = w
    BY <1>1, SubSeqFull
  <2>3. 0 \in 0..Len(w) /\ Len(w) \in 0..Len(w)
    BY <1>1
  <2>4. SubSeq(w, 1, 0) \in Prefixes(w) /\ SubSeq(w, 1, Len(w)) \in Prefixes(w)
    BY <2>3, Zenon DEF Prefixes
  <2> QED BY <2>1, <2>2, <2>4, Zenon
<1>5. ASSUME NEW p \in Prefixes(w), NEW v \in Prefixes(p)
      PROVE  v \in Prefixes(w)
  <2>1. PICK n \in 0..Len(w) : p = SubSeq(w, 1, n)
    BY DEF Prefixes
  <2>2. Len(p) = n /\ p \in Seq(Symbols)
    BY <1>2, <2>1 DEF Word
  <2>3. PICK m \in 0..n : v = SubSeq(p, 1, m)
    BY <2>2 DEF Prefixes
  <2>4. CASE m = 0
    <3>1. SubSeq(p, 1, 0) = <<>>
      BY SubSeqEmpty
    <3>2. v = SubSeq(p, 1, 0)
      BY <2>3, <2>4
    <3> QED BY <1>4, <3>1, <3>2, Zenon
  <2>5. CASE m # 0
    <3>1. /\ 1 \in 1..Len(w) /\ n \in 1..Len(w)
          /\ 1 \in 1..(n - 1 + 1) /\ m \in 1..(n - 1 + 1)
      BY <1>1, <2>5
    <3>2. SubSeq(SubSeq(w, 1, n), 1, m) = SubSeq(w, 1 + 1 - 1, 1 + m - 1)
      BY ONLY <1>1, <2>2, <2>1, <3>1, SubSeqOfSubSeq
    <3>3. v = SubSeq(w, 1, m) /\ m \in 0..Len(w)
      BY <1>1, <2>1, <2>3, <3>2
    <3> QED BY <3>3 DEF Prefixes
  <2> QED BY <2>4, <2>5
<1> QED BY <1>2, <1>3, <1>4, <1>5 DEF Prefixes

-----------------------------------------------------------------------------
(* Sequences, with no regard to what their elements are. *)

Sequence(s) == s \in Seq(Range(s))

(***************************************************************************)
(* A sequence is a function on an interval.                                *)
(***************************************************************************)
LEMMA SequenceFacts ==
    ASSUME NEW s, Sequence(s)
    PROVE  /\ Len(s) \in Nat /\ DOMAIN s = 1..Len(s)
           /\ Range(s) = {s[i] : i \in 1..Len(s)}
           /\ s = [i \in 1..Len(s) |-> s[i]]
           /\ s = <<>> <=> Len(s) = 0
           /\ s = <<>> <=> Range(s) = {}
<1>1. Len(s) \in Nat /\ DOMAIN s = 1..Len(s) /\ s \in [1..Len(s) -> Range(s)]
  BY LenProperties DEF Sequence
<1>2. s = <<>> <=> Len(s) = 0
  BY EmptySeq DEF Sequence
<1>3. Range(s) = {s[i] : i \in 1..Len(s)}
  BY <1>1 DEF Range
<1>4. Range(s) = {} <=> Len(s) = 0
  <2>1. Len(s) # 0 => s[1] \in Range(s)
    BY <1>1, <1>3
  <2>2. Len(s) = 0 => 1..Len(s) = {}
    BY <1>1
  <2> QED BY <1>3, <2>1, <2>2
<1> QED BY <1>1, <1>2, <1>3, <1>4

\* A member of Seq(W) is a sequence of elements of W.
LEMMA SequenceOf ==
    ASSUME NEW W, NEW s \in Seq(W)
    PROVE  Sequence(s) /\ Range(s) \subseteq W
<1>1. Len(s) \in Nat /\ s \in [1..Len(s) -> W]
  BY LenProperties
<1>2. Range(s) \subseteq W /\ s \in [1..Len(s) -> Range(s)]
  BY <1>1 DEF Range
<1> QED BY <1>1, <1>2, SeqDef DEF Sequence

\* A sequence of elements of W is a member of Seq(W).
LEMMA SequenceWithin ==
    ASSUME NEW W, NEW s, Sequence(s), Range(s) \subseteq W
    PROVE  s \in Seq(W)
<1>1. Len(s) \in Nat /\ s \in [1..Len(s) -> W]
  BY SequenceFacts
<1> QED BY <1>1, SeqDef

\* A function on 1..n is a sequence of length n.
LEMMA FunctionToSequence ==
    ASSUME NEW n \in Nat, NEW s, s = [i \in 1..n |-> s[i]]
    PROVE  Sequence(s) /\ Len(s) = n /\ Range(s) = {s[i] : i \in 1..n}
<1>1. s \in [1..n -> Range(s)] /\ DOMAIN s = 1..n
  BY DEF Range
<1>2. s \in Seq(Range(s))
  BY <1>1, SeqDef
<1>3. Len(s) = n
  BY <1>1, <1>2, LenProperties
<1> QED BY <1>1, <1>2, <1>3 DEF Sequence, Range

\* The empty sequence has no elements.
LEMMA EmptySequence == Sequence(<<>>) /\ Range(<<>>) = {} /\ Len(<<>>) = 0
<1>1. <<>> \in Seq({})
  OBVIOUS
<1> QED BY <1>1, SequenceOf, SequenceFacts

(***************************************************************************)
(* One sequence after the other.                                           *)
(***************************************************************************)
LEMMA ConcatFacts ==
    ASSUME NEW s, NEW t, Sequence(s), Sequence(t)
    PROVE  /\ Sequence(s \o t)
           /\ Range(s \o t) = Range(s) \cup Range(t)
           /\ Len(s \o t) = Len(s) + Len(t)
           /\ \A i \in 1..Len(s) : (s \o t)[i] = s[i]
           /\ \A i \in (Len(s) + 1)..(Len(s) + Len(t)) : (s \o t)[i] = t[i - Len(s)]
<1> DEFINE W == Range(s) \cup Range(t)
<1>1. s \in Seq(W) /\ t \in Seq(W)
  BY SequenceWithin
<1> HIDE DEF W
<1>2. /\ s \o t \in Seq(W) /\ Len(s \o t) = Len(s) + Len(t)
      /\ \A i \in 1..(Len(s) + Len(t)) : (s \o t)[i] = IF i <= Len(s) THEN s[i] ELSE t[i - Len(s)]
  BY <1>1, ConcatProperties
<1>3. Sequence(s \o t)
  BY <1>2, SequenceOf
<1>4. Len(s) \in Nat /\ Len(t) \in Nat
  BY SequenceFacts
<1>5. \A i \in 1..Len(s) : (s \o t)[i] = s[i]
  BY <1>2, <1>4
<1>6. \A i \in (Len(s) + 1)..(Len(s) + Len(t)) : (s \o t)[i] = t[i - Len(s)]
  BY <1>2, <1>4
<1>7. Range(s \o t) \subseteq Range(s) \cup Range(t)
  BY <1>2, SequenceOf DEF W
<1>11. \A i \in 1..Len(s \o t) : (s \o t)[i] \in Range(s \o t)
  <2> DEFINE u == s \o t
  <2>1. Sequence(u)
    BY <1>3
  <2> HIDE DEF u
  <2>2. \A i \in 1..Len(u) : u[i] \in Range(u)
    BY <2>1, SequenceFacts
  <2> QED BY <2>2 DEF u
<1>8. \A i \in 1..Len(s) : s[i] \in Range(s \o t)
  <2> SUFFICES ASSUME NEW i \in 1..Len(s) PROVE s[i] \in Range(s \o t)
    OBVIOUS
  <2>1. i \in 1..Len(s \o t)
    BY <1>2, <1>4
  <2> QED BY <1>11, <1>5, <2>1
<1>9. \A i \in 1..Len(t) : t[i] \in Range(s \o t)
  <2> SUFFICES ASSUME NEW i \in 1..Len(t) PROVE t[i] \in Range(s \o t)
    OBVIOUS
  <2>1. i + Len(s) \in 1..Len(s \o t) /\ i + Len(s) \in (Len(s) + 1)..(Len(s) + Len(t))
        /\ (i + Len(s)) - Len(s) = i
    BY <1>2, <1>4
  <2>2. (s \o t)[i + Len(s)] = t[i]
    BY <1>6, <2>1
  <2> QED BY <1>11, <2>1, <2>2
<1>10. Range(s) \subseteq Range(s \o t) /\ Range(t) \subseteq Range(s \o t)
  BY <1>8, <1>9, SequenceFacts
<1> QED BY <1>2, <1>3, <1>5, <1>6, <1>7, <1>10

\* Append adds one element, at the end.
LEMMA AppendFacts ==
    ASSUME NEW s, Sequence(s), NEW e
    PROVE  /\ Sequence(Append(s, e))
           /\ Range(Append(s, e)) = Range(s) \cup {e}
           /\ Len(Append(s, e)) = Len(s) + 1
           /\ Append(s, e)[Len(s) + 1] = e
           /\ \A i \in 1..Len(s) : Append(s, e)[i] = s[i]
<1> DEFINE W == Range(s) \cup {e}
           a == Append(s, e)
<1>1. s \in Seq(W) /\ e \in W
  BY SequenceWithin
<1> HIDE DEF W
<1>2. /\ a \in Seq(W) /\ Len(a) = Len(s) + 1
      /\ \A i \in 1..Len(s) : a[i] = s[i]
      /\ a[Len(s) + 1] = e
  BY <1>1, AppendProperties
<1>3. Sequence(a) /\ Range(a) \subseteq W
  BY <1>2, SequenceOf
<1> HIDE DEF a
<1>4. Len(s) \in Nat /\ Range(s) = {s[i] : i \in 1..Len(s)} /\ Range(a) = {a[i] : i \in 1..Len(a)}
  BY <1>3, SequenceFacts
<1>5. e \in Range(a)
  <2>1. Len(s) + 1 \in 1..Len(a)
    BY <1>2, <1>4
  <2> QED BY <1>2, <1>4, <2>1
<1>6. \A i \in 1..Len(s) : s[i] \in Range(a)
  <2> SUFFICES ASSUME NEW i \in 1..Len(s) PROVE s[i] \in Range(a)
    OBVIOUS
  <2>1. i \in 1..Len(a)
    BY <1>2, <1>4
  <2> QED BY <1>2, <1>4, <2>1
<1>7. Range(a) = W
  BY <1>3, <1>4, <1>5, <1>6 DEF W
<1> QED BY <1>2, <1>3, <1>7 DEF a, W

(***************************************************************************)
(* A part of a sequence.                                                   *)
(***************************************************************************)
LEMMA PartFacts ==
    ASSUME NEW s, Sequence(s), NEW m \in Nat, m > 0, NEW n \in Int, n <= Len(s)
    PROVE  /\ Sequence(SubSeq(s, m, n))
           /\ Range(SubSeq(s, m, n)) \subseteq Range(s)
           /\ Len(SubSeq(s, m, n)) = IF m <= n THEN n - m + 1 ELSE 0
           /\ \A i \in 1..(n - m + 1) : SubSeq(s, m, n)[i] = s[m + i - 1]
<1> DEFINE a == SubSeq(s, m, n)
           k == IF m <= n THEN n - m + 1 ELSE 0
<1>1. Len(s) \in Nat /\ DOMAIN s = 1..Len(s) /\ \A i \in 1..Len(s) : s[i] \in Range(s)
  BY SequenceFacts
<1>2. k \in Nat /\ 1..(n - m + 1) = 1..k
  OBVIOUS
<1>3. a = [i \in 1..(n - m + 1) |-> s[m + i - 1]]
  OBVIOUS
<1>4. a = [i \in 1..k |-> a[i]] /\ \A i \in 1..k : a[i] = s[m + i - 1]
  BY <1>2, <1>3
<1> HIDE DEF a, k
<1>5. Sequence(a) /\ Len(a) = k /\ Range(a) = {a[i] : i \in 1..k}
  BY <1>2, <1>4, FunctionToSequence
<1>6. \A i \in 1..k : a[i] \in Range(s)
  <2> SUFFICES ASSUME NEW i \in 1..k PROVE a[i] \in Range(s)
    OBVIOUS
  <2>1. m + i - 1 \in 1..Len(s)
    BY <1>1, <1>2 DEF k
  <2> QED BY <1>1, <1>4, <2>1
<1>7. Range(a) \subseteq Range(s)
  BY <1>5, <1>6
<1> QED BY <1>2, <1>4, <1>5, <1>7 DEF a, k

(***************************************************************************)
(* What is left of a sequence by OnlyIn.                                   *)
(***************************************************************************)
LEMMA KeptFacts ==
    ASSUME NEW s, Sequence(s), NEW S
    PROVE  /\ Sequence(OnlyIn(s, S))
           /\ Range(OnlyIn(s, S)) = Range(s) \cap S
<1>1. s \in Seq(Range(s))
  BY DEF Sequence
<1> QED BY <1>1, OnlyInElements, SequenceOf

(***************************************************************************)
(* RemoveAt takes out one element.                                         *)
(***************************************************************************)
LEMMA RemoveAtFacts ==
    ASSUME NEW s, Sequence(s), NEW i \in 1..Len(s)
    PROVE  /\ Sequence(RemoveAt(s, i)) /\ Range(RemoveAt(s, i)) \subseteq Range(s)
           /\ \A j \in 1..Len(s) : j # i => s[j] \in Range(RemoveAt(s, i))
<1> DEFINE a == SubSeq(s, 1, i - 1)
           b == SubSeq(s, i + 1, Len(s))
<1>1. Len(s) \in Nat
  BY SequenceFacts
<1>2. /\ Sequence(a) /\ Range(a) \subseteq Range(s) /\ Len(a) = i - 1
      /\ \A j \in 1..(i - 1) : a[j] = s[j]
  <2>1. 1 \in Nat /\ 1 > 0 /\ i - 1 \in Int /\ i - 1 <= Len(s)
    BY <1>1
  <2>2. /\ Sequence(a) /\ Range(a) \subseteq Range(s)
        /\ Len(a) = IF 1 <= i - 1 THEN (i - 1) - 1 + 1 ELSE 0
        /\ \A j \in 1..((i - 1) - 1 + 1) : a[j] = s[1 + j - 1]
    BY <2>1, PartFacts
  <2> HIDE DEF a
  <2> QED BY <2>2
<1>3. /\ Sequence(b) /\ Range(b) \subseteq Range(s) /\ Len(b) = Len(s) - i
      /\ \A j \in 1..(Len(s) - i) : b[j] = s[i + j]
  <2>1. i + 1 \in Nat /\ i + 1 > 0 /\ Len(s) \in Int /\ Len(s) <= Len(s)
    BY <1>1
  <2>2. /\ Sequence(b) /\ Range(b) \subseteq Range(s)
        /\ Len(b) = IF i + 1 <= Len(s) THEN Len(s) - (i + 1) + 1 ELSE 0
        /\ \A j \in 1..(Len(s) - (i + 1) + 1) : b[j] = s[(i + 1) + j - 1]
    BY <2>1, PartFacts
  <2> HIDE DEF b
  <2> QED BY <1>1, <2>2
<1>4. RemoveAt(s, i) = a \o b
  BY DEF RemoveAt
<1> HIDE DEF a, b
<1>5. Sequence(a \o b) /\ Range(a \o b) = Range(a) \cup Range(b)
  BY <1>2, <1>3, ConcatFacts
<1>6. Range(a) = {a[j] : j \in 1..(i - 1)} /\ Range(b) = {b[j] : j \in 1..(Len(s) - i)}
  BY <1>2, <1>3, SequenceFacts
<1>7. ASSUME NEW j \in 1..Len(s), j # i PROVE s[j] \in Range(a) \cup Range(b)
  <2>1. CASE j < i
    <3>1. j \in 1..(i - 1) /\ a[j] = s[j]
      BY <1>1, <1>2, <2>1
    <3> QED BY <1>6, <3>1
  <2>2. CASE j > i
    <3>1. j - i \in 1..(Len(s) - i) /\ i + (j - i) = j
      BY <1>1, <2>2
    <3>2. b[j - i] = s[j]
      BY <1>3, <3>1
    <3> QED BY <1>6, <3>1, <3>2
  <2> QED BY <1>1, <1>7, <2>1, <2>2
<1> QED BY <1>2, <1>3, <1>4, <1>5, <1>7

\* Loops that put sequences together.
SomeOf(words, s) == Sequence(s) /\ Range(s) \subseteq words
AllOf(words, s) == Sequence(s) /\ words \subseteq Range(s)
JoinBody(c, s, e) == s \o e
Concatenated(ss) == FoldLeft(\o, <<>>, ss)
Join1 == INSTANCE LoopRules WITH Body <- JoinBody, Inv <- SomeOf
Join2 == INSTANCE LoopRules WITH Body <- JoinBody, Inv <- AllOf

(***************************************************************************)
(* Sequences that are put together: the elements of all of them.            *)
(***************************************************************************)
LEMMA ConcatenatedFacts ==
    ASSUME NEW n \in Nat, NEW ss, DOMAIN ss = 1..n, \A i \in 1..n : Sequence(ss[i])
    PROVE  /\ Sequence(Concatenated(ss))
           /\ Range(Concatenated(ss)) \subseteq UNION {Range(ss[i]) : i \in 1..n}
           /\ \A i \in 1..n : Range(ss[i]) \subseteq Range(Concatenated(ss))
<1> DEFINE W == UNION {Range(ss[i]) : i \in 1..n}
<1>1. Concatenated(ss) = Join1!Loop(0, <<>>, ss)
  BY DEF Concatenated, Join1!Loop, Join1!FoldLeft, Join1!MapThenFoldSet, Join1!Max,
     FoldLeft, MapThenFoldSet, Max, JoinBody
<1>2. Concatenated(ss) = Join2!Loop(0, <<>>, ss)
  BY DEF Concatenated, Join2!Loop, Join2!FoldLeft, Join2!MapThenFoldSet, Join2!Max,
     FoldLeft, MapThenFoldSet, Max, JoinBody
<1>3. SomeOf(W, <<>>)
  BY EmptySequence DEF SomeOf
<1>4. \A i \in 1..n : \A x : SomeOf(W, x) => SomeOf(W, JoinBody(0, x, ss[i]))
  <2> SUFFICES ASSUME NEW i \in 1..n, NEW x, SomeOf(W, x) PROVE SomeOf(W, JoinBody(0, x, ss[i]))
    OBVIOUS
  <2>1. Range(ss[i]) \subseteq W /\ Sequence(ss[i])
    OBVIOUS
  <2> HIDE DEF W
  <2> QED BY <2>1, ConcatFacts DEF SomeOf, JoinBody
<1>5. SomeOf(W, Join1!Loop(0, <<>>, ss))
  <2> HIDE DEF W
  <2> QED BY <1>3, <1>4, Join1!FoldRule
<1>6. PICK g : /\ g[0] = <<>>
               /\ \A j \in 1..n : g[j] = g[j - 1] \o ss[j]
               /\ Concatenated(ss) = g[n]
  <2> HIDE DEF W
  <2>1. \E g : Join2!Turns(g, 0, <<>>, ss, n) /\ Join2!Loop(0, <<>>, ss) = g[n]
    BY Join2!FoldSteps
  <2> QED BY <1>2, <2>1 DEF Join2!Turns, JoinBody
<1> HIDE DEF W
<1>7. ASSUME NEW i \in 1..n PROVE AllOf(Range(ss[i]), g[n])
  <2>1. ASSUME NEW j \in 0..n PROVE AllOf({}, g[j])
    <3>1. 0 \in 0..j /\ j \in Nat
      OBVIOUS
    <3>2. AllOf({}, g[0])
      BY <1>6, EmptySequence DEF AllOf
    <3>3. \A m \in (0 + 1)..j : AllOf({}, g[m - 1]) => AllOf({}, g[m])
      <4> SUFFICES ASSUME NEW m \in (0 + 1)..j, AllOf({}, g[m - 1]) PROVE AllOf({}, g[m])
        OBVIOUS
      <4>1. m \in 1..n
        OBVIOUS
      <4>2. g[m] = g[m - 1] \o ss[m] /\ Sequence(g[m - 1]) /\ Sequence(ss[m])
        BY <1>6, <4>1 DEF AllOf
      <4> QED BY <4>2, ConcatFacts DEF AllOf
    <3> QED BY <3>1, <3>2, <3>3, Join2!FoldFrom
  <2>2. i \in 0..n /\ i - 1 \in 0..n /\ n \in 0..n
    OBVIOUS
  <2>3. AllOf(Range(ss[i]), g[i])
    <3>1. g[i] = g[i - 1] \o ss[i] /\ Sequence(g[i - 1]) /\ Sequence(ss[i])
      BY <1>6, <2>1, <2>2 DEF AllOf
    <3> QED BY <3>1, ConcatFacts DEF AllOf
  <2>4. \A m \in (i + 1)..n : AllOf(Range(ss[i]), g[m - 1]) => AllOf(Range(ss[i]), g[m])
    <3> SUFFICES ASSUME NEW m \in (i + 1)..n, AllOf(Range(ss[i]), g[m - 1])
                 PROVE  AllOf(Range(ss[i]), g[m])
      OBVIOUS
    <3>1. m \in 1..n
      OBVIOUS
    <3>2. g[m] = g[m - 1] \o ss[m] /\ Sequence(g[m - 1]) /\ Sequence(ss[m])
      BY <1>6, <3>1 DEF AllOf
    <3> QED BY <3>2, ConcatFacts DEF AllOf
  <2> QED BY <2>2, <2>3, <2>4, Join2!FoldFrom
<1> QED BY <1>1, <1>5, <1>6, <1>7 DEF SomeOf, AllOf, W

=============================================================================
