----------------------------- MODULE LoopRules -----------------------------
(***************************************************************************)
(* Rules for what a loop does, whatever its body: what holds at first and  *)
(* is kept by the body holds in the end.  A proof about a particular loop  *)
(* instantiates Body and Inv.                                              *)
(***************************************************************************)
EXTENDS SequencesExt, FiniteSetTheorems, SequenceTheorems, WellFoundedInduction, TLAPS

CONSTANTS
    Body(_, _, _), \* the state of the loop after an element was dealt with (in a context)
    Inv(_, _)     \* what is to hold of a parameter and the loop's state

\* A set of numbers has a least one.
LEMMA LeastNumber ==
    ASSUME NEW S \in SUBSET Nat, S # {}
    PROVE  \E m \in S : \A j \in S : m <= j
<1> DEFINE Below == {0..m : m \in S}
<1>1. Below \subseteq FiniteSubsetsOf(Nat) /\ Below # {}
  <2>1. \A m \in S : IsFiniteSet(0..m) /\ 0..m \subseteq Nat
    BY FS_Interval
  <2> QED BY <2>1 DEF FiniteSubsetsOf
<1>2. PICK T \in Below : \A U \in Below : ~(<<U, T>> \in StrictSubsetOrdering(Nat))
  <2> HIDE DEF Below
  <2> QED BY <1>1, FS_StrictSubsetOrderingWellFounded, WFMin, Zenon
<1>3. PICK m \in S : T = 0..m
  OBVIOUS
<1>4. \A j \in S : m <= j
  <2> SUFFICES ASSUME NEW j \in S, j < m PROVE FALSE
    OBVIOUS
  <2>1. 0..j \subseteq 0..m /\ 0..j # 0..m
    <3>1. m \in 0..m /\ m \notin 0..j
      OBVIOUS
    <3> QED BY <3>1
  <2>2. 0..j \in FiniteSubsetsOf(Nat) /\ 0..m \in FiniteSubsetsOf(Nat) /\ 0..j \in Below
    BY <1>1
  <2> QED BY <1>2, <1>3, <2>1, <2>2 DEF StrictSubsetOrdering, FiniteSubsetsOf
<1> QED BY <1>4

\* A set of indices has a largest one, which Max finds.
LEMMA LargestIndex ==
    ASSUME NEW n \in Nat, NEW s \in SUBSET (1..n), s # {}
    PROVE  Max(s) \in s /\ \A i \in s : i <= Max(s)
<1> DEFINE Mirror == {n - i : i \in s}
<1>1. PICK j \in Mirror : \A i \in Mirror : j <= i
  <2>1. \A i \in s : n - i \in Nat
    OBVIOUS
  <2>2. Mirror \in SUBSET Nat /\ Mirror # {}
    BY <2>1
  <2> HIDE DEF Mirror
  <2> QED BY <2>2, LeastNumber
<1>2. PICK x \in s : j = n - x
  OBVIOUS
<1>3. \A i \in s : x >= i
  <2> SUFFICES ASSUME NEW i \in s PROVE x >= i
    OBVIOUS
  <2>1. n - i \in Mirror /\ x \in Int /\ i \in Int
    OBVIOUS
  <2>2. n - x <= n - i
    BY <1>1, <1>2, <2>1
  <2> HIDE DEF Mirror
  <2> QED BY <2>1, <2>2
<1>4. Max(s) \in s /\ \A i \in s : Max(s) >= i
  BY <1>3 DEF Max
<1> QED BY <1>4

\* f is FoldLeft's recursive function, for the indices in D.
Fold(f, c, base, seq, D) == f = [s \in SUBSET D |-> IF s = {} THEN base
                                            ELSE Body(c, f[s \ {Max(s)}], seq[Max(s)])]

\* The recursive function that FoldLeft is defined by exists.
LEMMA FoldExists ==
    ASSUME NEW c, NEW base, NEW seq, NEW n \in Nat
    PROVE  \E f : Fold(f, c, base, seq, 1..n)
<1> DEFINE E(m) == \E f : Fold(f, c, base, seq, 1..m)
           Bad == {m \in Nat : ~E(m)}
<1> SUFFICES ASSUME Bad # {} PROVE FALSE
  OBVIOUS
<1>1. PICK m \in Bad : \A j \in Bad : m <= j
  <2> HIDE DEF Bad
  <2>1. Bad \in SUBSET Nat
    BY DEF Bad
  <2> QED BY <2>1, LeastNumber
<1>2. E(0)
  <2> DEFINE f == [s \in SUBSET (1..0) |-> base]
  <2>0. 1..0 = {}
    OBVIOUS
  <2>1. \A s \in SUBSET (1..0) : s = {}
    OBVIOUS
  <2>2. f = [s \in SUBSET (1..0) |-> IF s = {} THEN base ELSE Body(c, f[s \ {Max(s)}], seq[Max(s)])]
    BY <2>1, Zenon
  <2> QED BY <2>2 DEF Fold
<1>3. m \in Nat /\ m # 0
  BY <1>2
<1>4. PICK g : Fold(g, c, base, seq, 1..(m-1))
  <2>1. m - 1 \in Nat /\ m - 1 \notin Bad
    BY <1>1, <1>3
  <2> QED BY <2>1
<1> DEFINE f == [s \in SUBSET (1..m) |-> IF m \in s THEN Body(c, g[s \ {m}], seq[m]) ELSE g[s]]
<1>5. ASSUME NEW s \in SUBSET (1..m)
      PROVE  f[s] = IF s = {} THEN base ELSE Body(c, f[s \ {Max(s)}], seq[Max(s)])
  <2>1. \A t \in SUBSET (1..(m-1)) : f[t] = g[t] /\ t \in SUBSET (1..m)
    BY <1>3
  <2>g. \A t \in SUBSET (1..(m-1)) : g[t] = IF t = {} THEN base ELSE Body(c, g[t \ {Max(t)}], seq[Max(t)])
    <3> HIDE DEF f
    <3> QED BY <1>4 DEF Fold
  <2>2. CASE m \in s
    <3>1. Max(s) = m
      <4>1. Max(s) \in s /\ m <= Max(s)
        BY <1>3, <2>2, LargestIndex
      <4>2. Max(s) \in 1..m
        BY <4>1
      <4> HIDE DEF f
      <4> QED BY <1>3, <4>1, <4>2
    <3>2. s \ {m} \in SUBSET (1..(m-1))
      BY <1>3
    <3>3. f[s \ {m}] = g[s \ {m}]
      BY <2>1, <3>2
    <3>4. f[s] = Body(c, g[s \ {m}], seq[m])
      BY <2>2
    <3> HIDE DEF f
    <3> QED BY <2>2, <3>1, <3>3, <3>4
  <2>3. CASE m \notin s
    <3>1. s \in SUBSET (1..(m-1))
      BY <1>3, <2>3
    <3>2. f[s] = g[s]
      BY <2>1, <3>1
    <3>3. CASE s # {}
      <4>1. Max(s) \in s
        BY <3>3, <1>3, LargestIndex
      <4>2. s \ {Max(s)} \in SUBSET (1..(m-1))
        BY <3>1
      <4>3. f[s \ {Max(s)}] = g[s \ {Max(s)}]
        BY <2>1, <4>2
      <4> HIDE DEF f
      <4> QED BY <2>g, <3>1, <3>2, <3>3, <4>3
    <3>4. CASE s = {}
      <4> HIDE DEF f
      <4> QED BY <2>g, <3>1, <3>2, <3>4
    <3> QED BY <3>3, <3>4
  <2> QED BY <2>2, <2>3
<1>6. f = [s \in SUBSET (1..m) |-> IF s = {} THEN base ELSE Body(c, f[s \ {Max(s)}], seq[Max(s)])]
  <2>1. f = [s \in SUBSET (1..m) |-> f[s]]
    OBVIOUS
  <2> HIDE DEF f
  <2> QED BY <1>5, <2>1, Zenon
<1>7. E(m)
  <2> HIDE DEF f
  <2> QED BY <1>6 DEF Fold
<1> QED BY <1>7

\* The loop over seq: what is left of base after all its elements.
Loop(c, base, seq) == FoldLeft(LAMBDA x, e : Body(c, x, e), base, seq)

(***************************************************************************)
(* The states that a loop goes through, from the first one to its result.  *)
(***************************************************************************)
Turns(g, c, base, seq, n) ==
    g[0] = base /\ \A j \in 1..n : g[j] = Body(c, g[j - 1], seq[j])

\* A fold goes through the states of a loop.
LEMMA FoldSteps ==
    ASSUME NEW c, NEW base, NEW seq, NEW n \in Nat, DOMAIN seq = 1..n
    PROVE  \E g : Turns(g, c, base, seq, n) /\ Loop(c, base, seq) = g[n]
<1> DEFINE f == CHOOSE f : Fold(f, c, base, seq, 1..n)
           g == [j \in 0..n |-> f[1..j]]
<1>1. Fold(f, c, base, seq, 1..n)
  BY FoldExists, Zenon
<1>2. Loop(c, base, seq) = f[1..n]
  BY DEF Loop, FoldLeft, MapThenFoldSet, Fold
<1> HIDE DEF f
<1>3. \A s \in SUBSET (1..n) :
        f[s] = IF s = {} THEN base ELSE Body(c, f[s \ {Max(s)}], seq[Max(s)])
  BY <1>1 DEF Fold
<1>4. g[0] = base
  <2>1. 1..0 = {} /\ {} \in SUBSET (1..n) /\ 0 \in 0..n
    OBVIOUS
  <2>2. f[{}] = base
    BY <1>3, <2>1
  <2>3. g[0] = f[1..0]
    BY <2>1
  <2> QED BY <2>1, <2>2, <2>3
<1>5. ASSUME NEW j \in 1..n PROVE g[j] = Body(c, g[j - 1], seq[j])
  <2>1. j - 1 \in 0..n /\ j \in 0..n /\ j \in Nat
    OBVIOUS
  <2>2. Max(1..j) = j
    <3>1. 1..j \in SUBSET (1..j) /\ 1..j # {}
      <4>1. j \in 1..j
        OBVIOUS
      <4> QED BY <4>1
    <3>2. Max(1..j) \in 1..j /\ \A i \in 1..j : i <= Max(1..j)
      BY <2>1, <3>1, LargestIndex
    <3> QED BY <2>1, <3>2
  <2>3. (1..j) \ {j} = 1..(j - 1)
    BY <2>1
  <2>4. 1..j \in SUBSET (1..n) /\ 1..j # {}
    <3>1. j \in 1..j /\ \A i \in 1..j : i \in 1..n
      BY <2>1
    <3> QED BY <3>1
  <2>5. f[1..j] = Body(c, f[1..(j - 1)], seq[j])
    BY <1>3, <2>2, <2>3, <2>4
  <2> QED BY <2>1, <2>5
<1>6. Loop(c, base, seq) = g[n]
  BY <1>2
<1>7. Turns(g, c, base, seq, n)
  BY <1>4, <1>5 DEF Turns
<1> QED BY <1>6, <1>7

(***************************************************************************)
(* What holds after a turn and is kept by the turns after it holds in the  *)
(* end.                                                                    *)
(***************************************************************************)
LEMMA FoldFrom ==
    ASSUME NEW p, NEW n \in Nat, NEW m \in 0..n, NEW g,
           Inv(p, g[m]),
           \A j \in (m + 1)..n : Inv(p, g[j - 1]) => Inv(p, g[j])
    PROVE  Inv(p, g[n])
<1> DEFINE Bad == {j \in m..n : ~Inv(p, g[j])}
<1> SUFFICES ASSUME Bad # {} PROVE FALSE
  BY n \in m..n
<1>1. PICK j \in Bad : \A i \in Bad : j <= i
  <2>1. Bad \in SUBSET Nat
    OBVIOUS
  <2> HIDE DEF Bad
  <2> QED BY <2>1, LeastNumber
<1>2. j \in (m + 1)..n /\ j - 1 \in m..n /\ j \in 1..n
  <2>1. j \in m..n /\ j # m /\ m \in Nat /\ n \in Nat
    OBVIOUS
  <2> HIDE DEF Bad
  <2> QED BY <2>1
<1>3. Inv(p, g[j - 1])
  <2>1. j - 1 \notin Bad
    <3>1. ~(j <= j - 1)
      BY <1>2
    <3> HIDE DEF Bad
    <3> QED BY <1>1, <3>1
  <2> QED BY <1>2, <2>1
<1>4. Inv(p, g[j])
  BY <1>2, <1>3
<1> QED BY <1>1, <1>4

(***************************************************************************)
(* An invariant of the loop that holds before it holds after it.           *)
(***************************************************************************)
LEMMA FoldRule ==
    ASSUME NEW p, NEW c, NEW base, NEW seq, NEW n \in Nat, DOMAIN seq = 1..n,
           Inv(p, base),
           \A i \in 1..n : \A x : Inv(p, x) => Inv(p, Body(c, x, seq[i]))
    PROVE  Inv(p, Loop(c, base, seq))
<1>1. PICK g : /\ g[0] = base
               /\ \A j \in 1..n : g[j] = Body(c, g[j - 1], seq[j])
               /\ Loop(c, base, seq) = g[n]
  BY FoldSteps DEF Turns
<1>2. 0 \in 0..n /\ Inv(p, g[0])
  BY <1>1
<1>3. \A j \in (0 + 1)..n : Inv(p, g[j - 1]) => Inv(p, g[j])
  BY <1>1
<1>4. Inv(p, g[n])
  BY <1>2, <1>3, FoldFrom
<1> QED BY <1>1, <1>4

(***************************************************************************)
(* It may as well begin to hold with the first turn.                       *)
(***************************************************************************)
LEMMA FoldAfterFirst ==
    ASSUME NEW p, NEW c, NEW base, NEW seq, NEW n \in Nat, n > 0, DOMAIN seq = 1..n,
           Inv(p, Body(c, base, seq[1])),
           \A i \in 1..n : \A x : Inv(p, x) => Inv(p, Body(c, x, seq[i]))
    PROVE  Inv(p, Loop(c, base, seq))
<1>1. PICK g : /\ g[0] = base
               /\ \A j \in 1..n : g[j] = Body(c, g[j - 1], seq[j])
               /\ Loop(c, base, seq) = g[n]
  BY FoldSteps DEF Turns
<1>2. 1 \in 0..n /\ 1 \in 1..n /\ 1 - 1 = 0
  OBVIOUS
<1>3. Inv(p, g[1])
  BY <1>1, <1>2
<1>4. \A j \in (1 + 1)..n : Inv(p, g[j - 1]) => Inv(p, g[j])
  BY <1>1
<1>5. Inv(p, g[n])
  BY <1>2, <1>3, <1>4, FoldFrom
<1> QED BY <1>1, <1>5

(***************************************************************************)
(* A loop does the same over the same elements.                            *)
(***************************************************************************)
LEMMA TurnsAgree ==
    ASSUME NEW c, NEW base, NEW n \in Nat, NEW s, NEW t, NEW g, NEW h,
           Turns(g, c, base, s, n), Turns(h, c, base, t, n),
           \A j \in 1..n : s[j] = t[j]
    PROVE  \A j \in 0..n : g[j] = h[j]
<1> DEFINE Bad == {j \in 0..n : g[j] # h[j]}
<1> SUFFICES ASSUME Bad # {} PROVE FALSE
  OBVIOUS
<1>1. PICK j \in Bad : \A i \in Bad : j <= i
  <2>1. Bad \in SUBSET Nat
    OBVIOUS
  <2> HIDE DEF Bad
  <2> QED BY <2>1, LeastNumber
<1>2. j \in 0..n /\ g[j] # h[j]
  OBVIOUS
<1>3. j # 0
  BY <1>2 DEF Turns
<1>4. j \in 1..n /\ j - 1 \in 0..n /\ ~(j <= j - 1)
  BY <1>2, <1>3
<1>5. g[j - 1] = h[j - 1]
  <2>1. j - 1 \notin Bad
    <3> HIDE DEF Bad
    <3> QED BY <1>1, <1>4
  <2> QED BY <1>4, <2>1
<1>6. g[j] = h[j]
  BY <1>4, <1>5 DEF Turns
<1> QED BY <1>2, <1>6

\* The sequence s of m elements, and t of n, one after the other.
InARow(s, m, t, n, both) ==
    /\ m \in Nat /\ n \in Nat
    /\ DOMAIN s = 1..m /\ DOMAIN t = 1..n /\ DOMAIN both = 1..(m + n)
    /\ \A j \in 1..m : both[j] = s[j]
    /\ \A j \in 1..n : both[m + j] = t[j]

(***************************************************************************)
(* A loop over two sequences in a row.                                     *)
(***************************************************************************)
LEMMA FoldConcat ==
    ASSUME NEW c, NEW base, NEW m, NEW n, NEW s, NEW t, NEW both, InARow(s, m, t, n, both)
    PROVE  Loop(c, base, both) = Loop(c, Loop(c, base, s), t)
<1>a. m \in Nat /\ n \in Nat /\ DOMAIN s = 1..m /\ DOMAIN t = 1..n /\ DOMAIN both = 1..(m + n)
  BY DEF InARow
<1>b. (\A j \in 1..m : both[j] = s[j]) /\ (\A j \in 1..n : both[m + j] = t[j])
  BY DEF InARow
<1>0. m + n \in Nat
  BY <1>a
<1>2. PICK f : Turns(f, c, base, s, m) /\ Loop(c, base, s) = f[m]
  <2>1. m \in Nat /\ DOMAIN s = 1..m
    BY <1>a
  <2> QED BY ONLY <2>1, FoldSteps
<1>1. PICK g : Turns(g, c, base, both, m + n) /\ Loop(c, base, both) = g[m + n]
  <2>1. m + n \in Nat /\ DOMAIN both = 1..(m + n)
    BY <1>0, <1>a
  <2> QED BY ONLY <2>1, FoldSteps
<1>3. Turns(g, c, base, both, m)
  <2>1. \A j \in 1..m : j \in 1..(m + n)
    BY <1>a
  <2> QED BY <1>1, <1>a, <1>b, <2>1 DEF Turns
<1>4. m \in 0..m /\ g[m] = f[m]
  <2>1. m \in Nat /\ m \in 0..m
    BY <1>a
  <2>2. \A j \in 1..m : both[j] = s[j]
    BY <1>b
  <2>3. \A j \in 0..m : g[j] = f[j]
    BY ONLY <1>2, <1>3, <2>1, <2>2, TurnsAgree
  <2> QED BY ONLY <2>1, <2>3
<1> DEFINE h == [j \in 0..n |-> g[m + j]]
<1>5. Turns(h, c, f[m], t, n)
  <2>1. 0 \in 0..n /\ h[0] = f[m]
    BY <1>4, <1>a
  <2>2. ASSUME NEW j \in 1..n PROVE h[j] = Body(c, h[j - 1], t[j])
    <3>1. m + j \in 1..(m + n) /\ (m + j) - 1 = m + (j - 1) /\ j - 1 \in 0..n /\ j \in 0..n
      BY <1>a
    <3>2. g[m + j] = Body(c, g[(m + j) - 1], both[m + j])
      BY <1>1, <3>1 DEF Turns
    <3>3. h[j] = g[m + j] /\ h[j - 1] = g[m + (j - 1)]
      BY <3>1
    <3> QED BY <1>b, <3>1, <3>2, <3>3
  <2> QED BY <2>1, <2>2 DEF Turns
<1>6. h[n] = g[m + n] /\ n \in 0..n
  BY <1>a
<1> HIDE DEF h
<1>7. PICK e : Turns(e, c, f[m], t, n) /\ Loop(c, f[m], t) = e[n]
  BY <1>a, FoldSteps
<1>8. e[n] = h[n]
  BY <1>5, <1>6, <1>7, <1>a, TurnsAgree
<1> QED BY <1>1, <1>2, <1>6, <1>7, <1>8

(***************************************************************************)
(* The last element of a loop.                                             *)
(***************************************************************************)
LEMMA FoldLast ==
    ASSUME NEW c, NEW base, NEW n \in Nat, NEW s, NEW t,
           DOMAIN s = 1..n, DOMAIN t = 1..(n + 1), \A j \in 1..n : t[j] = s[j]
    PROVE  Loop(c, base, t) = Body(c, Loop(c, base, s), t[n + 1])
<1>0. n + 1 \in Nat /\ n + 1 \in 1..(n + 1) /\ (n + 1) - 1 = n /\ n \in 0..n
  OBVIOUS
<1>1. PICK g : Turns(g, c, base, t, n + 1) /\ Loop(c, base, t) = g[n + 1]
  BY <1>0, FoldSteps
<1>2. PICK f : Turns(f, c, base, s, n) /\ Loop(c, base, s) = f[n]
  BY FoldSteps
<1>3. Turns(g, c, base, t, n)
  <2>1. \A j \in 1..n : j \in 1..(n + 1)
    OBVIOUS
  <2> QED BY <1>1, <2>1 DEF Turns
<1>4. g[n] = f[n]
  BY <1>0, <1>2, <1>3, TurnsAgree
<1>5. g[n + 1] = Body(c, g[(n + 1) - 1], t[n + 1])
  BY <1>0, <1>1 DEF Turns
<1> QED BY <1>0, <1>1, <1>2, <1>4, <1>5

-----------------------------------------------------------------------------
(* Loops that count their rounds: the body is told the number of the round. *)

Rounds(c, base, n) ==
    LET state[i \in 0..n] == IF i = 0 THEN base ELSE Body(c, state[i - 1], i)
    IN  state[n]

\* f is the recursive function that Rounds is defined by, up to round n.
Counted(f, c, base, n) ==
    f = [i \in 0..n |-> IF i = 0 THEN base ELSE Body(c, f[i - 1], i)]

\* It exists.
LEMMA RoundsExist ==
    ASSUME NEW c, NEW base, NEW n \in Nat
    PROVE  \E f : Counted(f, c, base, n)
<1> DEFINE E(m) == \E f : Counted(f, c, base, m)
           Bad == {m \in Nat : ~E(m)}
<1> SUFFICES ASSUME Bad # {} PROVE FALSE
  OBVIOUS
<1>1. PICK m \in Bad : \A j \in Bad : m <= j
  <2> HIDE DEF Bad
  <2>1. Bad \in SUBSET Nat
    BY DEF Bad
  <2> QED BY <2>1, LeastNumber
<1>2. E(0)
  <2> DEFINE f == [i \in 0..0 |-> base]
  <2>1. \A i \in 0..0 : i = 0
    OBVIOUS
  <2>2. f = [i \in 0..0 |-> IF i = 0 THEN base ELSE Body(c, f[i - 1], i)]
    BY <2>1, Zenon
  <2> QED BY <2>2 DEF Counted
<1>3. m \in Nat /\ m # 0
  BY <1>2
<1>4. PICK g : Counted(g, c, base, m - 1)
  <2>1. m - 1 \in Nat /\ m - 1 \notin Bad
    BY <1>1, <1>3
  <2> QED BY <2>1
<1> DEFINE f == [i \in 0..m |-> IF i = m THEN Body(c, g[m - 1], m) ELSE g[i]]
<1>g. \A i \in 0..(m - 1) : g[i] = IF i = 0 THEN base ELSE Body(c, g[i - 1], i)
  <2> HIDE DEF f
  <2> QED BY <1>4 DEF Counted
<1>5. ASSUME NEW i \in 0..m
      PROVE  f[i] = IF i = 0 THEN base ELSE Body(c, f[i - 1], i)
  <2>1. i # 0 => i - 1 \in 0..(m - 1) /\ f[i - 1] = g[i - 1]
    BY <1>3
  <2>2. i # m => i \in 0..(m - 1) /\ f[i] = g[i]
    BY <1>3
  <2>3. f[m] = Body(c, g[m - 1], m)
    BY <1>3
  <2> HIDE DEF f
  <2>4. CASE i = m
    BY <1>3, <2>1, <2>3, <2>4
  <2>5. CASE i # m
    BY <1>g, <2>1, <2>2, <2>5
  <2> QED BY <2>4, <2>5
<1>6. f = [i \in 0..m |-> IF i = 0 THEN base ELSE Body(c, f[i - 1], i)]
  <2>1. f = [i \in 0..m |-> f[i]]
    OBVIOUS
  <2> HIDE DEF f
  <2> QED BY <1>5, <2>1, Zenon
<1>7. E(m)
  <2> HIDE DEF f
  <2> QED BY <1>6 DEF Counted
<1> QED BY <1>7

\* What it goes through.
RoundStates(g, c, base, n) ==
    g[0] = base /\ \A j \in 1..n : g[j] = Body(c, g[j - 1], j)

\* Every run of the rounds has such a history.
LEMMA RoundsSteps ==
    ASSUME NEW c, NEW base, NEW n \in Nat
    PROVE  \E g : RoundStates(g, c, base, n) /\ Rounds(c, base, n) = g[n]
<1> DEFINE g == CHOOSE f : Counted(f, c, base, n)
<1>1. Counted(g, c, base, n)
  BY RoundsExist, Zenon
<1>2. Rounds(c, base, n) = g[n]
  BY DEF Rounds, Counted
<1> HIDE DEF g
<1>3. \A i \in 0..n : g[i] = IF i = 0 THEN base ELSE Body(c, g[i - 1], i)
  BY <1>1 DEF Counted
<1>4. g[0] = base /\ \A j \in 1..n : g[j] = Body(c, g[j - 1], j)
  BY <1>3
<1>5. RoundStates(g, c, base, n)
  BY <1>4 DEF RoundStates
<1> QED BY <1>2, <1>5

(***************************************************************************)
(* An invariant that holds before the first round holds after the last.    *)
(***************************************************************************)
LEMMA RoundsRule ==
    ASSUME NEW p, NEW c, NEW base, NEW n \in Nat, Inv(p, base),
           \A i \in 1..n : \A x : Inv(p, x) => Inv(p, Body(c, x, i))
    PROVE  Inv(p, Rounds(c, base, n))
<1>0. PICK g : RoundStates(g, c, base, n) /\ Rounds(c, base, n) = g[n]
  BY RoundsSteps
<1>1. g[0] = base /\ \A j \in 1..n : g[j] = Body(c, g[j - 1], j)
  BY <1>0 DEF RoundStates
<1>2. 0 \in 0..n /\ Inv(p, g[0])
  BY <1>1
<1>3. \A j \in (0 + 1)..n : Inv(p, g[j - 1]) => Inv(p, g[j])
  BY <1>1
<1>4. Inv(p, g[n])
  BY <1>2, <1>3, FoldFrom
<1> QED BY <1>0, <1>4

(***************************************************************************)
(* It may speak of the number of rounds that are done.                     *)
(***************************************************************************)
LEMMA CountedRoundsRule ==
    ASSUME NEW p, NEW c, NEW base, NEW n \in Nat, Inv(p, <<0, base>>),
           \A i \in 1..n : \A x : Inv(p, <<i - 1, x>>) => Inv(p, <<i, Body(c, x, i)>>)
    PROVE  Inv(p, <<n, Rounds(c, base, n)>>)
<1>0. PICK g : RoundStates(g, c, base, n) /\ Rounds(c, base, n) = g[n]
  BY RoundsSteps
<1>1. g[0] = base /\ \A j \in 1..n : g[j] = Body(c, g[j - 1], j)
  BY <1>0 DEF RoundStates
<1> DEFINE h == [j \in 0..n |-> <<j, g[j]>>]
<1>2. 0 \in 0..n /\ h[0] = <<0, base>> /\ h[n] = <<n, Rounds(c, base, n)>>
  BY <1>0, <1>1
<1>5. Inv(p, h[0])
  BY <1>2
<1>3. ASSUME NEW j \in (0 + 1)..n, Inv(p, h[j - 1]) PROVE Inv(p, h[j])
  <2>1. j \in 1..n /\ j \in 0..n /\ j - 1 \in 0..n
    OBVIOUS
  <2>2. h[j - 1] = <<j - 1, g[j - 1]>> /\ h[j] = <<j, g[j]>> /\ g[j] = Body(c, g[j - 1], j)
    BY <1>1, <2>1
  <2> HIDE DEF h
  <2> QED BY <1>1, <1>3, <2>1, <2>2
<1> HIDE DEF h
<1>4. Inv(p, h[n])
  BY <1>2, <1>3, <1>5, FoldFrom
<1> QED BY <1>2, <1>4

(***************************************************************************)
(* The same for a loop over the elements of a sequence.                    *)
(***************************************************************************)
LEMMA CountedFoldRule ==
    ASSUME NEW p, NEW c, NEW base, NEW seq, NEW n \in Nat, DOMAIN seq = 1..n,
           Inv(p, <<0, base>>),
           \A i \in 1..n : \A x : Inv(p, <<i - 1, x>>) => Inv(p, <<i, Body(c, x, seq[i])>>)
    PROVE  Inv(p, <<n, Loop(c, base, seq)>>)
<1>0. PICK g : Turns(g, c, base, seq, n) /\ Loop(c, base, seq) = g[n]
  BY FoldSteps
<1>1. g[0] = base /\ \A j \in 1..n : g[j] = Body(c, g[j - 1], seq[j])
  BY <1>0 DEF Turns
<1> DEFINE h == [j \in 0..n |-> <<j, g[j]>>]
<1>2. 0 \in 0..n /\ h[0] = <<0, base>> /\ h[n] = <<n, Loop(c, base, seq)>>
  BY <1>0, <1>1
<1>5. Inv(p, h[0])
  BY <1>2
<1>3. ASSUME NEW j \in (0 + 1)..n, Inv(p, h[j - 1]) PROVE Inv(p, h[j])
  <2>1. j \in 1..n /\ j \in 0..n /\ j - 1 \in 0..n
    OBVIOUS
  <2>2. h[j - 1] = <<j - 1, g[j - 1]>> /\ h[j] = <<j, g[j]>> /\ g[j] = Body(c, g[j - 1], seq[j])
    BY <1>1, <2>1
  <2> HIDE DEF h
  <2> QED BY <1>1, <1>3, <2>1, <2>2
<1> HIDE DEF h
<1>4. Inv(p, h[n])
  BY <1>2, <1>3, <1>5, FoldFrom
<1> QED BY <1>2, <1>4

=============================================================================
