------------------------ MODULE KnowledgebaseProofs ------------------------
(***************************************************************************)
(* Invariance theorems for Knowledgebase.  The methods are operators on    *)
(* knowledgebases, so each has one lemma: it takes a good knowledgebase to *)
(* a good one.  The theorems then follow action by action.                 *)
(***************************************************************************)
EXTENDS Knowledgebase, CollectionLemmas

(***************************************************************************)
(* The inductive invariant of one knowledgebase.  None of its parts is     *)
(* inductive alone: the list stays sound because a node in it is required, *)
(* it stays in order because no query is stamped in the future, and the    *)
(* count stays exact because an answered node is never counted twice.      *)
(***************************************************************************)
Good(k) ==
    /\ WellTyped(k)
    /\ PrefixClosed(k)
    /\ ListSound(k)
    /\ ListByTime(k)
    /\ StampedInThePast(k)
    /\ CountExact(k)

(***************************************************************************)
(* A fresh knowledgebase is good and has no queries.                       *)
(***************************************************************************)
LEMMA EmptyIsGood == Good(EmptyKnowledgebase) /\ ListComplete(EmptyKnowledgebase)
<1> DEFINE k == EmptyKnowledgebase
<1>1. /\ k.node = [w \in {<<>>} |-> Ignored] /\ k.required = <<>>
      /\ k.answercount = 0 /\ k.largest_symbol = 0 /\ k.timestamp = 1
      /\ DOMAIN k.node = {<<>>}
      /\ k.node[<<>>] = Ignored
  BY DEF EmptyKnowledgebase
<1>2. <<>> \in Word /\ Prefixes(<<>>) = {<<>>}
  <2>1. <<>> \in Word
    BY DEF Word
  <2>2. Len(<<>>) = 0 /\ 0..0 = {0}
    OBVIOUS
  <2>3. SubSeq(<<>>, 1, 0) = <<>>
    BY SubSeqEmpty
  <2> QED BY <2>1, <2>2, <2>3 DEF Prefixes
<1>3. \A s : s # "ignore" => WordsWith(k, s) = {}
  BY <1>1 DEF WordsWith, Ignored
<1>4. WellTyped(k)
  <2>1. k = [node |-> k.node, required |-> k.required, answercount |-> k.answercount,
             largest_symbol |-> k.largest_symbol, timestamp |-> k.timestamp]
    BY DEF EmptyKnowledgebase
  <2>2. k.node \in [DOMAIN k.node -> Node]
    BY <1>1 DEF Node, Status, Ignored
  <2>3. IsFiniteSet(DOMAIN k.node) /\ DOMAIN k.node \subseteq Word
    BY <1>1, <1>2, FS_Singleton
  <2> HIDE DEF k
  <2> QED BY <1>1, <2>1, <2>2, <2>3 DEF WellTyped
<1>5. PrefixClosed(k)
  BY <1>1, <1>2 DEF PrefixClosed
<1>6. ListSound(k) /\ ListComplete(k) /\ ListByTime(k)
  <2>1. Range(<<>>) = {} /\ IsInjective(<<>>) /\ Len(<<>>) = 0
    BY DEF Range, IsInjective
  <2> QED BY <1>1, <1>3, <2>1 DEF ListSound, ListComplete, ListByTime
<1>7. StampedInThePast(k)
  BY <1>1 DEF StampedInThePast
<1>8. CountExact(k)
  BY <1>1, <1>3, FS_EmptySet DEF CountExact
<1> QED BY <1>4, <1>5, <1>6, <1>7, <1>8 DEF Good

(***************************************************************************)
(* find_or_create_descendant adds ignored nodes and disturbs nothing.      *)
(***************************************************************************)
LEMMA FindOrCreateIsGood ==
    ASSUME NEW k, Good(k), NEW W, W \subseteq Word, IsFiniteSet(W)
    PROVE  LET f == find_or_create(k, W) IN
           /\ Good(f)
           /\ ListComplete(k) => ListComplete(f)
           /\ W \subseteq DOMAIN f.node
           /\ DOMAIN k.node \subseteq DOMAIN f.node
           /\ \A v \in DOMAIN k.node : f.node[v] = k.node[v]
           /\ f.required = k.required
           /\ f.timestamp = k.timestamp
           /\ f.answercount = k.answercount
           /\ \A s \in {"required", "answered"} : WordsWith(f, s) = WordsWith(k, s)
<1> DEFINE f == find_or_create(k, W)
           P == UNION {Prefixes(w) : w \in W}
           new == P \ DOMAIN k.node
           labels == UNION {{w[i] + 1 : i \in DOMAIN w} : w \in W}
           D == DOMAIN k.node
<1>1. /\ f.node = [v \in D \cup new |-> IF v \in new THEN Ignored ELSE k.node[v]]
      /\ f.required = k.required /\ f.timestamp = k.timestamp
      /\ f.answercount = k.answercount
      /\ f.largest_symbol = Max({k.largest_symbol} \cup labels)
      /\ f = [node |-> f.node, required |-> f.required, answercount |-> f.answercount,
              largest_symbol |-> f.largest_symbol, timestamp |-> f.timestamp]
  <2> HIDE DEF new, labels
  <2>1. f = [k EXCEPT !.node = [v \in D \cup new |->
                                   IF v \in new THEN Ignored ELSE k.node[v]],
                      !.largest_symbol = Max({k.largest_symbol} \cup labels)]
    BY DEF find_or_create, new, labels
  <2>2. k = [node |-> k.node, required |-> k.required, answercount |-> k.answercount,
             largest_symbol |-> k.largest_symbol, timestamp |-> k.timestamp]
    BY DEF Good, WellTyped
  <2> HIDE DEF f
  <2> QED BY <2>1, <2>2
<1>2. P \subseteq Word /\ IsFiniteSet(P) /\ W \subseteq P
  <2> DEFINE g == [w \in W |-> Prefixes(w)]
  <2>1. IsFiniteSet(Range(g)) /\ Range(g) = {Prefixes(w) : w \in W}
    <3>1. Range(g) = {Prefixes(w) : w \in W}
      BY DEF Range
    <3>2. g = [w \in W |-> g[w]]
      OBVIOUS
    <3> HIDE DEF g
    <3> QED BY <3>1, <3>2, FiniteRange
  <2>2. \A T \in {Prefixes(w) : w \in W} : T \subseteq Word /\ IsFiniteSet(T)
    BY PrefixesOfWord
  <2>3. IsFiniteSet(P)
    BY <2>1, <2>2, FS_UNION, Zenon
  <2>4. P \subseteq Word
    BY <2>2, Zenon
  <2>5. W \subseteq P
    BY PrefixesOfWord
  <2> QED BY <2>3, <2>4, <2>5
<1>3. labels \subseteq Nat /\ IsFiniteSet(labels)
  <2> DEFINE h(w) == [i \in DOMAIN w |-> w[i] + 1]
             g == [w \in W |-> {w[i] + 1 : i \in DOMAIN w}]
  <2>1. \A w \in W : /\ IsFiniteSet({w[i] + 1 : i \in DOMAIN w})
                     /\ {w[i] + 1 : i \in DOMAIN w} \subseteq Nat
    <3> SUFFICES ASSUME NEW w \in W
                 PROVE  /\ IsFiniteSet({w[i] + 1 : i \in DOMAIN w})
                        /\ {w[i] + 1 : i \in DOMAIN w} \subseteq Nat
      OBVIOUS
    <3>1. DOMAIN w = 1..Len(w) /\ Len(w) \in Nat /\ \A i \in DOMAIN w : w[i] \in Nat
      BY SymbolsAssumption, LenProperties, ElementOfSeq DEF Word
    <3>2. IsFiniteSet(DOMAIN w)
      <4> HIDE DEF h, g, labels
      <4>1. IsFiniteSet(1..Len(w))
        BY <3>1, FS_Interval
      <4> QED BY <3>1, <4>1
    <3>3. Range(h(w)) = {w[i] + 1 : i \in DOMAIN w}
      BY DEF Range
    <3>4. IsFiniteSet(Range(h(w)))
      <4>1. h(w) = [x \in DOMAIN w |-> h(w)[x]]
        OBVIOUS
      <4> HIDE DEF h
      <4> QED BY <3>2, <4>1, FiniteRange
    <3> HIDE DEF h
    <3> QED BY <3>1, <3>3, <3>4
  <2>2. IsFiniteSet(Range(g)) /\ Range(g) = {{w[i] + 1 : i \in DOMAIN w} : w \in W}
    <3>1. Range(g) = {{w[i] + 1 : i \in DOMAIN w} : w \in W}
      BY DEF Range
    <3>2. g = [x \in W |-> g[x]]
      OBVIOUS
    <3> HIDE DEF g
    <3> QED BY <3>1, <3>2, FiniteRange
  <2>3. \A T \in {{w[i] + 1 : i \in DOMAIN w} : w \in W} :
           IsFiniteSet(T) /\ T \subseteq Nat
    BY <2>1
  <2>4. IsFiniteSet(labels)
    BY <2>2, <2>3, FS_UNION, Zenon
  <2>5. labels \subseteq Nat
    BY <2>3, Zenon
  <2> QED BY <2>4, <2>5
<1>4. Max({k.largest_symbol} \cup labels) \in Nat
  <2>1. k.largest_symbol \in Nat
    BY DEF Good, WellTyped
  <2>2. IsFiniteSet({k.largest_symbol} \cup labels)
    BY <1>3, FS_Union, FS_Singleton
  <2>3. {k.largest_symbol} \cup labels \subseteq Nat
    BY <2>1, <1>3
  <2> HIDE DEF labels
  <2> QED BY <2>2, <2>3, FiniteSetHasMax
<1>5. /\ DOMAIN f.node = D \cup P
      /\ \A v \in D : f.node[v] = k.node[v]
      /\ \A v \in new : f.node[v] = Ignored
  BY <1>1
<1> HIDE DEF f, P, new, labels
<1>6. WellTyped(f)
  <2>1. DOMAIN f.node \subseteq Word /\ IsFiniteSet(DOMAIN f.node)
    <3>1. D \subseteq Word /\ IsFiniteSet(D)
      BY DEF Good, WellTyped
    <3> HIDE DEF D
    <3> QED BY <1>2, <1>5, <3>1, FS_Union
  <2>2. f.node \in [DOMAIN f.node -> Node]
    <3>1. Ignored \in Node
      BY DEF Ignored, Node, Status
    <3>2. \A v \in D : k.node[v] \in Node
      BY DEF Good, WellTyped
    <3>3. DOMAIN f.node = D \cup new
      BY <1>5 DEF new
    <3> QED BY <1>1, <3>1, <3>2, <3>3
  <2> QED BY <1>1, <1>4, <2>1, <2>2 DEF Good, WellTyped
<1>7. PrefixClosed(f)
  <2>1. <<>> \in DOMAIN f.node
    BY <1>5 DEF Good, PrefixClosed
  <2>2. \A w \in D : Prefixes(w) \subseteq D
    BY DEF Good, PrefixClosed
  <2>3. \A w \in P : Prefixes(w) \subseteq P
    <3> SUFFICES ASSUME NEW u \in W, NEW w \in Prefixes(u) PROVE Prefixes(w) \subseteq P
      BY DEF P
    <3>1. Prefixes(w) \subseteq Prefixes(u)
      BY PrefixesOfWord
    <3> QED BY <3>1 DEF P
  <2> QED BY <1>5, <2>1, <2>2, <2>3 DEF PrefixClosed
<1>8. \A s \in {"required", "answered"} : WordsWith(f, s) = WordsWith(k, s)
  <2>1. \A v \in DOMAIN f.node : v \in D \/ (v \in new /\ f.node[v].status = "ignore")
    BY <1>5 DEF new, Ignored
  <2> QED BY <1>5, <2>1 DEF WordsWith
<1>9. ListSound(f) /\ (ListComplete(k) => ListComplete(f)) /\ CountExact(f)
  BY <1>1, <1>8 DEF Good, ListSound, ListComplete, CountExact
<1>10. StampedInThePast(f)
  <2>1. \A v \in DOMAIN f.node : v \in D \/ v \in new
    BY <1>5 DEF new
  <2> QED BY <1>1, <1>5, <2>1 DEF Good, StampedInThePast
<1>11. ListByTime(f)
  <2>1. \A i \in 1..Len(k.required) : k.required[i] \in D
    <3>1. Range(k.required) \subseteq D /\ k.required \in Seq(Word)
      BY DEF Good, WellTyped, ListSound, WordsWith
    <3> QED BY <3>1, LenProperties DEF Range
  <2>2. \A i \in 1..Len(k.required) : f.node[k.required[i]].ts = k.node[k.required[i]].ts
    BY <1>5, <2>1
  <2>3. ListByTime(k) /\ f.required = k.required
    BY <1>1 DEF Good
  <2> QED BY <2>2, <2>3 DEF ListByTime
<1>12. W \subseteq DOMAIN f.node
  BY <1>2, <1>5
<1> QED BY <1>1, <1>5, <1>6, <1>7, <1>8, <1>9, <1>10, <1>11, <1>12 DEF Good, f

(***************************************************************************)
(* mark_required appends to the list exactly the nodes it turns from       *)
(* ignored to required.                                                    *)
(***************************************************************************)
LEMMA MarkRequiredIsGood ==
    ASSUME NEW k, Good(k),
           NEW ws \in Seq(Word), IsInjective(ws), Range(ws) \subseteq DOMAIN k.node
    PROVE  LET m == mark_required(k, ws) IN
           /\ Good(m)
           /\ ListComplete(k) => ListComplete(m)
           /\ m.timestamp = k.timestamp
<1> DEFINE m == mark_required(k, ws)
           D == DOMAIN k.node
           old == k.required
           fresh == OnlyIn(ws, WordsWith(k, "ignore"))
<1>1. /\ m.node = [v \in D |-> IF v \in Range(fresh) THEN Required(k.timestamp)
                                                      ELSE k.node[v]]
      /\ m.required = old \o fresh
      /\ m.timestamp = k.timestamp
      /\ m.answercount = k.answercount
      /\ m.largest_symbol = k.largest_symbol
      /\ m = [node |-> m.node, required |-> m.required, answercount |-> m.answercount,
              largest_symbol |-> m.largest_symbol, timestamp |-> m.timestamp]
  <2> HIDE DEF fresh
  <2>1. m = [k EXCEPT !.node = [v \in D |->
                                   IF v \in Range(fresh) THEN Required(k.timestamp)
                                                         ELSE k.node[v]],
                      !.required = old \o fresh]
    BY DEF mark_required, fresh
  <2> HIDE DEF m
  <2> QED BY <2>1 DEF Good, WellTyped
<1>2. /\ fresh \in Seq(Word)
      /\ Range(fresh) \subseteq WordsWith(k, "ignore")
      /\ IsInjective(fresh)
  BY OnlyInElements
<1>3. /\ old \in Seq(Word) /\ IsInjective(old)
      /\ Range(old) \subseteq WordsWith(k, "required")
  BY DEF Good, WellTyped, ListSound
<1> HIDE DEF m, fresh, old
<1>4. /\ m.required \in Seq(Word)
      /\ Len(m.required) = Len(old) + Len(fresh)
      /\ \A i \in 1..(Len(old) + Len(fresh)) :
            m.required[i] = IF i <= Len(old) THEN old[i] ELSE fresh[i - Len(old)]
      /\ Range(m.required) = Range(old) \cup Range(fresh)
      /\ Len(old) \in Nat /\ Len(fresh) \in Nat
      /\ DOMAIN m.required = 1..(Len(old) + Len(fresh))
      /\ DOMAIN old = 1..Len(old) /\ DOMAIN fresh = 1..Len(fresh)
  BY <1>1, <1>2, <1>3, ConcatProperties, RangeConcatenation, LenProperties
<1>5. /\ \A i \in 1..Len(old) : old[i] \in WordsWith(k, "required")
      /\ \A i \in 1..Len(fresh) : fresh[i] \in WordsWith(k, "ignore")
  BY <1>2, <1>3, <1>4 DEF Range
<1>6. /\ DOMAIN m.node = D
      /\ \A v \in D : v \notin Range(fresh) => m.node[v] = k.node[v]
      /\ \A v \in Range(fresh) : m.node[v] = Required(k.timestamp)
      /\ Range(fresh) \subseteq D
  BY <1>1, <1>2 DEF WordsWith
<1>7. /\ WordsWith(m, "answered") = WordsWith(k, "answered")
      /\ WordsWith(m, "required") = WordsWith(k, "required") \cup Range(fresh)
  BY <1>2, <1>6 DEF WordsWith, Required
<1>8. WellTyped(m)
  <2>1. k.timestamp \in Nat /\ k.node \in [D -> Node]
    BY DEF Good, WellTyped
  <2>2. Required(k.timestamp) \in Node
    BY <2>1 DEF Required, Node, Status
  <2>3. m.node \in [D -> Node]
    BY <1>1, <2>1, <2>2
  <2> QED BY <1>1, <1>4, <1>6, <2>3 DEF Good, WellTyped
<1>9. PrefixClosed(m)
  BY <1>6 DEF Good, PrefixClosed
<1>10. ListSound(m) /\ (ListComplete(k) => ListComplete(m))
  <2>1. IsInjective(m.required)
    <3> SUFFICES ASSUME NEW i \in DOMAIN m.required, NEW j \in DOMAIN m.required,
                        m.required[i] = m.required[j]
                 PROVE  i = j
      BY DEF IsInjective
    <3>1. WordsWith(k, "required") \cap WordsWith(k, "ignore") = {}
      BY DEF WordsWith
    <3>2. CASE i <= Len(old) /\ j <= Len(old)
      <4>1. i \in DOMAIN old /\ j \in DOMAIN old /\ old[i] = old[j]
        BY <1>3, <1>4, <3>2
      <4> QED BY <1>3, <4>1 DEF IsInjective
    <3>3. CASE ~(i <= Len(old)) /\ ~(j <= Len(old))
      <4> HIDE DEF m, old, fresh
      <4>1. /\ i \in 1..(Len(old) + Len(fresh)) /\ j \in 1..(Len(old) + Len(fresh))
            /\ Len(old) \in Nat /\ Len(fresh) \in Nat
        BY <1>4
      <4>4. i - Len(old) \in 1..Len(fresh) /\ j - Len(old) \in 1..Len(fresh)
        BY <3>3, <4>1
      <4>2. fresh[i - Len(old)] = fresh[j - Len(old)]
        BY <1>4, <3>3, <4>1
      <4>3. i - Len(old) = j - Len(old)
        BY <1>2, <1>4, <4>4, <4>2 DEF IsInjective
      <4> QED BY <4>1, <4>3
    <3>4. CASE i <= Len(old) /\ ~(j <= Len(old))
      <4>1. i \in 1..Len(old) /\ j - Len(old) \in 1..Len(fresh)
        BY <1>4, <3>4
      <4> QED BY <1>4, <1>5, <3>1, <3>4, <4>1
    <3>5. CASE ~(i <= Len(old)) /\ j <= Len(old)
      <4>1. j \in 1..Len(old) /\ i - Len(old) \in 1..Len(fresh)
        BY <1>4, <3>5
      <4> QED BY <1>4, <1>5, <3>1, <3>5, <4>1
    <3> QED BY <3>2, <3>3, <3>4, <3>5
  <2> QED BY <1>3, <1>4, <1>7, <2>1 DEF ListSound, ListComplete, old
<1>11. StampedInThePast(m)
  <2>1. k.timestamp \in 1..k.timestamp
    BY DEF Good, WellTyped
  <2>2. \A v \in D : v \in Range(fresh) \/ m.node[v] = k.node[v]
    BY <1>6
  <2> QED BY <1>1, <1>6, <2>1, <2>2 DEF Good, StampedInThePast, Required
<1>12. ListByTime(m)
  <2> SUFFICES ASSUME NEW i \in 1..Len(m.required), NEW j \in 1..Len(m.required), i < j
               PROVE  m.node[m.required[i]].ts <= m.node[m.required[j]].ts
    BY DEF ListByTime
  <2>1. \A n \in 1..Len(old) : /\ m.node[old[n]] = k.node[old[n]]
                               /\ k.node[old[n]].ts \in 1..k.timestamp
    <3> SUFFICES ASSUME NEW n \in 1..Len(old)
                 PROVE  /\ m.node[old[n]] = k.node[old[n]]
                        /\ k.node[old[n]].ts \in 1..k.timestamp
      OBVIOUS
    <3>1. old[n] \in D /\ k.node[old[n]].status = "required"
      BY <1>5 DEF WordsWith
    <3>2. old[n] \notin Range(fresh)
      BY <1>2, <3>1 DEF WordsWith
    <3> QED BY <1>6, <3>1, <3>2 DEF Good, StampedInThePast, Ignored
  <2>2. \A n \in 1..Len(fresh) : m.node[fresh[n]].ts = k.timestamp
    <3>1. \A n \in 1..Len(fresh) : fresh[n] \in Range(fresh)
      BY <1>4 DEF Range
    <3> QED BY <1>6, <3>1 DEF Required
  <2>3. k.timestamp \in Nat
    BY DEF Good, WellTyped
  <2>4. CASE j <= Len(old)
    <3>1. i \in 1..Len(old) /\ j \in 1..Len(old)
      BY <1>4, <2>4
    <3>2. k.node[old[i]].ts <= k.node[old[j]].ts
      BY <3>1 DEF Good, ListByTime, old
    <3>3. m.required[i] = old[i] /\ m.required[j] = old[j]
      BY <1>4, <3>1
    <3>4. m.node[old[i]].ts = k.node[old[i]].ts /\ m.node[old[j]].ts = k.node[old[j]].ts
      BY <2>1, <3>1
    <3> HIDE DEF m, old
    <3> QED BY <3>2, <3>3, <3>4
  <2>5. CASE ~(j <= Len(old))
    <3>1. j - Len(old) \in 1..Len(fresh) /\ m.required[j] = fresh[j - Len(old)]
      BY <1>4, <2>5
    <3>2. m.node[m.required[j]].ts = k.timestamp
      BY <2>2, <3>1
    <3>3. CASE i <= Len(old)
      <4>1. i \in 1..Len(old) /\ m.required[i] = old[i]
        BY <1>4, <3>3
      <4>2. m.node[old[i]].ts \in 1..k.timestamp
        BY <2>1, <4>1
      <4> HIDE DEF m, old
      <4> QED BY ONLY <2>3, <3>2, <4>1, <4>2
    <3>4. CASE ~(i <= Len(old))
      <4>1. i - Len(old) \in 1..Len(fresh) /\ m.required[i] = fresh[i - Len(old)]
        BY <1>4, <3>4
      <4>2. m.node[m.required[i]].ts = k.timestamp
        BY <2>2, <4>1
      <4> HIDE DEF m, old
      <4> QED BY ONLY <2>3, <3>2, <4>2
    <3> QED BY <3>3, <3>4
  <2> QED BY <2>4, <2>5
<1>13. CountExact(m)
  BY <1>1, <1>7 DEF Good, CountExact
<1> QED BY <1>1, <1>8, <1>9, <1>10, <1>11, <1>12, <1>13 DEF Good, m

(***************************************************************************)
(* Taking words out of the list keeps its order, whatever becomes of the   *)
(* nodes of the words that are taken out.                                  *)
(***************************************************************************)
LEMMA ShorterList ==
    ASSUME NEW k, Good(k), NEW S, NEW f, f.required = OnlyIn(k.required, S),
           \A v \in WordsWith(k, "required") \cap S : f.node[v] = k.node[v]
    PROVE  /\ f.required \in Seq(Word)
           /\ IsInjective(f.required)
           /\ Range(f.required) = Range(k.required) \cap S
           /\ ListByTime(f)
<1> DEFINE old == k.required
           q == f.required
<1>1. old \in Seq(Word) /\ IsInjective(old) /\ Range(old) \subseteq WordsWith(k, "required")
  BY DEF Good, WellTyped, ListSound
<1>2. q \in Seq(Word) /\ IsInjective(q) /\ Range(q) = Range(old) \cap S
  BY <1>1, OnlyInElements
<1>x. Picked(Word, old, S, q)
  BY <1>1, OnlyInByIndex
<1>3. PICK g \in [1..Len(q) -> 1..Len(old)] :
         /\ \A m, n \in 1..Len(q) : m < n => g[m] < g[n]
         /\ \A n \in 1..Len(q) : q[n] = old[g[n]] /\ old[g[n]] \in S
  BY ONLY <1>x DEF Picked
<1>4. \A n \in 1..Len(old) : old[n] \in WordsWith(k, "required")
  BY <1>1, LenProperties DEF Range
<1>5. \A m, n \in 1..Len(old) : m < n => k.node[old[m]].ts <= k.node[old[n]].ts
  BY DEF Good, ListByTime
<1> HIDE DEF old, q
<1>6. ASSUME NEW m \in 1..Len(q), NEW n \in 1..Len(q), m < n
      PROVE  f.node[q[m]].ts <= f.node[q[n]].ts
  <2>1. g[m] \in 1..Len(old) /\ g[n] \in 1..Len(old) /\ g[m] < g[n]
    BY <1>3, <1>6
  <2>2. f.node[q[m]] = k.node[old[g[m]]] /\ f.node[q[n]] = k.node[old[g[n]]]
    BY <1>3, <1>4, <2>1
  <2> QED BY <1>5, <2>1, <2>2
<1> QED BY <1>2, <1>6 DEF ListByTime, q, old

(***************************************************************************)
(* What set_answer, merge_knowledgebase and deserialize_query_acceptances  *)
(* have in common: the nodes in A, none of them answered, get an answer    *)
(* stamped between the old and the new clock, and leave the list.          *)
(***************************************************************************)
LEMMA AnsweringIsGood ==
    ASSUME NEW k, Good(k), NEW f,
           f = [node |-> f.node, required |-> f.required, answercount |-> f.answercount,
                largest_symbol |-> f.largest_symbol, timestamp |-> f.timestamp],
           NEW A, A \subseteq DOMAIN k.node, A \cap WordsWith(k, "answered") = {},
           f.node = [v \in DOMAIN k.node |-> f.node[v]],
           \A v \in DOMAIN k.node \ A : f.node[v] = k.node[v],
           f.timestamp \in Nat, f.timestamp >= k.timestamp,
           \A v \in A : \E t \in k.timestamp..(f.timestamp - 1), a \in Answers :
                           f.node[v] = Answered(t, a),
           f.required \in Seq(Word), IsInjective(f.required), ListByTime(f),
           Range(f.required) = Range(k.required) \ A,
           f.answercount = k.answercount + Cardinality(A),
           f.largest_symbol = k.largest_symbol
    PROVE  Good(f) /\ (ListComplete(k) => ListComplete(f))
<1> DEFINE D == DOMAIN k.node
<1>1. /\ D \subseteq Word /\ IsFiniteSet(D) /\ k.node \in [D -> Node]
      /\ k.timestamp \in Nat \ {0} /\ k.answercount \in Nat /\ k.largest_symbol \in Nat
  BY DEF Good, WellTyped
<1>2. IsFiniteSet(A) /\ Cardinality(A) \in Nat
  BY <1>1, FS_Subset, FS_CardinalityType
<1>3. DOMAIN f.node = D
  OBVIOUS
<1>4. \A v \in A : /\ f.node[v].status = "answered"
                   /\ f.node[v] \in Node
                   /\ f.node[v].ts \in 1..(f.timestamp - 1)
                   /\ f.node[v].ans \in Answers
  <2> SUFFICES ASSUME NEW v \in A
               PROVE  /\ f.node[v].status = "answered"
                      /\ f.node[v] \in Node
                      /\ f.node[v].ts \in 1..(f.timestamp - 1)
                      /\ f.node[v].ans \in Answers
    OBVIOUS
  <2>1. PICK t \in k.timestamp..(f.timestamp - 1), a \in Answers :
           f.node[v] = Answered(t, a)
    OBVIOUS
  <2>2. t \in Nat /\ t \in 1..(f.timestamp - 1)
    BY <1>1, <2>1
  <2> QED BY <2>1, <2>2 DEF Answered, Node, Status
<1>5. /\ WordsWith(f, "answered") = WordsWith(k, "answered") \cup A
      /\ WordsWith(f, "required") = WordsWith(k, "required") \ A
  <2>1. A \subseteq D /\ \A v \in A : f.node[v].status = "answered"
    BY <1>4
  <2>2. \A v \in D \ A : f.node[v].status = k.node[v].status
    OBVIOUS
  <2>3. WordsWith(f, "answered") = WordsWith(k, "answered") \cup A
    BY <1>3, <2>1, <2>2 DEF WordsWith
  <2>4. WordsWith(f, "required") = WordsWith(k, "required") \ A
    BY <1>3, <2>1, <2>2 DEF WordsWith
  <2> QED BY <2>3, <2>4
<1>6. WellTyped(f)
  <2>1. \A v \in D : f.node[v] \in Node
    BY <1>1, <1>4
  <2>2. f.node \in [D -> Node]
    BY <2>1
  <2>3. f.answercount \in Nat /\ f.timestamp \in Nat \ {0}
    BY <1>1, <1>2
  <2> QED BY <1>1, <1>3, <2>2, <2>3 DEF WellTyped
<1>7. PrefixClosed(f)
  BY <1>3 DEF Good, PrefixClosed
<1>8. ListSound(f) /\ (ListComplete(k) => ListComplete(f))
  BY <1>5 DEF Good, ListSound, ListComplete
<1>9. StampedInThePast(f)
  <2> SUFFICES ASSUME NEW v \in D
               PROVE  \/ /\ f.node[v].status = "answered"
                         /\ f.node[v].ts \in 1..(f.timestamp - 1)
                         /\ f.node[v].ans \in Answers
                      \/ /\ f.node[v].status = "required"
                         /\ f.node[v].ts \in 1..f.timestamp /\ f.node[v].ans = NoAnswer
                      \/ f.node[v] = Ignored
    BY <1>3 DEF StampedInThePast
  <2>1. CASE v \in A
    BY <1>4, <2>1
  <2>2. CASE v \notin A
    <3>1. f.node[v] = k.node[v]
      BY <2>2
    <3>2. 1..(k.timestamp - 1) \subseteq 1..(f.timestamp - 1) /\ 1..k.timestamp \subseteq 1..f.timestamp
      BY <1>1
    <3> QED BY <3>1, <3>2 DEF Good, StampedInThePast
  <2> QED BY <2>1, <2>2
<1>10. CountExact(f)
  <2>1. IsFiniteSet(WordsWith(k, "answered")) /\ Cardinality(WordsWith(k, "answered")) \in Nat
    BY <1>1, FS_Subset, FS_CardinalityType DEF WordsWith
  <2>2. Cardinality(WordsWith(k, "answered") \cap A) = 0
    BY FS_EmptySet
  <2>3. Cardinality(WordsWith(k, "answered") \cup A)
          = Cardinality(WordsWith(k, "answered")) + Cardinality(A)
    <3> DEFINE B == WordsWith(k, "answered")
    <3>1. Cardinality(B \cup A) = Cardinality(B) + Cardinality(A) - Cardinality(B \cap A)
      BY <1>2, <2>1, FS_Union, Zenon
    <3> HIDE DEF B
    <3> QED BY <1>2, <2>1, <2>2, <3>1 DEF B
  <2> QED BY <1>5, <2>3 DEF Good, CountExact
<1> QED BY <1>6, <1>7, <1>8, <1>9, <1>10 DEF Good

(***************************************************************************)
(* set_answer stamps with the clock and then ticks.                        *)
(***************************************************************************)
LEMMA SetAnswerIsGood ==
    ASSUME NEW k, Good(k), NEW w \in DOMAIN k.node, NEW a \in Answers
    PROVE  LET f == set_answer(k, w, a) IN
           Good(f) /\ (ListComplete(k) => ListComplete(f))
<1>1. CASE is_answered(k, w)
  BY <1>1 DEF set_answer
<1>2. CASE ~is_answered(k, w)
  <2> DEFINE f == set_answer(k, w, a)
  <2>1. /\ f.node = [v \in DOMAIN k.node |->
                       IF v = w THEN Answered(k.timestamp, a) ELSE k.node[v]]
        /\ f.required = OnlyIn(k.required, Word \ {w})
        /\ f.answercount = k.answercount + 1
        /\ f.largest_symbol = k.largest_symbol
        /\ f.timestamp = k.timestamp + 1
        /\ f = [node |-> f.node, required |-> f.required, answercount |-> f.answercount,
                largest_symbol |-> f.largest_symbol, timestamp |-> f.timestamp]
    <3>1. f = [k EXCEPT !.node[w] = Answered(k.timestamp, a),
                        !.required = OnlyIn(k.required, Word \ {w}),
                        !.answercount = k.answercount + 1,
                        !.timestamp = k.timestamp + 1]
      BY <1>2 DEF set_answer
    <3>2. k.node = [v \in DOMAIN k.node |-> k.node[v]]
      BY DEF Good, WellTyped
    <3> HIDE DEF f
    <3> QED BY <3>1, <3>2 DEF Good, WellTyped
  <2> HIDE DEF f
  <2>2. /\ {w} \cap WordsWith(k, "answered") = {}
        /\ Cardinality({w}) = 1
        /\ k.timestamp \in Nat \ {0} /\ k.required \in Seq(Word)
    BY <1>2, FS_Singleton DEF is_answered, WordsWith, Good, WellTyped
  <2>3. /\ f.required \in Seq(Word) /\ IsInjective(f.required) /\ ListByTime(f)
        /\ Range(f.required) = Range(k.required) \ {w}
    <3>1. \A v \in WordsWith(k, "required") \cap (Word \ {w}) : f.node[v] = k.node[v]
      BY <2>1 DEF WordsWith
    <3>2. Range(k.required) \subseteq Word
      BY <2>2, RangeOfSeq
    <3>3. f.required = OnlyIn(k.required, Word \ {w})
      BY <2>1
    <3>4. /\ f.required \in Seq(Word) /\ IsInjective(f.required) /\ ListByTime(f)
          /\ Range(f.required) = Range(k.required) \cap (Word \ {w})
      BY <3>1, <3>3, ShorterList, Zenon
    <3> QED BY <3>2, <3>4
  <2>4. \E t \in k.timestamp..(f.timestamp - 1), b \in Answers : f.node[w] = Answered(t, b)
    BY <2>1, <2>2
  <2>5. \A v \in DOMAIN k.node \ {w} : f.node[v] = k.node[v]
    BY <2>1
  <2>6. f.node = [v \in DOMAIN k.node |-> f.node[v]]
    BY <2>1
  <2>7. f.timestamp \in Nat /\ f.timestamp >= k.timestamp
    BY <2>1, <2>2
  <2>8. Good(f) /\ (ListComplete(k) => ListComplete(f))
    <3>1. \A v \in {w} : \E t \in k.timestamp..(f.timestamp - 1), b \in Answers :
                             f.node[v] = Answered(t, b)
      BY <2>4
    <3>2. {w} \subseteq DOMAIN k.node /\ f.answercount = k.answercount + Cardinality({w})
      BY <2>1, <2>2
    <3> DEFINE A == {w}
    <3> HIDE DEF A
    <3>3. A = {w}
      BY DEF A
    <3> QED BY <2>1, <2>2, <2>3, <2>5, <2>6, <2>7, <3>1, <3>2, <3>3, AnsweringIsGood, Zenon
  <2> QED BY <2>8 DEF f
<1> QED BY <1>1, <1>2

(***************************************************************************)
(* ignore forgets the nodes of W: their answers are no longer counted and  *)
(* their queries no longer listed.  The clock stands still.                *)
(***************************************************************************)
LEMMA IgnoreIsGood ==
    ASSUME NEW k, Good(k), NEW W, W \subseteq DOMAIN k.node
    PROVE  LET f == ignore(k, W) IN
           /\ Good(f)
           /\ ListComplete(k) => ListComplete(f)
           /\ f.timestamp = k.timestamp
           /\ DOMAIN f.node = DOMAIN k.node
           /\ \A v \in DOMAIN k.node :
                 f.node[v] = IF v \in W THEN Ignored ELSE k.node[v]
<1> DEFINE f == ignore(k, W)
           D == DOMAIN k.node
           gone == W \cap WordsWith(k, "answered")
<1>1. /\ f.node = [v \in D |-> IF v \in W THEN Ignored ELSE k.node[v]]
      /\ f.required = OnlyIn(k.required, Word \ W)
      /\ f.answercount = k.answercount - Cardinality(gone)
      /\ f.largest_symbol = k.largest_symbol
      /\ f.timestamp = k.timestamp
      /\ f = [node |-> f.node, required |-> f.required, answercount |-> f.answercount,
              largest_symbol |-> f.largest_symbol, timestamp |-> f.timestamp]
  <2>1. f = [k EXCEPT !.node = [v \in D |-> IF v \in W THEN Ignored ELSE k.node[v]],
                      !.required = OnlyIn(k.required, Word \ W),
                      !.answercount = k.answercount - Cardinality(gone)]
    BY DEF ignore
  <2> HIDE DEF f, gone
  <2> QED BY <2>1 DEF Good, WellTyped
<1> HIDE DEF f
<1>2. /\ D \subseteq Word /\ IsFiniteSet(D) /\ k.node \in [D -> Node]
      /\ k.required \in Seq(Word) /\ k.answercount = Cardinality(WordsWith(k, "answered"))
  BY DEF Good, WellTyped, CountExact
<1>3. /\ DOMAIN f.node = D
      /\ \A v \in D : f.node[v] = IF v \in W THEN Ignored ELSE k.node[v]
  BY <1>1
<1>4. /\ WordsWith(f, "answered") = WordsWith(k, "answered") \ W
      /\ WordsWith(f, "required") = WordsWith(k, "required") \ W
  BY <1>3 DEF WordsWith, Ignored
<1>5. /\ f.required \in Seq(Word) /\ IsInjective(f.required) /\ ListByTime(f)
      /\ Range(f.required) = Range(k.required) \ W
  <2>1. \A v \in WordsWith(k, "required") \cap (Word \ W) : f.node[v] = k.node[v]
    BY <1>3 DEF WordsWith
  <2>2. Range(k.required) \subseteq Word
    BY <1>2, RangeOfSeq
  <2>3. f.required = OnlyIn(k.required, Word \ W)
    BY <1>1
  <2>4. /\ f.required \in Seq(Word) /\ IsInjective(f.required) /\ ListByTime(f)
        /\ Range(f.required) = Range(k.required) \cap (Word \ W)
    BY <2>1, <2>3, ShorterList, Zenon
  <2> QED BY <2>2, <2>4
<1>6. f.answercount = Cardinality(WordsWith(f, "answered")) /\ f.answercount \in Nat
  <2>1. IsFiniteSet(WordsWith(k, "answered"))
    BY <1>2, FS_Subset DEF WordsWith
  <2>2. /\ IsFiniteSet(WordsWith(k, "answered") \ W)
        /\ Cardinality(WordsWith(k, "answered") \ W)
             = Cardinality(WordsWith(k, "answered")) - Cardinality(WordsWith(k, "answered") \cap W)
    BY <2>1, FS_Difference
  <2>3. gone = WordsWith(k, "answered") \cap W
    OBVIOUS
  <2>4. Cardinality(WordsWith(k, "answered") \ W) \in Nat
    BY <2>2, FS_CardinalityType
  <2> QED BY <1>1, <1>2, <1>4, <2>2, <2>3, <2>4
<1>7. WellTyped(f)
  <2>1. Ignored \in Node
    BY DEF Ignored, Node, Status
  <2>2. f.node \in [D -> Node]
    BY <1>1, <1>2, <2>1
  <2> QED BY <1>1, <1>2, <1>3, <1>5, <1>6, <2>2 DEF Good, WellTyped
<1>8. PrefixClosed(f)
  BY <1>3 DEF Good, PrefixClosed
<1>9. ListSound(f) /\ (ListComplete(k) => ListComplete(f))
  BY <1>4, <1>5 DEF Good, ListSound, ListComplete
<1>10. StampedInThePast(f)
  BY <1>1, <1>3 DEF Good, StampedInThePast
<1> QED BY <1>1, <1>3, <1>5, <1>6, <1>7, <1>8, <1>9, <1>10 DEF Good, CountExact, f

(***************************************************************************)
(* cleanup deletes ignored nodes only, and only where no prefix of a word  *)
(* that matters is lost.                                                   *)
(***************************************************************************)
LEMMA CleanupIsGood ==
    ASSUME NEW k, Good(k)
    PROVE  LET f == cleanup(k) IN
           /\ Good(f)
           /\ ListComplete(k) => ListComplete(f)
           /\ f.timestamp = k.timestamp
<1> DEFINE f == cleanup(k)
           D == DOMAIN k.node
           live == D \ WordsWith(k, "ignore")
           kept == {<<>>} \cup UNION {Prefixes(w) : w \in live}
<1>2. /\ D \subseteq Word /\ IsFiniteSet(D) /\ k.node \in [D -> Node]
      /\ <<>> \in D /\ \A w \in D : Prefixes(w) \subseteq D
  BY DEF Good, WellTyped, PrefixClosed
<1>3. kept \subseteq D /\ live \subseteq kept
  BY <1>2, PrefixesOfWord
<1>1. /\ f.node = [v \in kept |-> k.node[v]]
      /\ f.required = k.required
      /\ f.answercount = k.answercount
      /\ f.largest_symbol = k.largest_symbol
      /\ f.timestamp = k.timestamp
      /\ f = [node |-> f.node, required |-> f.required, answercount |-> f.answercount,
              largest_symbol |-> f.largest_symbol, timestamp |-> f.timestamp]
  <2>1. f = [k EXCEPT !.node = [v \in D \cap kept |-> k.node[v]]] /\ D \cap kept = kept
    BY <1>3 DEF cleanup
  <2> HIDE DEF f, kept
  <2> QED BY <2>1 DEF Good, WellTyped
<1>4. \A w \in kept : Prefixes(w) \subseteq kept
  <2>1. Prefixes(<<>>) = {<<>>}
    <3>1. Len(<<>>) = 0 /\ 0..0 = {0}
      OBVIOUS
    <3>2. SubSeq(<<>>, 1, 0) = <<>>
      BY SubSeqEmpty
    <3> QED BY <3>1, <3>2 DEF Prefixes
  <2>2. ASSUME NEW u \in live, NEW w \in Prefixes(u) PROVE Prefixes(w) \subseteq kept
    <3>1. Prefixes(w) \subseteq Prefixes(u)
      BY <1>2, PrefixesOfWord
    <3> QED BY <3>1
  <2> QED BY <2>1, <2>2
<1> HIDE DEF f, kept
<1>5. DOMAIN f.node = kept /\ \A v \in kept : f.node[v] = k.node[v]
  BY <1>1
<1>6. \A s \in {"required", "answered"} : WordsWith(f, s) = WordsWith(k, s)
  BY <1>3, <1>5 DEF WordsWith
<1>7. WellTyped(f)
  <2>1. IsFiniteSet(kept) /\ kept \subseteq Word
    BY <1>2, <1>3, FS_Subset
  <2>2. f.node \in [kept -> Node]
    BY <1>1, <1>2, <1>3
  <2> QED BY <1>1, <1>5, <2>1, <2>2 DEF Good, WellTyped
<1>8. PrefixClosed(f)
  BY <1>4, <1>5 DEF PrefixClosed, kept
<1>9. ListSound(f) /\ (ListComplete(k) => ListComplete(f)) /\ CountExact(f)
  BY <1>1, <1>6 DEF Good, ListSound, ListComplete, CountExact
<1>10. StampedInThePast(f)
  BY <1>1, <1>3, <1>5 DEF Good, StampedInThePast
<1>11. ListByTime(f)
  <2>1. \A i \in 1..Len(k.required) : k.required[i] \in kept
    <3>1. \A i \in 1..Len(k.required) : k.required[i] \in WordsWith(k, "required")
      BY LenProperties DEF Good, WellTyped, ListSound, Range
    <3> QED BY <1>3, <3>1 DEF WordsWith
  <2> QED BY <1>1, <1>5, <2>1 DEF Good, ListByTime
<1> QED BY <1>1, <1>7, <1>8, <1>9, <1>10, <1>11 DEF Good, f

(***************************************************************************)
(* The clock may be set to any value above all timestamps.                 *)
(***************************************************************************)
LEMMA SetClockIsGood ==
    ASSUME NEW k, Good(k), NEW t \in Nat \ {0}, \A v \in DOMAIN k.node : k.node[v].ts < t
    PROVE  LET f == [k EXCEPT !.timestamp = t] IN
           /\ Good(f)
           /\ ListComplete(k) => ListComplete(f)
           /\ f.timestamp = t
<1> DEFINE f == [k EXCEPT !.timestamp = t]
<1>1. /\ f.node = k.node /\ f.required = k.required /\ f.timestamp = t
      /\ f.answercount = k.answercount /\ f.largest_symbol = k.largest_symbol
      /\ f = [node |-> f.node, required |-> f.required, answercount |-> f.answercount,
              largest_symbol |-> f.largest_symbol, timestamp |-> f.timestamp]
  BY DEF Good, WellTyped
<1> HIDE DEF f
<1>2. \A s : WordsWith(f, s) = WordsWith(k, s)
  BY <1>1 DEF WordsWith
<1>3. WellTyped(f) /\ PrefixClosed(f)
  BY <1>1 DEF Good, WellTyped, PrefixClosed
<1>4. ListSound(f) /\ ListByTime(f) /\ (ListComplete(k) => ListComplete(f)) /\ CountExact(f)
  BY <1>1, <1>2 DEF Good, ListSound, ListByTime, ListComplete, CountExact
<1>5. StampedInThePast(f)
  <2>1. \A v \in DOMAIN k.node : k.node[v].ts \in Nat
    BY DEF Good, WellTyped, Node
  <2> QED BY <1>1, <2>1 DEF Good, StampedInThePast
<1> QED BY <1>1, <1>3, <1>4, <1>5 DEF Good, f

(***************************************************************************)
(* undo: whatever the count, nothing that stays is stamped at or after the *)
(* new clock - also when the subtraction wraps around.                     *)
(***************************************************************************)
LEMMA UndoIsGood ==
    ASSUME NEW k, Good(k), NEW count \in Nat
    PROVE  Good(undo(k, count)) /\ (ListComplete(k) => ListComplete(undo(k, count)))
<1> DEFINE limit == (k.timestamp - count) % TSMod
           since == {w \in DOMAIN k.node : k.node[w].ts >= limit}
           g == ignore(k, since)
           t == IF limit < 1 THEN 1 ELSE limit
           h == [g EXCEPT !.timestamp = t]
<1>1. limit \in Nat
  <2>1. k.timestamp - count \in Int
    BY DEF Good, WellTyped
  <2> QED BY <2>1, TSModAssumption
<1>2. /\ Good(g) /\ (ListComplete(k) => ListComplete(g))
      /\ DOMAIN g.node = DOMAIN k.node
      /\ \A v \in DOMAIN k.node : g.node[v] = IF v \in since THEN Ignored ELSE k.node[v]
  <2>1. since \subseteq DOMAIN k.node
    OBVIOUS
  <2> HIDE DEF since
  <2> QED BY <2>1, IgnoreIsGood
<1>3. \A v \in DOMAIN g.node : g.node[v].ts < t
  <2>1. \A v \in DOMAIN k.node : k.node[v].ts \in Nat
    BY DEF Good, WellTyped, Node
  <2>2. ASSUME NEW v \in DOMAIN k.node PROVE g.node[v].ts < t
    <3>1. CASE v \in since
      <4>1. g.node[v].ts = 0
        BY <1>2, <3>1 DEF Ignored
      <4> HIDE DEF g, limit
      <4> QED BY <1>1, <4>1
    <3>2. CASE v \notin since
      <4>1. g.node[v].ts = k.node[v].ts /\ ~(k.node[v].ts >= limit)
        BY <1>2, <3>2
      <4> HIDE DEF g, limit
      <4> QED BY <1>1, <2>1, <4>1
    <3> QED BY <3>1, <3>2
  <2> QED BY <1>2, <2>2
<1>4. t \in Nat \ {0}
  <2> HIDE DEF limit
  <2> QED BY <1>1
<1> HIDE DEF g, t
<1>5. Good(h) /\ (ListComplete(g) => ListComplete(h))
  BY <1>2, <1>3, <1>4, SetClockIsGood
<1>6. undo(k, count) = cleanup(h)
  BY Zenon DEF undo, g, t
<1> HIDE DEF h
<1> QED BY <1>2, <1>5, <1>6, CleanupIsGood

(***************************************************************************)
(* The remaining methods that only compose the ones above.                 *)
(***************************************************************************)
LEMMA ClearQueriesIsGood ==
    ASSUME NEW k, Good(k)
    PROVE  Good(clear_queries(k)) /\ (ListComplete(k) => ListComplete(clear_queries(k)))
<1>1. Range(k.required) \subseteq DOMAIN k.node
  BY DEF Good, ListSound, WordsWith
<1>2. /\ Good(ignore(k, Range(k.required)))
      /\ ListComplete(k) => ListComplete(ignore(k, Range(k.required)))
  BY <1>1, IgnoreIsGood
<1> QED BY <1>2, CleanupIsGood DEF clear_queries

\* find_or_create for one word, the way most methods begin.
LEMMA FindOrCreateOne ==
    ASSUME NEW k, Good(k), NEW w \in Word
    PROVE  LET f == find_or_create(k, {w}) IN
           /\ Good(f)
           /\ ListComplete(k) => ListComplete(f)
           /\ w \in DOMAIN f.node
<1> DEFINE W == {w}
<1>1. W \subseteq Word /\ IsFiniteSet(W) /\ w \in W
  BY FS_Singleton
<1> HIDE DEF W
<1>2. LET f == find_or_create(k, W) IN
      Good(f) /\ (ListComplete(k) => ListComplete(f)) /\ W \subseteq DOMAIN f.node
  BY <1>1, FindOrCreateIsGood, Zenon
<1> QED BY <1>1, <1>2 DEF W

LEMMA AddKnowledgeIsGood ==
    ASSUME NEW k, Good(k), NEW w \in Word, NEW a \in Answers
    PROVE  /\ Good(add_knowledge(k, w, a))
           /\ ListComplete(k) => ListComplete(add_knowledge(k, w, a))
<1> DEFINE f == find_or_create(k, {w})
<1>1. Good(f) /\ (ListComplete(k) => ListComplete(f)) /\ w \in DOMAIN f.node
  BY FindOrCreateOne
<1> HIDE DEF f
<1>2. Good(set_answer(f, w, a)) /\ (ListComplete(f) => ListComplete(set_answer(f, w, a)))
  BY <1>1, SetAnswerIsGood
<1> QED BY <1>1, <1>2 DEF add_knowledge, f

LEMMA AddOrAlterKnowledgeIsGood ==
    ASSUME NEW k, Good(k), NEW w \in Word, NEW a \in Answers
    PROVE  /\ Good(add_or_alter_knowledge(k, w, a))
           /\ ListComplete(k) => ListComplete(add_or_alter_knowledge(k, w, a))
<1> DEFINE f == find_or_create(k, {w})
           g == ignore(f, {w})
<1>1. Good(f) /\ (ListComplete(k) => ListComplete(f)) /\ w \in DOMAIN f.node
  BY FindOrCreateOne
<1> HIDE DEF f
<1>2. {w} \subseteq DOMAIN f.node
  BY <1>1
<1>3. Good(g) /\ (ListComplete(f) => ListComplete(g)) /\ DOMAIN g.node = DOMAIN f.node
  BY <1>1, <1>2, IgnoreIsGood
<1> HIDE DEF g
<1>4. Good(set_answer(g, w, a)) /\ (ListComplete(g) => ListComplete(set_answer(g, w, a)))
  BY <1>1, <1>3, SetAnswerIsGood
<1> QED BY <1>1, <1>3, <1>4 DEF add_or_alter_knowledge, f, g

(***************************************************************************)
(* add_query: the prefixes it marks are distinct words on the path to w.   *)
(***************************************************************************)
LEMMA AddQueryIsGood ==
    ASSUME NEW k, Good(k), NEW w \in Word, NEW p \in Nat
    PROVE  Good(add_query(k, w, p)) /\ (ListComplete(k) => ListComplete(add_query(k, w, p)))
<1> DEFINE f == find_or_create(k, {w})
           first == IF p > Len(w) THEN 0 ELSE Len(w) - p
           ws == [i \in 1..(Len(w) - first + 1) |-> SubSeq(w, 1, first + i - 1)]
<1>1. Good(f) /\ (ListComplete(k) => ListComplete(f)) /\ w \in DOMAIN f.node
  BY FindOrCreateOne
<1>2. /\ Len(w) \in Nat /\ first \in Nat /\ first <= Len(w)
      /\ \A i \in 1..Len(w) : w[i] \in Symbols
  BY LenProperties, ElementOfSeq DEF Word
<1> HIDE DEF f, first
<1>3. ASSUME NEW i \in 1..(Len(w) - first + 1)
      PROVE  /\ SubSeq(w, 1, first + i - 1) \in Word
             /\ Len(SubSeq(w, 1, first + i - 1)) = first + i - 1
             /\ SubSeq(w, 1, first + i - 1) \in DOMAIN f.node
  <2>1. first + i - 1 \in 0..Len(w)
    BY <1>2
  <2>2. SubSeq(w, 1, first + i - 1) \in Prefixes(w)
    BY <2>1 DEF Prefixes
  <2>3. Prefixes(w) \subseteq DOMAIN f.node
    BY <1>1 DEF Good, PrefixClosed
  <2>4. Len(SubSeq(w, 1, first + i - 1)) = first + i - 1
    BY <1>2, <2>1, SubSeqProperties
  <2> QED BY <2>2, <2>3, <2>4, PrefixesOfWord
<1>4. /\ ws \in Seq(Word) /\ IsInjective(ws) /\ Range(ws) \subseteq DOMAIN f.node
  <2>1. DOMAIN ws = 1..(Len(w) - first + 1)
    OBVIOUS
  <2>2. \A i \in DOMAIN ws : Len(ws[i]) = first + i - 1 /\ ws[i] \in Word /\ ws[i] \in DOMAIN f.node
    BY <1>3
  <2>3. ws \in Seq(Word)
    <3> DEFINE n == Len(w) - first + 1
    <3>1. n \in Nat
      BY <1>2
    <3>2. ws \in [1..n -> Word]
      BY <1>3
    <3> HIDE DEF ws, n
    <3> QED BY <3>1, <3>2
  <2>4. IsInjective(ws)
    <3> HIDE DEF ws
    <3> QED BY <1>2, <2>1, <2>2 DEF IsInjective
  <2> HIDE DEF ws
  <2> QED BY <2>2, <2>3, <2>4 DEF Range
<1>5. add_query(k, w, p) = mark_required(f, ws)
  BY Zenon DEF add_query, f, first
<1> HIDE DEF ws
<1> QED BY <1>1, <1>4, <1>5, MarkRequiredIsGood

(***************************************************************************)
(* resolve_or_add_query: known, decided by the filter, or a new query.     *)
(***************************************************************************)
LEMMA ResolveOrAddQueryIsGood ==
    ASSUME NEW k, Good(k), NEW w \in Word
    PROVE  /\ Good(resolve_or_add_query(k, w))
           /\ ListComplete(k) => ListComplete(resolve_or_add_query(k, w))
<1> DEFINE f == find_or_create(k, {w})
           r == resolve_or_add_query(k, w)
<1>1. Good(f) /\ (ListComplete(k) => ListComplete(f)) /\ w \in DOMAIN f.node
  BY FindOrCreateOne
<1>2. r = IF is_answered(f, w) THEN f
          ELSE IF w \in DOMAIN Filter THEN set_answer(f, w, Filter[w])
          ELSE mark_required(f, <<w>>)
  BY Zenon DEF resolve_or_add_query
<1> HIDE DEF f, r
<1>3. CASE is_answered(f, w)
  BY <1>1, <1>2, <1>3 DEF r
<1>4. CASE ~is_answered(f, w) /\ w \in DOMAIN Filter
  <2>1. Filter[w] \in Answers
    BY <1>4, FilterAssumption
  <2>2. r = set_answer(f, w, Filter[w])
    BY <1>2, <1>4
  <2> QED BY <1>1, <2>1, <2>2, SetAnswerIsGood DEF r
<1>5. CASE ~is_answered(f, w) /\ w \notin DOMAIN Filter
  <2>1. r = mark_required(f, <<w>>)
    BY <1>2, <1>5
  <2>2. /\ <<w>> \in Seq(Word) /\ IsInjective(<<w>>) /\ Range(<<w>>) \subseteq DOMAIN f.node
    BY <1>1 DEF IsInjective, Range
  <2> DEFINE ws == <<w>>
  <2> HIDE DEF ws
  <2>3. ws = <<w>>
    BY DEF ws
  <2>4. ws \in Seq(Word) /\ IsInjective(ws) /\ Range(ws) \subseteq DOMAIN f.node
    BY <2>2, <2>3
  <2> QED BY <1>1, <2>1, <2>3, <2>4, MarkRequiredIsGood DEF r
<1> QED BY <1>3, <1>4, <1>5

(***************************************************************************)
(* merge_knowledgebase: a conflict changes nothing; otherwise all that is  *)
(* new is stamped with the old clock, which then ticks once.               *)
(***************************************************************************)
LEMMA MergeIsGood ==
    ASSUME NEW k, Good(k), NEW other, Good(other)
    PROVE  /\ Good(merge_knowledgebase(k, other))
           /\ ListComplete(k) => ListComplete(merge_knowledgebase(k, other))
<1>1. CASE recursive_different(k, other)
  BY <1>1 DEF merge_knowledgebase
<1>2. CASE ~recursive_different(k, other)
  <2> DEFINE known == WordsWith(other, "answered")
             new == known \ WordsWith(k, "answered")
             f == find_or_create(k, known)
             m == merge_knowledgebase(k, other)
  <2>1. known \subseteq Word /\ IsFiniteSet(known)
    <3>1. known \subseteq DOMAIN other.node
      BY DEF WordsWith
    <3> QED BY <3>1, FS_Subset DEF Good, WellTyped
  <2>2. /\ Good(f) /\ (ListComplete(k) => ListComplete(f))
        /\ known \subseteq DOMAIN f.node
        /\ f.required = k.required /\ f.timestamp = k.timestamp
        /\ f.answercount = k.answercount
        /\ WordsWith(f, "answered") = WordsWith(k, "answered")
    <3> HIDE DEF known, f
    <3>1. "answered" \in {"required", "answered"}
      OBVIOUS
    <3> QED BY <2>1, <3>1, FindOrCreateIsGood, Zenon DEF f
  <2>3. m = [f EXCEPT !.node = [v \in DOMAIN f.node |->
                                   IF v \in new
                                   THEN Answered(k.timestamp, other.node[v].ans)
                                   ELSE f.node[v]],
                      !.required = OnlyIn(f.required, Word \ new),
                      !.answercount = f.answercount + Cardinality(new),
                      !.timestamp = f.timestamp + 1]
    BY <1>2, Zenon DEF merge_knowledgebase
  <2> HIDE DEF m, f, new
  <2>4. /\ m.node = [v \in DOMAIN f.node |->
                        IF v \in new THEN Answered(k.timestamp, other.node[v].ans)
                                     ELSE f.node[v]]
        /\ m.required = OnlyIn(f.required, Word \ new)
        /\ m.answercount = f.answercount + Cardinality(new)
        /\ m.timestamp = f.timestamp + 1
        /\ m.largest_symbol = f.largest_symbol
        /\ m = [node |-> m.node, required |-> m.required, answercount |-> m.answercount,
                largest_symbol |-> m.largest_symbol, timestamp |-> m.timestamp]
    BY <2>2, <2>3 DEF Good, WellTyped
  <2>5. /\ new \subseteq DOMAIN f.node /\ new \cap WordsWith(f, "answered") = {}
        /\ f.timestamp \in Nat \ {0} /\ f.required \in Seq(Word)
    BY <2>2 DEF new, Good, WellTyped
  <2>6. /\ m.required \in Seq(Word) /\ IsInjective(m.required) /\ ListByTime(m)
        /\ Range(m.required) = Range(f.required) \ new
    <3>1. \A v \in WordsWith(f, "required") \cap (Word \ new) : m.node[v] = f.node[v]
      BY <2>4 DEF WordsWith
    <3>2. Range(f.required) \subseteq Word
      BY <2>5, RangeOfSeq
    <3>3. m.required = OnlyIn(f.required, Word \ new)
      BY <2>4
    <3>4. /\ m.required \in Seq(Word) /\ IsInjective(m.required) /\ ListByTime(m)
          /\ Range(m.required) = Range(f.required) \cap (Word \ new)
      <4>1. Good(f)
        BY <2>2
      <4> QED BY <4>1, <3>1, <3>3, ShorterList
    <3> QED BY <3>2, <3>4
  <2>7. \A v \in new : \E t \in f.timestamp..(m.timestamp - 1), a \in Answers :
                          m.node[v] = Answered(t, a)
    <3> SUFFICES ASSUME NEW v \in new
                 PROVE  \E t \in f.timestamp..(m.timestamp - 1), a \in Answers :
                           m.node[v] = Answered(t, a)
      OBVIOUS
    <3>1. v \in DOMAIN other.node /\ other.node[v].status = "answered"
      BY DEF new, WordsWith
    <3>2. other.node[v].ans \in Answers
      BY <3>1 DEF Good, StampedInThePast, Ignored
    <3>3. m.node[v] = Answered(f.timestamp, other.node[v].ans)
      BY <2>2, <2>4, <2>5
    <3>4. f.timestamp \in f.timestamp..(m.timestamp - 1)
      BY <2>4, <2>5
    <3> QED BY <3>2, <3>3, <3>4
  <2>8. \A v \in DOMAIN f.node \ new : m.node[v] = f.node[v]
    BY <2>4
  <2>9. m.node = [v \in DOMAIN f.node |-> m.node[v]]
    BY <2>4
  <2>10. m.timestamp \in Nat /\ m.timestamp >= f.timestamp
    BY <2>4, <2>5
  <2>11. Good(m) /\ (ListComplete(f) => ListComplete(m))
    BY <2>2, <2>4, <2>5, <2>6, <2>7, <2>8, <2>9, <2>10, AnsweringIsGood, Zenon
  <2> QED BY <2>2, <2>11 DEF m
<1> QED BY <1>1, <1>2

(***************************************************************************)
(* In a list without repetitions every word has one position.              *)
(***************************************************************************)
LEMMA PositionInList ==
    ASSUME NEW k, Good(k), NEW v \in Range(k.required)
    PROVE  LET p == CHOOSE i \in 1..Len(k.required) : k.required[i] = v IN
           /\ p \in 1..Len(k.required)
           /\ k.required[p] = v
           /\ \A i \in 1..Len(k.required) : k.required[i] = v => i = p
<1>1. DOMAIN k.required = 1..Len(k.required)
  BY LenProperties DEF Good, WellTyped
<1>2. \E i \in 1..Len(k.required) : k.required[i] = v
  BY <1>1 DEF Range
<1>3. \A i, j \in 1..Len(k.required) : k.required[i] = k.required[j] => i = j
  BY <1>1 DEF Good, ListSound, IsInjective
<1> QED BY <1>2, <1>3

(***************************************************************************)
(* deserialize_query_acceptances: with the right number of answers, every  *)
(* word of the list is answered and the list is empty; otherwise all is    *)
(* cleared.                                                                *)
(***************************************************************************)
LEMMA DeserializeAcceptancesIsGood ==
    ASSUME NEW k, Good(k), NEW size \in Int, NEW acc \in Seq(Answers)
    PROVE  LET f == deserialize_query_acceptances(k, size, acc) IN
           Good(f) /\ (ListComplete(k) => ListComplete(f))
<1> DEFINE f == deserialize_query_acceptances(k, size, acc)
           n == Len(k.required)
           pos(w) == CHOOSE i \in 1..n : k.required[i] = w
           A == Range(k.required)
<1>1. CASE size # n \/ Len(acc) < n
  <2>1. f = EmptyKnowledgebase
    BY <1>1 DEF deserialize_query_acceptances, clear
  <2> QED BY <2>1, EmptyIsGood
<1>2. CASE ~(size # n \/ Len(acc) < n)
  <2>1. f = [k EXCEPT !.node = [v \in DOMAIN k.node |->
                            IF v \in A THEN Answered(k.timestamp + pos(v) - 1, acc[pos(v)])
                                       ELSE k.node[v]],
                       !.required = <<>>,
                       !.answercount = k.answercount + n,
                       !.timestamp = k.timestamp + n]
    BY <1>2, Zenon DEF deserialize_query_acceptances
  <2>2. /\ k.required \in Seq(Word) /\ n \in Nat /\ k.timestamp \in Nat \ {0}
        /\ IsInjective(k.required) /\ A \subseteq WordsWith(k, "required")
        /\ DOMAIN k.required = 1..n
    BY LenProperties DEF Good, WellTyped, ListSound
  <2>3. A \subseteq DOMAIN k.node /\ A \cap WordsWith(k, "answered") = {}
    BY <2>2 DEF WordsWith
  <2>4. \A v \in A : pos(v) \in 1..n
    BY PositionInList
  <2>5. Cardinality(A) = n
    <3>1. k.required \in Surjection(1..n, A) /\ k.required \in Injection(1..n, A)
      <4>1. k.required \in [1..n -> A]
        BY <2>2 DEF Range
      <4> QED BY <2>2, <4>1 DEF Surjection, Injection, IsInjective, Range
    <3>2. IsFiniteSet(1..n) /\ Cardinality(1..n) = n
      BY <2>2, FS_Interval
    <3> HIDE DEF n
    <3> QED BY <3>1, <3>2, FS_Surjection
  <2> HIDE DEF f, pos, A, n
  <2>6. /\ f.node = [v \in DOMAIN k.node |->
                        IF v \in A THEN Answered(k.timestamp + pos(v) - 1, acc[pos(v)])
                                   ELSE k.node[v]]
        /\ f.required = <<>>
        /\ f.answercount = k.answercount + n
        /\ f.timestamp = k.timestamp + n
        /\ f.largest_symbol = k.largest_symbol
        /\ f = [node |-> f.node, required |-> f.required, answercount |-> f.answercount,
                largest_symbol |-> f.largest_symbol, timestamp |-> f.timestamp]
    BY <2>1 DEF Good, WellTyped
  <2>7. \A v \in A : \E t \in k.timestamp..(f.timestamp - 1), a \in Answers :
                        f.node[v] = Answered(t, a)
    <3> SUFFICES ASSUME NEW v \in A
                 PROVE  \E t \in k.timestamp..(f.timestamp - 1), a \in Answers :
                           f.node[v] = Answered(t, a)
      OBVIOUS
    <3>1. pos(v) \in 1..n /\ Len(acc) >= n
      BY <1>2, <2>2, <2>4, LenProperties
    <3>2. acc[pos(v)] \in Answers
      BY <2>2, <3>1, ElementOfSeq, LenProperties
    <3>3. k.timestamp + pos(v) - 1 \in k.timestamp..(f.timestamp - 1)
      BY <2>2, <2>6, <3>1
    <3>4. f.node[v] = Answered(k.timestamp + pos(v) - 1, acc[pos(v)])
      BY <2>3, <2>6
    <3> QED BY <3>2, <3>3, <3>4
  <2>8. /\ f.required \in Seq(Word) /\ IsInjective(f.required) /\ ListByTime(f)
        /\ Range(f.required) = Range(k.required) \ A
    BY <2>6 DEF IsInjective, ListByTime, Range, A
  <2>9. /\ \A v \in DOMAIN k.node \ A : f.node[v] = k.node[v]
        /\ f.node = [v \in DOMAIN k.node |-> f.node[v]]
        /\ f.timestamp \in Nat /\ f.timestamp >= k.timestamp
        /\ f.answercount = k.answercount + Cardinality(A)
    BY <2>2, <2>5, <2>6
  <2>10. Good(f) /\ (ListComplete(k) => ListComplete(f))
    BY <2>3, <2>6, <2>7, <2>8, <2>9, AnsweringIsGood, Zenon
  <2> QED BY <2>10 DEF f
<1> QED BY <1>1, <1>2

(***************************************************************************)
(* create_query_tree: a knowledgebase of its own, with the same list,      *)
(* stamped by position.                                                    *)
(***************************************************************************)
LEMMA QueryTreeIsGood ==
    ASSUME NEW k, Good(k)
    PROVE  Good(create_query_tree(k)) /\ ListComplete(create_query_tree(k))
<1> DEFINE n == Len(k.required)
           pos(w) == CHOOSE i \in 1..n : k.required[i] = w
           W == Range(k.required)
           f == find_or_create(EmptyKnowledgebase, W)
           q == create_query_tree(k)
<1>1. /\ k.required \in Seq(Word) /\ n \in Nat /\ IsInjective(k.required)
      /\ DOMAIN k.required = 1..n /\ W \subseteq Word
  BY LenProperties, RangeOfSeq DEF Good, WellTyped, ListSound
<1>2. IsFiniteSet(W)
  <2>1. IsFiniteSet(DOMAIN k.node) /\ W \subseteq DOMAIN k.node
    BY DEF Good, WellTyped, ListSound, WordsWith
  <2> QED BY <2>1, FS_Subset
<1>3. /\ \A v \in W : pos(v) \in 1..n
      /\ \A i \in 1..n : pos(k.required[i]) = i /\ k.required[i] \in W
  BY <1>1, PositionInList DEF Range
<1>4. q = [f EXCEPT !.node = [v \in DOMAIN f.node |->
                                 IF v \in W THEN Required(pos(v)) ELSE Ignored],
                    !.required = k.required,
                    !.timestamp = n + 1]
  BY Zenon DEF create_query_tree
<1>5. /\ Good(f) /\ W \subseteq DOMAIN f.node
      /\ f.answercount = 0
  <2> HIDE DEF W, f
  <2>1. EmptyKnowledgebase.answercount = 0
    BY DEF EmptyKnowledgebase
  <2>2. /\ Good(f) /\ W \subseteq DOMAIN f.node
        /\ f.answercount = EmptyKnowledgebase.answercount
    BY <1>1, <1>2, EmptyIsGood, FindOrCreateIsGood, Zenon DEF f
  <2> QED BY <2>1, <2>2
<1> HIDE DEF n, pos, W, f, q
<1>6. /\ q.node = [v \in DOMAIN f.node |-> IF v \in W THEN Required(pos(v)) ELSE Ignored]
      /\ q.required = k.required
      /\ q.timestamp = n + 1
      /\ q.answercount = 0
      /\ q.largest_symbol = f.largest_symbol
      /\ q = [node |-> q.node, required |-> q.required, answercount |-> q.answercount,
              largest_symbol |-> q.largest_symbol, timestamp |-> q.timestamp]
  BY <1>4, <1>5 DEF Good, WellTyped
<1>7. /\ DOMAIN q.node = DOMAIN f.node
      /\ \A v \in W : q.node[v] = Required(pos(v))
      /\ \A v \in DOMAIN f.node \ W : q.node[v] = Ignored
  BY <1>5, <1>6
<1>8. /\ \A v \in W : /\ q.node[v].status = "required"
                      /\ q.node[v].ts = pos(v)
                      /\ q.node[v].ans = NoAnswer
      /\ WordsWith(q, "required") = W /\ WordsWith(q, "answered") = {}
  <2>1. \A t : /\ Required(t).status = "required"
               /\ Required(t).ts = t
               /\ Required(t).ans = NoAnswer
    BY DEF Required
  <2>2. \A v \in W : /\ q.node[v].status = "required"
                     /\ q.node[v].ts = pos(v)
                     /\ q.node[v].ans = NoAnswer
    <3> SUFFICES ASSUME NEW v \in W
                 PROVE  /\ q.node[v].status = "required"
                        /\ q.node[v].ts = pos(v)
                        /\ q.node[v].ans = NoAnswer
      OBVIOUS
    <3>1. q.node[v] = Required(pos(v))
      BY <1>7
    <3> QED BY <2>1, <3>1
  <2>3. \A v \in DOMAIN f.node \ W : q.node[v].status = "ignore"
    BY <1>7 DEF Ignored
  <2> QED BY <1>5, <1>7, <2>2, <2>3 DEF WordsWith
<1>9. WellTyped(q)
  <2>1. \A v \in DOMAIN f.node : q.node[v] \in Node
    <3>1. Ignored \in Node /\ \A i \in 1..n : Required(i) \in Node
      BY <1>1 DEF Ignored, Required, Node, Status
    <3> QED BY <1>3, <1>7, <3>1
  <2>2. q.node \in [DOMAIN f.node -> Node]
    BY <1>6, <2>1
  <2>3. q.timestamp \in Nat \ {0}
    BY <1>1, <1>6
  <2> QED BY <1>1, <1>5, <1>6, <1>7, <2>2, <2>3 DEF Good, WellTyped
<1>10. PrefixClosed(q)
  BY <1>5, <1>7 DEF Good, PrefixClosed
<1>11. ListSound(q) /\ ListComplete(q)
  BY <1>1, <1>6, <1>8 DEF ListSound, ListComplete, W
<1>12. ListByTime(q)
  <2> SUFFICES ASSUME NEW i \in 1..n, NEW j \in 1..n, i < j
               PROVE  q.node[k.required[i]].ts <= q.node[k.required[j]].ts
    BY <1>6 DEF ListByTime, n
  <2>1. q.node[k.required[i]].ts = i /\ q.node[k.required[j]].ts = j
    <3>1. /\ k.required[i] \in W /\ pos(k.required[i]) = i
          /\ k.required[j] \in W /\ pos(k.required[j]) = j
      BY <1>3
    <3> QED BY <1>8, <3>1, Zenon
  <2> QED BY <1>1, <2>1
<1>13. StampedInThePast(q)
  <2>1. \A v \in W : q.node[v].status = "required" /\ q.node[v].ts \in 1..q.timestamp
                     /\ q.node[v].ans = NoAnswer
    <3> SUFFICES ASSUME NEW v \in W
                 PROVE  q.node[v].status = "required" /\ q.node[v].ts \in 1..q.timestamp
                        /\ q.node[v].ans = NoAnswer
      OBVIOUS
    <3>1. pos(v) \in 1..(n + 1)
      BY <1>1, <1>3
    <3>2. q.node[v].ts = pos(v)
      BY <1>8
    <3>3. q.node[v].ts \in 1..q.timestamp
      BY <1>6, <3>1, <3>2, Zenon
    <3> QED BY <1>8, <3>3
  <2> QED BY <1>7, <2>1 DEF StampedInThePast
<1>14. CountExact(q)
  BY <1>6, <1>8, FS_EmptySet DEF CountExact
<1> QED BY <1>9, <1>10, <1>11, <1>12, <1>13, <1>14 DEF Good, q

(***************************************************************************)
(* check_largest_symbol and loading scan the tree; what they find is a     *)
(* natural number because the tree is finite.                              *)
(***************************************************************************)
LEMMA LastLetters ==
    ASSUME NEW k, Good(k), NEW d \in Nat
    PROVE  Max({0} \cup {w[Len(w)] + d : w \in DOMAIN k.node \ {<<>>}}) \in Nat
<1> DEFINE D == DOMAIN k.node \ {<<>>}
           last == [w \in D |-> w[Len(w)] + d]
           L == {w[Len(w)] + d : w \in D}
<1>1. L = Range(last)
  BY DEF Range
<1>2. IsFiniteSet(L)
  <2>1. IsFiniteSet(D)
    BY FS_Subset DEF Good, WellTyped
  <2>2. last = [w \in D |-> last[w]]
    OBVIOUS
  <2> HIDE DEF last, D
  <2> QED BY <1>1, <2>1, <2>2, FiniteRange
<1>3. L \subseteq Nat
  <2> SUFFICES ASSUME NEW w \in D PROVE w[Len(w)] + d \in Nat
    OBVIOUS
  <2>1. w \in Seq(Symbols) /\ w # <<>>
    BY DEF Good, WellTyped, Word
  <2>2. Len(w) \in 1..Len(w)
    BY <2>1, EmptySeq, LenProperties
  <2>3. w[Len(w)] \in Nat
    <3>1. w[Len(w)] \in Symbols
      BY <2>1, <2>2, ElementOfSeq
    <3> QED BY <3>1, SymbolsAssumption, Zenon
  <2> HIDE DEF D, L, last
  <2> QED BY <2>3
<1> HIDE DEF L
<1>4. IsFiniteSet({0} \cup L)
  BY <1>2, FS_Union, FS_Singleton
<1>5. Max({0} \cup L) \in {0} \cup L
  <2>1. {0} \cup L \subseteq Int /\ {0} \cup L # {}
    BY <1>3
  <2> QED BY <1>4, <2>1, FiniteSetHasMax, Zenon
<1> QED BY <1>3, <1>5 DEF L

LEMMA CheckLargestSymbolIsGood ==
    ASSUME NEW k, Good(k)
    PROVE  LET f == check_largest_symbol(k) IN
           Good(f) /\ (ListComplete(k) => ListComplete(f))
<1> DEFINE f == check_largest_symbol(k)
           m == Max({0} \cup {w[Len(w)] : w \in DOMAIN k.node \ {<<>>}})
<1>1. m \in Nat
  <2>1. {w[Len(w)] + 0 : w \in DOMAIN k.node \ {<<>>}}
           = {w[Len(w)] : w \in DOMAIN k.node \ {<<>>}}
    <3> SUFFICES ASSUME NEW w \in DOMAIN k.node \ {<<>>} PROVE w[Len(w)] + 0 = w[Len(w)]
      OBVIOUS
    <3>1. w \in Seq(Symbols) /\ w # <<>>
      BY DEF Good, WellTyped, Word
    <3>2. Len(w) \in 1..Len(w)
      BY <3>1, EmptySeq, LenProperties
    <3>3. w[Len(w)] \in Nat
      <4>1. w[Len(w)] \in Symbols
        BY <3>1, <3>2, ElementOfSeq
      <4> QED BY <4>1, SymbolsAssumption, Zenon
    <3> HIDE DEF m, f
    <3> QED BY <3>3
  <2>2. Max({0} \cup {w[Len(w)] + 0 : w \in DOMAIN k.node \ {<<>>}}) \in Nat
    BY LastLetters
  <2> QED BY <2>1, <2>2
<1>2. f = [k EXCEPT !.largest_symbol = m]
  BY DEF check_largest_symbol
<1> HIDE DEF m, f
<1>3. /\ f.node = k.node /\ f.required = k.required /\ f.answercount = k.answercount
      /\ f.timestamp = k.timestamp /\ f.largest_symbol = m
      /\ f = [node |-> f.node, required |-> f.required, answercount |-> f.answercount,
              largest_symbol |-> f.largest_symbol, timestamp |-> f.timestamp]
  BY <1>2 DEF Good, WellTyped
<1>4. \A s : WordsWith(f, s) = WordsWith(k, s)
  BY <1>3 DEF WordsWith
<1>5. WellTyped(f) /\ PrefixClosed(f)
  BY <1>1, <1>3 DEF Good, WellTyped, PrefixClosed
<1>6. ListSound(f) /\ (ListComplete(k) => ListComplete(f)) /\ CountExact(f)
  BY <1>3, <1>4 DEF Good, ListSound, ListComplete, CountExact
<1>7. ListByTime(f) /\ StampedInThePast(f)
  BY <1>3 DEF Good, ListByTime, StampedInThePast
<1> QED BY <1>5, <1>6, <1>7 DEF Good, f

(***************************************************************************)
(* Saving and loading keeps a knowledgebase good, but not the list         *)
(* complete: the list comes back empty.                                    *)
(***************************************************************************)
LEMMA ReloadIsGood ==
    ASSUME NEW k, Good(k)
    PROVE  Good(reload(k))
<1> DEFINE f == reload(k)
           D == DOMAIN k.node
           T == {k.node[w].ts + 1 : w \in D}
           l == Max({0} \cup {w[Len(w)] + 1 : w \in D \ {<<>>}})
<1>1. /\ f.node = k.node /\ f.required = <<>>
      /\ f.answercount = Cardinality(WordsWith(k, "answered"))
      /\ f.timestamp = Max({1} \cup T)
      /\ f.largest_symbol = l
      /\ f = [node |-> f.node, required |-> f.required, answercount |-> f.answercount,
              largest_symbol |-> f.largest_symbol, timestamp |-> f.timestamp]
  BY DEF reload, deserialize_subtree, WordsWith
<1>2. l \in Nat
  BY LastLetters
<1>3. IsFiniteSet(D) /\ \A w \in D : k.node[w].ts \in Nat
  BY DEF Good, WellTyped, Node
<1>4. IsFiniteSet(T) /\ T \subseteq Nat
  <2> DEFINE g == [w \in D |-> k.node[w].ts + 1]
  <2>1. T = Range(g)
    BY DEF Range
  <2>2. g = [w \in D |-> g[w]]
    OBVIOUS
  <2>3. T \subseteq Nat
    BY <1>3
  <2> HIDE DEF g, D, T
  <2> QED BY <1>3, <2>1, <2>2, <2>3, FiniteRange
<1>5. \A w \in D : k.node[w].ts + 1 \in T
  OBVIOUS
<1> HIDE DEF f, T, l
<1>6. /\ f.timestamp \in Nat \ {0}
      /\ \A w \in D : k.node[w].ts < f.timestamp
  <2> DEFINE U == {1} \cup T
  <2>1. IsFiniteSet(U) /\ U \subseteq Int /\ U # {} /\ U \subseteq Nat
    <3>1. IsFiniteSet({1})
      BY FS_Singleton
    <3>2. IsFiniteSet(U)
      BY <1>4, <3>1, FS_Union
    <3> QED BY <1>4, <3>2
  <2> HIDE DEF U
  <2>2. Max(U) \in U /\ \A t \in U : Max(U) >= t
    BY <2>1, FiniteSetHasMax, Zenon
  <2>3. 1 \in U /\ \A w \in D : k.node[w].ts + 1 \in U
    BY <1>5 DEF U
  <2>4. f.timestamp = Max(U) /\ Max(U) \in Nat
    BY <1>1, <2>1, <2>2 DEF U
  <2>5. Max(U) >= 1 /\ \A w \in D : Max(U) >= k.node[w].ts + 1
    BY <2>2, <2>3
  <2> HIDE DEF D
  <2> QED BY <1>3, <2>4, <2>5
<1>7. IsFiniteSet(WordsWith(k, "answered"))
  BY <1>3, FS_Subset DEF WordsWith
<1>8. WellTyped(f)
  BY <1>1, <1>2, <1>6, <1>7, FS_CardinalityType DEF Good, WellTyped
<1>9. PrefixClosed(f) /\ CountExact(f)
  BY <1>1 DEF Good, PrefixClosed, CountExact, WordsWith
<1>10. ListSound(f) /\ ListByTime(f)
  <2>1. Range(<<>>) = {} /\ IsInjective(<<>>) /\ Len(<<>>) = 0
    BY DEF Range, IsInjective
  <2> QED BY <1>1, <2>1 DEF ListSound, ListByTime
<1>11. StampedInThePast(f)
  <2> SUFFICES ASSUME NEW w \in D
               PROVE  \/ /\ f.node[w].status = "answered"
                         /\ f.node[w].ts \in 1..(f.timestamp - 1)
                         /\ f.node[w].ans \in Answers
                      \/ /\ f.node[w].status = "required"
                         /\ f.node[w].ts \in 1..f.timestamp
                         /\ f.node[w].ans = NoAnswer
                      \/ f.node[w] = Ignored
    BY <1>1 DEF StampedInThePast
  <2>1. /\ k.node[w].ts \in Nat /\ f.timestamp \in Nat /\ k.node[w].ts < f.timestamp
        /\ f.node[w] = k.node[w]
    BY <1>1, <1>3, <1>6
  <2> QED BY <2>1 DEF Good, StampedInThePast
<1> QED BY <1>8, <1>9, <1>10, <1>11 DEF Good, f

-----------------------------------------------------------------------------
(* The state machine. *)

\* The inductive invariant, and what is added to it while nothing is loaded.
IInv == Good(kb) /\ Good(tree) /\ Bounded(kb) /\ Bounded(tree)
AllListed == ListComplete(kb) /\ ListComplete(tree)

\* Init => IInv: both objects are fresh.
LEMMA InitGood == Init => IInv /\ AllListed
<1> SUFFICES ASSUME Init PROVE IInv /\ AllListed
  OBVIOUS
<1>1. Bounded(EmptyKnowledgebase)
  BY TSModAssumption DEF Bounded, EmptyKnowledgebase
<1> QED BY <1>1, EmptyIsGood DEF Init, IInv, AllListed

\* A call that leaves a good result keeps the invariant.
LEMMA CallKeeps ==
    ASSUME IInv, NEW k, Becomes(k), Good(k)
    PROVE  /\ IInv'
           /\ (ListComplete(kb) => ListComplete(k)) => (AllListed => AllListed')
<1>1. kb' = k /\ tree' = tree /\ Bounded(k)
  BY DEF Becomes
<1>2. IInv'
  BY <1>1 DEF IInv
<1>3. (ListComplete(kb) => ListComplete(k)) => (AllListed => AllListed')
  BY <1>1 DEF AllListed
<1> QED BY <1>2, <1>3

\* One step per action; under each, the lemma of its method.
LEMMA NextKeeps == IInv /\ Next => IInv' /\ (AllListed => AllListed')
<1> SUFFICES ASSUME IInv, Next PROVE IInv' /\ (AllListed => AllListed')
  OBVIOUS
<1> USE DEF IInv
<1>1. CASE \E w \in UserWords : AddQuery(w)
  <2>1. PICK w \in UserWords, p \in 0..MaxPrefixCount : Becomes(add_query(kb, w, p))
    BY <1>1 DEF AddQuery
  <2>2. w \in Word /\ p \in Nat
    BY UserWordsAssumption, BoundsAssumption
  <2> QED BY <2>1, <2>2, AddQueryIsGood, CallKeeps
<1>2. CASE \E w \in UserWords : ResolveOrAddQuery(w)
  <2>1. PICK w \in UserWords : Becomes(resolve_or_add_query(kb, w))
    BY <1>2 DEF ResolveOrAddQuery
  <2>2. w \in Word
    BY UserWordsAssumption
  <2> QED BY <2>1, <2>2, ResolveOrAddQueryIsGood, CallKeeps
<1>3. CASE \E w \in UserWords : GetNodeptr(w)
  <2>1. PICK w \in UserWords : Becomes(find_or_create(kb, {w}))
    BY <1>3 DEF GetNodeptr
  <2>2. w \in Word
    BY UserWordsAssumption
  <2> QED BY <2>1, <2>2, FindOrCreateOne, CallKeeps
<1>4. CASE \E w \in UserWords : AddKnowledge(w)
  <2>1. PICK w \in UserWords, a \in Answers : Becomes(add_knowledge(kb, w, a))
    BY <1>4 DEF AddKnowledge
  <2>2. w \in Word
    BY UserWordsAssumption
  <2> QED BY <2>1, <2>2, AddKnowledgeIsGood, CallKeeps
<1>5. CASE \E w \in UserWords : AddOrAlterKnowledge(w)
  <2>1. PICK w \in UserWords, a \in Answers : Becomes(add_or_alter_knowledge(kb, w, a))
    BY <1>5 DEF AddOrAlterKnowledge
  <2>2. w \in Word
    BY UserWordsAssumption
  <2> QED BY <2>1, <2>2, AddOrAlterKnowledgeIsGood, CallKeeps
<1>6. CASE \E count \in 0..MaxUndo : Undo(count)
  <2>1. PICK count \in 0..MaxUndo : Becomes(undo(kb, count))
    BY <1>6 DEF Undo
  <2>2. count \in Nat
    BY BoundsAssumption
  <2> QED BY <2>1, <2>2, UndoIsGood, CallKeeps
<1>7. CASE Clear
  <2>1. Becomes(EmptyKnowledgebase)
    BY <1>7 DEF Clear, clear
  <2> QED BY <2>1, EmptyIsGood, CallKeeps
<1>8. CASE ClearQueries
  BY <1>8, ClearQueriesIsGood, CallKeeps DEF ClearQueries
<1>9. CASE CheckLargestSymbol
  BY <1>9, CheckLargestSymbolIsGood, CallKeeps DEF CheckLargestSymbol
<1>10. CASE AnswerAllQueries
  <2> DEFINE n == Len(kb.required)
  <2>1. PICK acc \in [1..n -> Answers] :
                Becomes(deserialize_query_acceptances(kb, n, acc))
    BY <1>10 DEF AnswerAllQueries
  <2>2. n \in Nat
    BY LenProperties DEF Good, WellTyped
  <2> HIDE DEF n
  <2>3. acc \in Seq(Answers) /\ n \in Int
    BY <2>2
  <2> QED BY <2>1, <2>3, DeserializeAcceptancesIsGood, CallKeeps
<1>11. CASE AnswerWrongNumber
  <2>1. PICK size \in {Len(kb.required) - 1, Len(kb.required) + 1} \cap Nat :
             \E acc \in [1..size -> Answers] :
                Becomes(deserialize_query_acceptances(kb, size, acc))
    BY <1>11 DEF AnswerWrongNumber
  <2>2. size \in Nat
    OBVIOUS
  <2>3. PICK acc \in [1..size -> Answers] :
                Becomes(deserialize_query_acceptances(kb, size, acc))
    BY <2>1
  <2>4. acc \in Seq(Answers) /\ size \in Int
    BY <2>2
  <2> QED BY <2>3, <2>4, DeserializeAcceptancesIsGood, CallKeeps
<1>12. CASE CreateQueryTree
  <2>1. kb' = kb /\ tree' = create_query_tree(kb) /\ Bounded(tree')
    BY <1>12 DEF CreateQueryTree
  <2>2. Good(tree') /\ ListComplete(tree')
    BY <2>1, QueryTreeIsGood
  <2> QED BY <2>1, <2>2 DEF AllListed
<1>13. CASE AnswerTreeQuery
  <2> DEFINE w == Head(tree.required)
  <2>1. PICK a \in Answers : tree' = set_answer(tree, w, a)
    BY <1>13 DEF AnswerTreeQuery
  <2>2. kb' = kb /\ Bounded(tree') /\ tree.required # <<>>
    BY <1>13 DEF AnswerTreeQuery
  <2>3. w \in DOMAIN tree.node
    <3>1. tree.required \in Seq(Word) /\ Range(tree.required) \subseteq DOMAIN tree.node
      BY DEF Good, WellTyped, ListSound, WordsWith
    <3>2. w = tree.required[1] /\ 1 \in DOMAIN tree.required
      BY <2>2, <3>1, EmptySeq, LenProperties
    <3> QED BY <3>1, <3>2 DEF Range
  <2> HIDE DEF w
  <2>4. Good(tree') /\ (ListComplete(tree) => ListComplete(tree'))
    BY <2>1, <2>3, SetAnswerIsGood
  <2> QED BY <2>2, <2>4 DEF AllListed
<1>14. CASE MergeTree
  BY <1>14, MergeIsGood, CallKeeps DEF MergeTree
<1> QED BY <1>1, <1>2, <1>3, <1>4, <1>5, <1>6, <1>7, <1>8, <1>9, <1>10, <1>11, <1>12,
           <1>13, <1>14 DEF Next

LEMMA ReloadKeeps == IInv /\ Reload => IInv'
  BY ReloadIsGood, CallKeeps DEF IInv, Reload

LEMMA StutterKeeps == IInv /\ UNCHANGED vars => IInv' /\ (AllListed => AllListed')
  BY DEF IInv, AllListed, vars

(***************************************************************************)
(* The invariant holds in every state of a knowledgebase that is also      *)
(* saved and loaded.                                                       *)
(***************************************************************************)
THEOREM PersistInductive == PersistSpec => []IInv
<1>1. Init => IInv
  BY InitGood
<1>2. IInv /\ [Next \/ Reload]_vars => IInv'
  BY NextKeeps, ReloadKeeps, StutterKeeps
<1> QED BY <1>1, <1>2, PTL DEF PersistSpec

(***************************************************************************)
(* Within one process no query is ever missing from the list, either.      *)
(***************************************************************************)
THEOREM ProcessInductive == Spec => [](IInv /\ AllListed)
<1>1. Init => IInv /\ AllListed
  BY InitGood
<1>2. (IInv /\ AllListed) /\ [Next]_vars => (IInv /\ AllListed)'
  BY NextKeeps, StutterKeeps
<1> QED BY <1>1, <1>2, PTL DEF Spec

(***************************************************************************)
(* Type correctness, for every alphabet, answer set, filter and clock: the *)
(* tree is always finite, typed and closed under prefixes.                 *)
(***************************************************************************)
THEOREM TypeCorrect == PersistSpec => []TypeOK
<1>1. IInv => TypeOK
  BY DEF IInv, Good, TypeOK
<1> QED BY <1>1, PersistInductive, PTL

(***************************************************************************)
(* Within one process the list `required` and the nodes' status agree, in  *)
(* the order of asking.                                                    *)
(***************************************************************************)
THEOREM QueriesAreExact == Spec => []QueriesExact
<1>1. IInv /\ AllListed => QueriesExact
  BY DEF IInv, AllListed, Good, QueriesExact
<1> QED BY <1>1, ProcessInductive, PTL

(***************************************************************************)
(* QueriesStayExact: whatever was saved and loaded before, no other call   *)
(* takes a query out of the list that is still open, or adds one twice.    *)
(***************************************************************************)
THEOREM QueriesRemainExact == PersistSpec => QueriesStayExact
<1>1. IInv /\ IInv' => (QueriesExact => QueriesExact' \/ ~Next)
  <2> SUFFICES ASSUME IInv, IInv', Next, QueriesExact
               PROVE  QueriesExact'
    OBVIOUS
  <2>1. AllListed
    BY DEF AllListed, QueriesExact
  <2>2. AllListed'
    BY <2>1, NextKeeps
  <2> QED BY <2>2 DEF IInv, AllListed, Good, QueriesExact
<1> QED BY <1>1, PersistInductive, PTL DEF QueriesStayExact

(***************************************************************************)
(* With saving and loading, the list still holds only open queries.        *)
(***************************************************************************)
THEOREM QueriesAreSound == PersistSpec => []QueriesSound
<1>1. IInv => QueriesSound
  BY DEF IInv, Good, QueriesSound
<1> QED BY <1>1, PersistInductive, PTL

(***************************************************************************)
(* answercount is exact, so is_empty() tells the truth about answers.      *)
(***************************************************************************)
THEOREM AnswerCountIsExact == PersistSpec => []AnswerCountExact
<1>1. IInv => AnswerCountExact
  BY DEF IInv, Good, AnswerCountExact
<1> QED BY <1>1, PersistInductive, PTL

(***************************************************************************)
(* No knowledge is stamped at or after the clock, whatever was undone,     *)
(* merged or loaded before.                                                *)
(***************************************************************************)
THEOREM KnowledgeIsInThePast == PersistSpec => []KnowledgeInThePast
<1>1. IInv => KnowledgeInThePast
  BY DEF IInv, Good, KnowledgeInThePast
<1> QED BY <1>1, PersistInductive, PTL

=============================================================================
