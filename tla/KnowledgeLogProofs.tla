------------------------- MODULE KnowledgeLogProofs -------------------------
(***************************************************************************)
(* The knowledgebase implements KnowledgeLog.  The mapping takes a         *)
(* knowledgebase to its account; every method then does one of three       *)
(* things to the account: it extends it (Grown), cuts it short (Cut), or   *)
(* alters one word in all of it (Altered).                                 *)
(***************************************************************************)
EXTENDS KnowledgebaseProofs

(***************************************************************************)
(* A function on 1..n is a sequence, and its prefixes are restrictions.    *)
(***************************************************************************)
LEMMA FunctionIsSequence ==
    ASSUME NEW n \in Nat, NEW h, h = [i \in 1..n |-> h[i]]
    PROVE  /\ h \in Seq(Range(h)) /\ Len(h) = n /\ DOMAIN h = 1..n
           /\ \A m \in 0..n : SubSeq(h, 1, m) = [i \in 1..m |-> h[i]]
<1>1. h \in [1..n -> Range(h)] /\ DOMAIN h = 1..n
  BY DEF Range
<1>2. h \in Seq(Range(h)) /\ Len(h) = n
  BY <1>1
<1>3. ASSUME NEW m \in 0..n PROVE SubSeq(h, 1, m) = [i \in 1..m |-> h[i]]
  BY <1>2, <1>3, SubSeqRestrict DEF Restrict
<1> QED BY <1>1, <1>2, <1>3

\* What k knew before tick t.
KnownBefore(k, t) == {w \in WordsWith(k, "answered") : k.node[w].ts < t}
AccountAt(k, t) == [w \in KnownBefore(k, t) |-> k.node[w].ans]

(***************************************************************************)
(* The account of a good knowledgebase has one entry per tick, and nothing *)
(* that is known now escapes the comparison of timestamps.                 *)
(***************************************************************************)
LEMMA AccountEntries ==
    ASSUME NEW k, Good(k)
    PROVE  /\ k.timestamp \in Nat \ {0}
           /\ Len(History(k)) = k.timestamp /\ DOMAIN History(k) = 1..k.timestamp
           /\ History(k) = [t \in 1..k.timestamp |-> AccountAt(k, t)]
           /\ \A t \in 1..k.timestamp : History(k)[t] = AccountAt(k, t)
           /\ KnownBefore(k, k.timestamp) = WordsWith(k, "answered")
           /\ \A m \in 0..k.timestamp :
                 SubSeq(History(k), 1, m) = [t \in 1..m |-> AccountAt(k, t)]
<1>1. k.timestamp \in Nat \ {0}
  BY DEF Good, WellTyped
<1>2. \A w \in WordsWith(k, "answered") : k.node[w].ts \in 1..(k.timestamp - 1)
  BY DEF Good, StampedInThePast, WordsWith, Ignored
<1>3. KnownBefore(k, k.timestamp) = WordsWith(k, "answered")
  BY <1>1, <1>2 DEF KnownBefore
<1>4. \A t \in 1..k.timestamp : KnownAt(k, t) = KnownBefore(k, t)
  BY <1>3 DEF KnownAt, KnownBefore
<1>5. History(k) = [t \in 1..k.timestamp |-> AccountAt(k, t)]
  BY <1>4, Zenon DEF History, AccountAt
<1>6. /\ \A t \in 1..k.timestamp : History(k)[t] = AccountAt(k, t)
      /\ History(k) = [t \in 1..k.timestamp |-> History(k)[t]]
  BY <1>5
<1>7. /\ Len(History(k)) = k.timestamp /\ DOMAIN History(k) = 1..k.timestamp
      /\ \A m \in 0..k.timestamp :
            SubSeq(History(k), 1, m) = [t \in 1..m |-> History(k)[t]]
  BY <1>1, <1>6, FunctionIsSequence
<1>8. ASSUME NEW m \in 0..k.timestamp
      PROVE  [t \in 1..m |-> History(k)[t]] = [t \in 1..m |-> AccountAt(k, t)]
  <2>1. 1..m \subseteq 1..k.timestamp
    BY <1>1
  <2>2. \A t \in 1..m : History(k)[t] = AccountAt(k, t)
    BY <1>6, <2>1, Zenon
  <2> QED BY <2>2, Zenon
<1> QED BY <1>1, <1>3, <1>5, <1>6, <1>7, <1>8

-----------------------------------------------------------------------------
(* What the methods do to the account.                                       *)

\* f knows all that k knew, since then, and what it knows besides is younger.
Grown(k, f) ==
    /\ f.timestamp >= k.timestamp
    /\ \A w \in WordsWith(k, "answered") :
          /\ w \in WordsWith(f, "answered")
          /\ f.node[w].ts = k.node[w].ts /\ f.node[w].ans = k.node[w].ans
    /\ \A w \in WordsWith(f, "answered") \ WordsWith(k, "answered") :
          f.node[w].ts >= k.timestamp

\* f knows what k knew before the clock showed what it shows in f.
CutTo(k, f) ==
    /\ f.timestamp <= k.timestamp
    /\ WordsWith(f, "answered") = KnownBefore(k, f.timestamp)
    /\ \A w \in WordsWith(f, "answered") :
          f.node[w].ts = k.node[w].ts /\ f.node[w].ans = k.node[w].ans

\* f knows what k knew except about w, which it learnt last.
Altered(k, f, w) ==
    /\ f.timestamp = k.timestamp + 1
    /\ w \in WordsWith(f, "answered") /\ f.node[w].ts = k.timestamp
    /\ WordsWith(f, "answered") \ {w} = WordsWith(k, "answered") \ {w}
    /\ \A v \in WordsWith(k, "answered") \ {w} :
          f.node[v].ts = k.node[v].ts /\ f.node[v].ans = k.node[v].ans

\* The actions of KnowledgeLog, as relations between two accounts.
Learned(h, g) ==
    /\ Len(g) >= Len(h)
    /\ SubSeq(g, 1, Len(h)) = h
    /\ \A t \in Len(h)..(Len(g) - 1) : IsRestriction(g[t], g[t + 1])
Undone(h, g, n) == g = SubSeq(h, 1, IF n < Len(h) THEN Len(h) - n ELSE 1)

(***************************************************************************)
(* A knowledgebase that has grown has learned.                             *)
(***************************************************************************)
LEMMA GrownLearns ==
    ASSUME NEW k, Good(k), NEW f, Good(f), Grown(k, f)
    PROVE  Learned(History(k), History(f))
<1>1. /\ k.timestamp \in Nat \ {0} /\ f.timestamp \in Nat \ {0}
      /\ f.timestamp >= k.timestamp
      /\ Len(History(k)) = k.timestamp /\ Len(History(f)) = f.timestamp
  BY AccountEntries DEF Grown
<1>2. \A w \in WordsWith(f, "answered") : f.node[w].ts \in Nat
  BY DEF Good, StampedInThePast, WordsWith, Ignored
<1>3. ASSUME NEW t \in 1..k.timestamp PROVE AccountAt(f, t) = AccountAt(k, t)
  <2>1. KnownBefore(f, t) = KnownBefore(k, t)
    BY <1>1, <1>2, <1>3 DEF Grown, KnownBefore
  <2>2. \A w \in KnownBefore(k, t) : f.node[w].ans = k.node[w].ans
    BY DEF Grown, KnownBefore
  <2> QED BY <2>1, <2>2 DEF AccountAt
<1>4. SubSeq(History(f), 1, Len(History(k))) = History(k)
  <2>1. SubSeq(History(f), 1, k.timestamp) = [t \in 1..k.timestamp |-> AccountAt(f, t)]
    BY <1>1, AccountEntries
  <2>2. [t \in 1..k.timestamp |-> AccountAt(f, t)] = [t \in 1..k.timestamp |-> AccountAt(k, t)]
    BY <1>3
  <2> QED BY <1>1, <2>1, <2>2, AccountEntries
<1>5. ASSUME NEW t \in k.timestamp..(f.timestamp - 1)
      PROVE  IsRestriction(History(f)[t], History(f)[t + 1])
  <2>1. History(f)[t] = AccountAt(f, t) /\ History(f)[t + 1] = AccountAt(f, t + 1)
    BY <1>1, AccountEntries
  <2>2. KnownBefore(f, t) \subseteq KnownBefore(f, t + 1)
    BY <1>1, <1>2 DEF KnownBefore
  <2> QED BY <2>1, <2>2 DEF IsRestriction, AccountAt
<1> QED BY <1>1, <1>4, <1>5 DEF Learned

(***************************************************************************)
(* A knowledgebase that was cut short has the first part of the account.   *)
(***************************************************************************)
LEMMA CutShortens ==
    ASSUME NEW k, Good(k), NEW f, Good(f), CutTo(k, f)
    PROVE  History(f) = SubSeq(History(k), 1, f.timestamp)
<1>1. /\ k.timestamp \in Nat \ {0} /\ f.timestamp \in Nat \ {0}
      /\ f.timestamp <= k.timestamp
  BY AccountEntries DEF CutTo
<1>2. \A w \in WordsWith(k, "answered") : k.node[w].ts \in Nat
  BY DEF Good, StampedInThePast, WordsWith, Ignored
<1>3. ASSUME NEW t \in 1..f.timestamp PROVE AccountAt(f, t) = AccountAt(k, t)
  <2>1. KnownBefore(f, t) = KnownBefore(k, t)
    BY <1>1, <1>2, <1>3 DEF CutTo, KnownBefore
  <2>2. \A w \in KnownBefore(k, t) : f.node[w].ans = k.node[w].ans
    BY <2>1 DEF CutTo, KnownBefore
  <2> QED BY <2>1, <2>2 DEF AccountAt
<1>4. [t \in 1..f.timestamp |-> AccountAt(f, t)] = [t \in 1..f.timestamp |-> AccountAt(k, t)]
  BY <1>3
<1>5. History(f) = [t \in 1..f.timestamp |-> AccountAt(f, t)]
  BY AccountEntries
<1>6. f.timestamp \in 0..k.timestamp
  BY <1>1
<1>7. SubSeq(History(k), 1, f.timestamp) = [t \in 1..f.timestamp |-> AccountAt(k, t)]
  BY <1>6, AccountEntries
<1> QED BY <1>4, <1>5, <1>7

(***************************************************************************)
(* An altered answer is altered in every entry, as Alter says.             *)
(***************************************************************************)
LEMMA AlteredAlters ==
    ASSUME NEW k, Good(k), NEW f, Good(f), NEW w, Altered(k, f, w)
    PROVE  LET h == History(k)
               g == History(f)
               a == f.node[w].ans
               without(e) == Restrict(e, DOMAIN e \ {w})
               with(e) == [v \in DOMAIN e \cup {w} |-> IF v = w THEN a ELSE e[v]]
           IN  /\ g = Append([t \in DOMAIN h |-> without(h[t])], with(h[Len(h)]))
               /\ g[Len(g)][w] = a /\ w \in DOMAIN g[Len(g)]
<1> DEFINE h == History(k)
           g == History(f)
           a == f.node[w].ans
           n == k.timestamp
           without(e) == Restrict(e, DOMAIN e \ {w})
           with(e) == [v \in DOMAIN e \cup {w} |-> IF v = w THEN a ELSE e[v]]
           old == [t \in DOMAIN h |-> without(h[t])]
<1>1. /\ n \in Nat \ {0} /\ f.timestamp = n + 1
      /\ Len(h) = n /\ DOMAIN h = 1..n /\ Len(g) = n + 1 /\ DOMAIN g = 1..(n + 1)
      /\ \A t \in 1..n : h[t] = AccountAt(k, t)
      /\ g = [t \in 1..(n + 1) |-> AccountAt(f, t)]
      /\ \A t \in 1..(n + 1) : g[t] = AccountAt(f, t)
  BY AccountEntries DEF Altered
<1>2. \A v \in WordsWith(k, "answered") : k.node[v].ts \in 1..(n - 1)
  BY DEF Good, StampedInThePast, WordsWith, Ignored
<1> HIDE DEF h, g, n
<1>3. ASSUME NEW t \in 1..n PROVE AccountAt(f, t) = without(h[t])
  <2>1. KnownBefore(f, t) = KnownBefore(k, t) \ {w}
    BY <1>1, <1>3 DEF Altered, KnownBefore, n
  <2>2. \A v \in KnownBefore(k, t) \ {w} : f.node[v].ans = k.node[v].ans
    BY DEF Altered, KnownBefore
  <2>3. h[t] = AccountAt(k, t) /\ DOMAIN AccountAt(k, t) = KnownBefore(k, t)
    BY <1>1 DEF AccountAt
  <2> QED BY <2>1, <2>2, <2>3 DEF AccountAt, Restrict
<1>4. AccountAt(f, n + 1) = with(h[n])
  <2>1. KnownBefore(k, n) = WordsWith(k, "answered") /\ h[n] = AccountAt(k, n)
    BY <1>1, AccountEntries DEF n
  <2>2. KnownBefore(f, n + 1) = WordsWith(f, "answered")
    BY <1>1, AccountEntries
  <2>3. WordsWith(f, "answered") = WordsWith(k, "answered") \cup {w}
    BY DEF Altered
  <2>4. \A v \in WordsWith(k, "answered") \ {w} : f.node[v].ans = k.node[v].ans
    BY DEF Altered
  <2>5. DOMAIN h[n] = WordsWith(k, "answered")
        /\ \A v \in WordsWith(k, "answered") : h[n][v] = k.node[v].ans
    BY <2>1 DEF AccountAt
  <2> QED BY <2>2, <2>3, <2>4, <2>5 DEF AccountAt
<1>5. old = [t \in 1..n |-> AccountAt(f, t)]
  BY <1>1, <1>3
<1>6. g = Append(old, with(h[n]))
  <2> DEFINE S == Range(g)
  <2>1. \A t \in 1..(n + 1) : g[t] \in S
    BY <1>1 DEF Range
  <2>2. old \in [1..n -> S] /\ \A t \in 1..n : old[t] = g[t]
    BY <1>1, <1>5, <2>1
  <2>3. with(h[n]) = g[n + 1] /\ with(h[n]) \in S
    BY <1>1, <1>4, <2>1
  <2> HIDE DEF S, old, with
  <2>4. Append(old, with(h[n])) = [t \in 1..(n + 1) |-> IF t = n + 1 THEN with(h[n]) ELSE old[t]]
    BY <1>1, <2>2, <2>3
  <2>5. g = [t \in 1..(n + 1) |-> g[t]]
    BY <1>1
  <2>6. \A t \in 1..(n + 1) : g[t] = IF t = n + 1 THEN with(h[n]) ELSE old[t]
    BY <1>1, <2>2, <2>3
  <2> QED BY <2>4, <2>5, <2>6
<1>7. g[Len(g)] = with(h[n])
  BY <1>1, <1>4
<1> HIDE DEF old
<1> QED BY <1>1, <1>6, <1>7 DEF h, g, n, old

-----------------------------------------------------------------------------
(* The methods, one by one.                                                  *)

\* Nothing changes that counts for the account.
SameKnowledge(k, f) ==
    /\ f.timestamp = k.timestamp
    /\ WordsWith(f, "answered") = WordsWith(k, "answered")
    /\ \A w \in WordsWith(k, "answered") : f.node[w] = k.node[w]

\* Knowing the same is a case of having grown.
LEMMA SameIsGrown ==
    ASSUME NEW k, Good(k), NEW f, SameKnowledge(k, f)
    PROVE  Grown(k, f)
<1>1. k.timestamp \in Nat
  BY DEF Good, WellTyped
<1> QED BY <1>1 DEF SameKnowledge, Grown

\* What is grown from the same is grown.
LEMMA SameThenGrown ==
    ASSUME NEW k, NEW f, SameKnowledge(k, f), NEW g, Grown(f, g)
    PROVE  Grown(k, g)
BY DEF SameKnowledge, Grown

\* find_or_create gives the words it creates no answer.
LEMMA FindOrCreateSame ==
    ASSUME NEW k, Good(k), NEW w \in Word
    PROVE  /\ SameKnowledge(k, find_or_create(k, {w}))
           /\ Good(find_or_create(k, {w})) /\ w \in DOMAIN find_or_create(k, {w}).node
           /\ is_answered(find_or_create(k, {w}), w) <=> is_answered(k, w)
<1> DEFINE f == find_or_create(k, {w})
<1>1. {w} \subseteq Word /\ IsFiniteSet({w})
  BY FS_Singleton
<1>2. /\ f.timestamp = k.timestamp /\ \A v \in DOMAIN k.node : f.node[v] = k.node[v]
      /\ \A s \in {"required", "answered"} : WordsWith(f, s) = WordsWith(k, s)
      /\ Good(f) /\ {w} \subseteq DOMAIN f.node
  <2> HIDE DEF f
  <2> QED BY <1>1, FindOrCreateIsGood, Zenon DEF f
<1> HIDE DEF f
<1>3. WordsWith(f, "answered") = WordsWith(k, "answered")
  BY <1>2
<1>4. SameKnowledge(k, f)
  BY <1>2, <1>3 DEF SameKnowledge, WordsWith
<1> QED BY <1>2, <1>3, <1>4 DEF f, is_answered, WordsWith

\* set_answer stamps the word with the current tick, which then passes.
LEMMA SetAnswerGrows ==
    ASSUME NEW k, Good(k), NEW w \in DOMAIN k.node, NEW a \in Answers
    PROVE  /\ Grown(k, set_answer(k, w, a))
           /\ ~is_answered(k, w) => Altered(k, set_answer(k, w, a), w)
<1> DEFINE f == set_answer(k, w, a)
<1>1. k.timestamp \in Nat \ {0}
  BY DEF Good, WellTyped
<1>2. CASE is_answered(k, w)
  <2>1. SameKnowledge(k, f)
    BY <1>2 DEF set_answer, SameKnowledge
  <2> QED BY <1>2, <2>1, SameIsGrown
<1>3. CASE ~is_answered(k, w)
  <2>1. /\ f.timestamp = k.timestamp + 1
        /\ DOMAIN f.node = DOMAIN k.node
        /\ f.node[w] = Answered(k.timestamp, a)
        /\ \A v \in DOMAIN k.node \ {w} : f.node[v] = k.node[v]
    BY <1>3 DEF set_answer, Good, WellTyped
  <2>2. /\ f.node[w].ts = k.timestamp /\ f.node[w].status = "answered"
        /\ f.node[w].ans = a /\ w \notin WordsWith(k, "answered")
    BY <1>3, <2>1 DEF Answered, is_answered, WordsWith
  <2>3. WordsWith(f, "answered") = WordsWith(k, "answered") \cup {w}
    BY <2>1, <2>2 DEF WordsWith
  <2>4. \A v \in WordsWith(k, "answered") : f.node[v] = k.node[v]
    BY <2>1, <2>2 DEF WordsWith
  <2> HIDE DEF f
  <2>5. Grown(k, f)
    BY <1>1, <2>1, <2>2, <2>3, <2>4 DEF Grown
  <2>6. Altered(k, f, w)
    BY <1>1, <2>1, <2>2, <2>3, <2>4 DEF Altered
  <2> QED BY <1>3, <2>5, <2>6 DEF f
<1> QED BY <1>2, <1>3

\* mark_required leaves answered words alone.
LEMMA MarkRequiredSame ==
    ASSUME NEW k, Good(k), NEW ws \in Seq(Word)
    PROVE  SameKnowledge(k, mark_required(k, ws))
<1> DEFINE fresh == OnlyIn(ws, WordsWith(k, "ignore"))
           m == mark_required(k, ws)
<1>1. Range(fresh) \subseteq WordsWith(k, "ignore")
  BY OnlyInElements
<1> HIDE DEF fresh
<1>2. m = [k EXCEPT !.node = [v \in DOMAIN k.node |->
                                 IF v \in Range(fresh) THEN Required(k.timestamp) ELSE k.node[v]],
                    !.required = k.required \o fresh]
  BY DEF mark_required, fresh
<1>3. /\ m.timestamp = k.timestamp /\ DOMAIN m.node = DOMAIN k.node
      /\ \A v \in Range(fresh) : v \in DOMAIN k.node /\ m.node[v] = Required(k.timestamp)
      /\ \A v \in DOMAIN k.node \ Range(fresh) : m.node[v] = k.node[v]
  <2> HIDE DEF m
  <2> QED BY <1>1, <1>2 DEF Good, WellTyped, WordsWith
<1> HIDE DEF m
<1>4. \A v \in Range(fresh) : k.node[v].status = "ignore" /\ m.node[v].status = "required"
  BY <1>1, <1>3 DEF Required, WordsWith
<1> QED BY <1>3, <1>4 DEF SameKnowledge, WordsWith, m

\* Two calls in a row that change no answer.
LEMMA SameTransitive ==
    ASSUME NEW k, NEW f, SameKnowledge(k, f), NEW g, SameKnowledge(f, g)
    PROVE  SameKnowledge(k, g)
BY DEF SameKnowledge

\* cleanup removes only branches without an answer.
LEMMA CleanupSame ==
    ASSUME NEW k, Good(k)
    PROVE  SameKnowledge(k, cleanup(k))
<1> DEFINE f == cleanup(k)
           D == DOMAIN k.node
           live == D \ WordsWith(k, "ignore")
           kept == {<<>>} \cup UNION {Prefixes(w) : w \in live}
<1>1. D \subseteq Word /\ <<>> \in D /\ \A w \in D : Prefixes(w) \subseteq D
  BY DEF Good, WellTyped, PrefixClosed
<1>2. kept \subseteq D /\ live \subseteq kept
  BY <1>1, PrefixesOfWord
<1> HIDE DEF kept
<1>3. f = [k EXCEPT !.node = [v \in kept |-> k.node[v]]]
  <2>1. f = [k EXCEPT !.node = [v \in D \cap kept |-> k.node[v]]] /\ D \cap kept = kept
    BY <1>2 DEF cleanup, kept
  <2> QED BY <2>1, Zenon
<1>4. /\ f.timestamp = k.timestamp /\ DOMAIN f.node = kept
      /\ \A v \in kept : f.node[v] = k.node[v]
  <2> HIDE DEF f
  <2> QED BY <1>3 DEF Good, WellTyped
<1>5. WordsWith(k, "answered") \subseteq live
  BY DEF WordsWith
<1> HIDE DEF f
<1> QED BY <1>2, <1>4, <1>5 DEF SameKnowledge, WordsWith, f

\* Ignoring words that are not answered.
LEMMA IgnoreSame ==
    ASSUME NEW k, Good(k), NEW W, W \subseteq DOMAIN k.node,
           W \cap WordsWith(k, "answered") = {}
    PROVE  SameKnowledge(k, ignore(k, W))
<1> DEFINE f == ignore(k, W)
<1>1. /\ f.timestamp = k.timestamp /\ DOMAIN f.node = DOMAIN k.node
      /\ \A v \in DOMAIN k.node : f.node[v] = IF v \in W THEN Ignored ELSE k.node[v]
  BY IgnoreIsGood
<1> HIDE DEF f
<1>2. \A v \in W : f.node[v].status = "ignore" /\ k.node[v].status # "answered"
  BY <1>1 DEF Ignored, WordsWith
<1> QED BY <1>1, <1>2 DEF SameKnowledge, WordsWith, f

\* The words of A are answered, now or at a later tick.
LEMMA AnsweringGrows ==
    ASSUME NEW k, Good(k), NEW f, NEW A, A \cap WordsWith(k, "answered") = {},
           DOMAIN k.node \subseteq DOMAIN f.node,
           \A v \in DOMAIN f.node \ A :
              IF v \in DOMAIN k.node THEN f.node[v] = k.node[v] ELSE f.node[v] = Ignored,
           f.timestamp \in Nat, f.timestamp >= k.timestamp,
           \A v \in A : f.node[v].ts >= k.timestamp
    PROVE  Grown(k, f)
<1>1. \A v \in WordsWith(k, "answered") : v \in DOMAIN f.node /\ f.node[v] = k.node[v]
  BY DEF WordsWith
<1>2. \A v \in WordsWith(f, "answered") : v \in A \/ v \in WordsWith(k, "answered")
  BY DEF WordsWith, Ignored
<1> QED BY <1>1, <1>2 DEF Grown, WordsWith

\* clear_queries ignores words that have no answer, and cleans up.
LEMMA ClearQueriesSame ==
    ASSUME NEW k, Good(k)
    PROVE  SameKnowledge(k, clear_queries(k))
<1> DEFINE W == Range(k.required)
<1>1. W \subseteq WordsWith(k, "required")
  BY DEF Good, ListSound
<1>2. W \subseteq DOMAIN k.node /\ W \cap WordsWith(k, "answered") = {}
  BY <1>1 DEF WordsWith
<1>3. Good(ignore(k, W)) /\ SameKnowledge(k, ignore(k, W))
  BY <1>2, IgnoreIsGood, IgnoreSame
<1> QED BY <1>3, CleanupSame, SameTransitive DEF clear_queries

\* add_query asks for words; it knows nothing new about them.
LEMMA AddQuerySame ==
    ASSUME NEW k, Good(k), NEW w \in Word, NEW p \in Nat
    PROVE  SameKnowledge(k, add_query(k, w, p))
<1> DEFINE f == find_or_create(k, {w})
           first == IF p > Len(w) THEN 0 ELSE Len(w) - p
           ws == [i \in 1..(Len(w) - first + 1) |-> SubSeq(w, 1, first + i - 1)]
<1>1. Good(f) /\ SameKnowledge(k, f)
  BY FindOrCreateSame
<1>2. Len(w) \in Nat /\ first \in Nat /\ first <= Len(w) /\ w \in Seq(Symbols)
  BY LenProperties DEF Word
<1>3. ws \in Seq(Word)
  <2>1. ASSUME NEW i \in 1..(Len(w) - first + 1) PROVE SubSeq(w, 1, first + i - 1) \in Word
    <3>1. first + i - 1 \in 0..Len(w)
      BY <1>2
    <3> HIDE DEF first
    <3>2. \A j \in 1..(first + i - 1) : w[j] \in Symbols
      BY <1>2, <3>1, ElementOfSeq
    <3> QED BY <3>1, <3>2, SubSeqProperties DEF Word
  <2> DEFINE N == Len(w) - first + 1
  <2>2. N \in Nat
    BY <1>2
  <2>3. ws \in [1..N -> Word]
    <3> HIDE DEF first
    <3> QED BY <2>1
  <2> HIDE DEF N, ws
  <2> QED BY <2>2, <2>3
<1>4. add_query(k, w, p) = mark_required(f, ws)
  BY DEF add_query
<1> HIDE DEF f, ws
<1>5. SameKnowledge(f, mark_required(f, ws))
  BY <1>1, <1>3, MarkRequiredSame
<1> QED BY <1>1, <1>4, <1>5, SameTransitive

\* add_knowledge learns one answer, or none when the word has one.
LEMMA AddKnowledgeGrows ==
    ASSUME NEW k, Good(k), NEW w \in Word, NEW a \in Answers
    PROVE  Grown(k, add_knowledge(k, w, a))
<1> DEFINE f == find_or_create(k, {w})
<1>1. Good(f) /\ SameKnowledge(k, f) /\ w \in DOMAIN f.node
  BY FindOrCreateSame
<1> HIDE DEF f
<1>2. Grown(f, set_answer(f, w, a))
  BY <1>1, SetAnswerGrows
<1> QED BY <1>1, <1>2, SameThenGrown DEF add_knowledge, f

\* resolve_or_add_query may learn what the filter answers.
LEMMA ResolveOrAddGrows ==
    ASSUME NEW k, Good(k), NEW w \in Word
    PROVE  Grown(k, resolve_or_add_query(k, w))
<1> DEFINE f == find_or_create(k, {w})
           r == resolve_or_add_query(k, w)
<1>1. Good(f) /\ SameKnowledge(k, f) /\ w \in DOMAIN f.node
  BY FindOrCreateSame
<1>2. r = IF is_answered(f, w) THEN f
          ELSE IF w \in DOMAIN Filter THEN set_answer(f, w, Filter[w])
          ELSE mark_required(f, <<w>>)
  BY DEF resolve_or_add_query
<1> HIDE DEF f, r
<1>3. CASE r = f
  BY <1>1, <1>3, SameIsGrown DEF r
<1>4. CASE w \in DOMAIN Filter /\ r = set_answer(f, w, Filter[w])
  <2>1. Grown(f, r)
    BY <1>1, <1>4, SetAnswerGrows, FilterAssumption
  <2> QED BY <1>1, <2>1, SameThenGrown DEF r
<1>5. CASE r = mark_required(f, <<w>>)
  <2>1. <<w>> \in Seq(Word)
    OBVIOUS
  <2>2. SameKnowledge(f, r)
    BY <1>1, <1>5, <2>1, MarkRequiredSame
  <2> QED BY <1>1, <2>2, SameTransitive, SameIsGrown DEF r
<1> QED BY <1>2, <1>3, <1>4, <1>5

\* The old answer, if there is one, is forgotten before the new one is set.
LEMMA AddOrAlterAlters ==
    ASSUME NEW k, Good(k), NEW w \in Word, NEW a \in Answers
    PROVE  Altered(k, add_or_alter_knowledge(k, w, a), w)
<1> DEFINE f == find_or_create(k, {w})
           g == ignore(f, {w})
           r == set_answer(g, w, a)
<1>1. Good(f) /\ SameKnowledge(k, f) /\ w \in DOMAIN f.node
  BY FindOrCreateSame
<1> HIDE DEF f
<1>2. {w} \subseteq DOMAIN f.node
  BY <1>1
<1>3. /\ Good(g) /\ g.timestamp = f.timestamp /\ DOMAIN g.node = DOMAIN f.node
      /\ \A v \in DOMAIN f.node : g.node[v] = IF v \in {w} THEN Ignored ELSE f.node[v]
  BY <1>1, <1>2, IgnoreIsGood
<1> HIDE DEF g
<1>4. ~is_answered(g, w) /\ w \in DOMAIN g.node
  BY <1>1, <1>3 DEF is_answered, Ignored
<1>5. Altered(g, r, w)
  BY <1>3, <1>4, SetAnswerGrows
<1>6. /\ g.timestamp = k.timestamp
      /\ WordsWith(g, "answered") = WordsWith(k, "answered") \ {w}
      /\ \A v \in WordsWith(k, "answered") \ {w} : g.node[v] = k.node[v]
  <2>1. WordsWith(g, "answered") = WordsWith(f, "answered") \ {w}
    BY <1>3, <1>4 DEF WordsWith, is_answered
  <2> QED BY <1>1, <1>3, <2>1 DEF SameKnowledge, WordsWith
<1>7. add_or_alter_knowledge(k, w, a) = r
  BY DEF add_or_alter_knowledge, f, g
<1> HIDE DEF r
<1>8. Altered(k, r, w)
  BY <1>5, <1>6 DEF Altered
<1> QED BY <1>7, <1>8

\* check_largest_symbol only reads the words.
LEMMA CheckLargestSame ==
    ASSUME NEW k, Good(k)
    PROVE  SameKnowledge(k, check_largest_symbol(k))
<1> DEFINE f == check_largest_symbol(k)
<1>1. f.node = k.node /\ f.timestamp = k.timestamp
  <2> DEFINE m == Max({0} \cup {w[Len(w)] : w \in DOMAIN k.node \ {<<>>}})
  <2>1. f = [k EXCEPT !.largest_symbol = m]
    BY DEF check_largest_symbol
  <2> HIDE DEF m, f
  <2> QED BY <2>1 DEF Good, WellTyped
<1> HIDE DEF f
<1> QED BY <1>1 DEF SameKnowledge, WordsWith, f

(***************************************************************************)
(* A block of answers in list order: each gets its own tick.               *)
(***************************************************************************)
LEMMA AcceptancesGrow ==
    ASSUME NEW k, Good(k), NEW size \in Int, NEW acc \in Seq(Answers)
    PROVE  LET f == deserialize_query_acceptances(k, size, acc) IN
           f = EmptyKnowledgebase \/ Grown(k, f)
<1> DEFINE f == deserialize_query_acceptances(k, size, acc)
           n == Len(k.required)
           pos(w) == CHOOSE i \in 1..n : k.required[i] = w
           A == Range(k.required)
<1>1. CASE size # n \/ Len(acc) < n
  BY <1>1 DEF deserialize_query_acceptances, clear
<1>2. CASE ~(size # n \/ Len(acc) < n)
  <2>1. f = [k EXCEPT !.node = [v \in DOMAIN k.node |->
                            IF v \in A THEN Answered(k.timestamp + pos(v) - 1, acc[pos(v)])
                                       ELSE k.node[v]],
                       !.required = <<>>,
                       !.answercount = k.answercount + n,
                       !.timestamp = k.timestamp + n]
    BY <1>2, Zenon DEF deserialize_query_acceptances
  <2>2. /\ n \in Nat /\ k.timestamp \in Nat \ {0}
        /\ A \subseteq WordsWith(k, "required")
    BY LenProperties DEF Good, WellTyped, ListSound
  <2>3. A \subseteq DOMAIN k.node /\ A \cap WordsWith(k, "answered") = {}
    BY <2>2 DEF WordsWith
  <2>4. \A v \in A : pos(v) \in 1..n
    BY PositionInList
  <2> HIDE DEF f, pos, A, n
  <2>5. /\ DOMAIN f.node = DOMAIN k.node /\ f.timestamp = k.timestamp + n
        /\ \A v \in DOMAIN k.node \ A : f.node[v] = k.node[v]
        /\ \A v \in A : f.node[v] = Answered(k.timestamp + pos(v) - 1, acc[pos(v)])
    BY <2>1, <2>3 DEF Good, WellTyped
  <2>6. \A t, a : Answered(t, a).ts = t
    BY DEF Answered
  <2>7. \A v \in A : f.node[v].ts >= k.timestamp
    <3> SUFFICES ASSUME NEW v \in A PROVE f.node[v].ts >= k.timestamp
      OBVIOUS
    <3>1. f.node[v].ts = k.timestamp + pos(v) - 1 /\ pos(v) \in 1..n
      BY <2>4, <2>5, <2>6
    <3> QED BY <2>2, <3>1
  <2>8. f.timestamp \in Nat /\ f.timestamp >= k.timestamp
    BY <2>2, <2>5
  <2> QED BY <2>3, <2>5, <2>7, <2>8, AnsweringGrows DEF f
<1> QED BY <1>1, <1>2

(***************************************************************************)
(* A merge gives all that is new the tick that was current.                *)
(***************************************************************************)
LEMMA MergeGrows ==
    ASSUME NEW k, Good(k), NEW other, Good(other)
    PROVE  Grown(k, merge_knowledgebase(k, other))
<1> DEFINE known == WordsWith(other, "answered")
           new == known \ WordsWith(k, "answered")
           f == find_or_create(k, known)
           m == merge_knowledgebase(k, other)
<1>1. CASE recursive_different(k, other)
  <2>1. m = k
    BY <1>1 DEF merge_knowledgebase
  <2>2. SameKnowledge(k, k)
    BY DEF SameKnowledge
  <2> QED BY <2>1, <2>2, SameIsGrown
<1>2. CASE ~recursive_different(k, other)
  <2>1. known \subseteq Word /\ IsFiniteSet(known)
    BY FS_Subset DEF Good, WellTyped, WordsWith
  <2> HIDE DEF known
  <2>2. /\ Good(f) /\ known \subseteq DOMAIN f.node /\ f.timestamp = k.timestamp
        /\ DOMAIN k.node \subseteq DOMAIN f.node
        /\ \A v \in DOMAIN k.node : f.node[v] = k.node[v]
        /\ \A s \in {"required", "answered"} : WordsWith(f, s) = WordsWith(k, s)
    BY <2>1, FindOrCreateIsGood, Zenon DEF f
  <2>3. m = [f EXCEPT !.node = [v \in DOMAIN f.node |->
                                   IF v \in new
                                   THEN Answered(k.timestamp, other.node[v].ans)
                                   ELSE f.node[v]],
                      !.required = OnlyIn(f.required, Word \ new),
                      !.answercount = f.answercount + Cardinality(new),
                      !.timestamp = f.timestamp + 1]
    BY <1>2, Zenon DEF merge_knowledgebase, known
  <2>4. new \subseteq DOMAIN f.node /\ new \cap WordsWith(k, "answered") = {}
    BY <2>2
  <2> HIDE DEF m, f, new
  <2>5. /\ DOMAIN m.node = DOMAIN f.node /\ m.timestamp = k.timestamp + 1
        /\ \A v \in DOMAIN f.node \ new : m.node[v] = f.node[v]
        /\ \A v \in new : m.node[v] = Answered(k.timestamp, other.node[v].ans)
    BY <2>2, <2>3, <2>4 DEF Good, WellTyped
  <2>6. WordsWith(f, "answered") = WordsWith(k, "answered")
    BY <2>2
  <2>7. SameKnowledge(k, f)
    BY <2>2, <2>6 DEF SameKnowledge, WordsWith
  <2>8. \A t, a : Answered(t, a).ts = t
    BY DEF Answered
  <2>9. k.timestamp \in Nat
    BY DEF Good, WellTyped
  <2>10. \A v \in new : m.node[v].ts >= f.timestamp
    BY <2>2, <2>5, <2>8, <2>9
  <2>11. m.timestamp \in Nat /\ m.timestamp >= f.timestamp
    BY <2>2, <2>5, <2>9
  <2>12. new \cap WordsWith(f, "answered") = {}
    BY <2>4, <2>6
  <2>13. Grown(f, m)
    BY <2>2, <2>5, <2>10, <2>11, <2>12, AnsweringGrows
  <2> QED BY <2>7, <2>13, SameThenGrown DEF m
<1> QED BY <1>1, <1>2

(***************************************************************************)
(* An undo forgets what is stamped at or after the new clock; if count is  *)
(* larger than the clock, the clock wraps and nothing is forgotten.        *)
(***************************************************************************)
LEMMA UndoCutsOrGrows ==
    ASSUME NEW k, Good(k), NEW count \in Nat
    PROVE  LET limit == (k.timestamp - count) % TSMod
               f == undo(k, count)
           IN  /\ limit \in Nat /\ f.timestamp = IF limit < 1 THEN 1 ELSE limit
               /\ CutTo(k, f) \/ Grown(k, f)
               /\ limit <= k.timestamp => CutTo(k, f)
<1> DEFINE limit == (k.timestamp - count) % TSMod
           since == {w \in DOMAIN k.node : k.node[w].ts >= limit}
           g == ignore(k, since)
           t == IF limit < 1 THEN 1 ELSE limit
           h == [g EXCEPT !.timestamp = t]
           f == undo(k, count)
<1>1. limit \in Nat /\ k.timestamp \in Nat \ {0}
  <2>1. k.timestamp - count \in Int /\ k.timestamp \in Nat \ {0}
    BY DEF Good, WellTyped
  <2> QED BY <2>1, TSModAssumption
<1> HIDE DEF limit
<1>2. /\ Good(g) /\ DOMAIN g.node = DOMAIN k.node
      /\ \A v \in DOMAIN k.node : g.node[v] = IF v \in since THEN Ignored ELSE k.node[v]
  <2>1. since \subseteq DOMAIN k.node
    OBVIOUS
  <2> HIDE DEF since
  <2> QED BY <2>1, IgnoreIsGood
<1>3. t \in Nat \ {0} /\ t >= limit
  BY <1>1
<1>4. \A v \in DOMAIN k.node : k.node[v].ts \in Nat
  BY DEF Good, WellTyped, Node
<1>5. \A v \in DOMAIN g.node : g.node[v].ts < t
  <2> SUFFICES ASSUME NEW v \in DOMAIN k.node PROVE g.node[v].ts < t
    BY <1>2
  <2>1. CASE v \in since
    <3>1. g.node[v].ts = 0
      BY <1>2, <2>1 DEF Ignored
    <3> HIDE DEF g, t
    <3> QED BY <1>3, <3>1
  <2>2. CASE v \notin since
    <3>1. g.node[v].ts = k.node[v].ts /\ ~(k.node[v].ts >= limit)
      BY <1>2, <2>2
    <3> HIDE DEF g, t
    <3> QED BY <1>1, <1>3, <1>4, <3>1
  <2> QED BY <2>1, <2>2
<1> HIDE DEF g, t
<1>6. Good(h) /\ h.timestamp = t
  BY <1>2, <1>3, <1>5, SetClockIsGood
<1>7. h.node = g.node
  BY <1>2 DEF Good, WellTyped
<1>8. f = cleanup(h)
  BY Zenon DEF undo, g, t, limit
<1> HIDE DEF h
<1>9. SameKnowledge(h, f)
  BY <1>6, <1>8, CleanupSame
<1>10. /\ f.timestamp = t
       /\ WordsWith(f, "answered") = WordsWith(h, "answered")
       /\ \A v \in WordsWith(f, "answered") : f.node[v] = h.node[v]
  BY <1>6, <1>9 DEF SameKnowledge
<1>11. WordsWith(h, "answered") = {v \in WordsWith(k, "answered") : k.node[v].ts < limit}
  <2>1. WordsWith(h, "answered") = WordsWith(k, "answered") \ since
    BY <1>2, <1>7 DEF WordsWith, Ignored
  <2>2. \A v \in WordsWith(k, "answered") : v \in since <=> ~(k.node[v].ts < limit)
    BY <1>1, <1>4 DEF WordsWith
  <2> HIDE DEF since
  <2> QED BY <2>1, <2>2
<1>12. \A v \in WordsWith(f, "answered") : f.node[v] = k.node[v]
  <2> SUFFICES ASSUME NEW v \in WordsWith(f, "answered") PROVE f.node[v] = k.node[v]
    OBVIOUS
  <2>1. v \in WordsWith(k, "answered") /\ k.node[v].ts < limit /\ f.node[v] = g.node[v]
    BY <1>7, <1>10, <1>11
  <2>2. v \in DOMAIN k.node /\ ~(k.node[v].ts >= limit)
    BY <1>1, <1>4, <2>1 DEF WordsWith
  <2> QED BY <1>2, <2>1, <2>2
<1>13. \A v \in WordsWith(k, "answered") : k.node[v].ts \in 1..(k.timestamp - 1)
  BY DEF Good, StampedInThePast, WordsWith, Ignored
<1> HIDE DEF f
<1>14. ASSUME limit <= k.timestamp PROVE CutTo(k, f)
  <2>1. f.timestamp <= k.timestamp
    BY <1>1, <1>10, <1>14 DEF t
  <2>2. WordsWith(f, "answered") = KnownBefore(k, t)
    <3>1. \A v \in WordsWith(k, "answered") : k.node[v].ts < limit <=> k.node[v].ts < t
      BY <1>1, <1>13 DEF t
    <3> QED BY <1>10, <1>11, <3>1 DEF KnownBefore
  <2> QED BY <1>10, <1>12, <2>1, <2>2 DEF CutTo
<1>15. ASSUME limit > k.timestamp PROVE Grown(k, f)
  <2>1. f.timestamp >= k.timestamp
    BY <1>1, <1>10, <1>15 DEF t
  <2>2. WordsWith(f, "answered") = WordsWith(k, "answered")
    <3>1. \A v \in WordsWith(k, "answered") : k.node[v].ts < limit
      BY <1>1, <1>13, <1>15
    <3> QED BY <1>10, <1>11, <3>1
  <2> QED BY <1>12, <2>1, <2>2 DEF Grown
<1>16. limit <= k.timestamp \/ limit > k.timestamp
  BY <1>1
<1> QED BY <1>1, <1>10, <1>14, <1>15, <1>16 DEF t, f, limit

(***************************************************************************)
(* Loading puts the clock one past the youngest stamp.  A query may bear   *)
(* the current tick, so the clock may even gain one.                       *)
(***************************************************************************)
LEMMA ReloadCutsOrGrows ==
    ASSUME NEW k, Good(k)
    PROVE  CutTo(k, reload(k)) \/ Grown(k, reload(k))
<1> DEFINE f == reload(k)
<1>1. f.node = k.node
  BY DEF reload, deserialize_subtree
<1>2. Good(f)
  BY ReloadIsGood
<1> HIDE DEF f
<1>3. WordsWith(f, "answered") = WordsWith(k, "answered")
  BY <1>1 DEF WordsWith
<1>4. k.timestamp \in Nat /\ f.timestamp \in Nat
  BY <1>2 DEF Good, WellTyped
<1>5. \A w \in WordsWith(f, "answered") : f.node[w].ts < f.timestamp
  BY <1>2, <1>4 DEF Good, StampedInThePast, WordsWith, Ignored
<1>6. CASE f.timestamp <= k.timestamp
  <2>1. WordsWith(f, "answered") = KnownBefore(k, f.timestamp)
    BY <1>1, <1>3, <1>5 DEF KnownBefore
  <2> QED BY <1>1, <1>6, <2>1 DEF CutTo, f
<1>7. CASE f.timestamp >= k.timestamp
  BY <1>1, <1>3, <1>7 DEF Grown, f
<1> QED BY <1>4, <1>6, <1>7

-----------------------------------------------------------------------------
(* Steps of the knowledgebase are steps of KnowledgeLog.                     *)

(***************************************************************************)
(* A fresh knowledgebase has an empty account.                             *)
(***************************************************************************)
LEMMA EmptyAccount == History(EmptyKnowledgebase) = <<Log!Nothing>>
<1> DEFINE k == EmptyKnowledgebase
<1>1. k.timestamp = 1 /\ WordsWith(k, "answered") = {}
  BY DEF EmptyKnowledgebase, WordsWith, Ignored
<1>2. KnownBefore(k, 1) = {}
  BY <1>1 DEF KnownBefore
<1>3. History(k) = [t \in 1..1 |-> AccountAt(k, t)]
  BY <1>1, EmptyIsGood, AccountEntries
<1>4. \A t \in 1..1 : AccountAt(k, t) = Log!Nothing
  <2>1. AccountAt(k, 1) = Log!Nothing
    BY <1>2 DEF AccountAt, Log!Nothing
  <2> QED BY <2>1
<1>5. [t \in 1..1 |-> AccountAt(k, t)] = [t \in 1..1 |-> Log!Nothing]
  BY <1>4, Zenon
<1> DEFINE N == Log!Nothing
<1> HIDE DEF k, N
<1>6. [t \in 1..1 |-> N] = <<N>>
  OBVIOUS
<1> QED BY <1>3, <1>5, <1>6 DEF k, N

\* A call that adds answers is a learning of the log.
LEMMA GrownStep ==
    ASSUME Good(kb), Good(kb'), Grown(kb, kb')
    PROVE  Log!Next
<1>1. Learned(History(kb), History(kb'))
  BY GrownLearns
<1>2. History(kb)' = History(kb')
  OBVIOUS
<1>3. Log!Learn
  BY <1>1, <1>2 DEF Learned, Log!Learn, IsRestriction, Log!IsRestriction
<1> QED BY <1>3 DEF Log!Next

\* A call that changes no answer is a stutter of the log.
LEMMA SameStep ==
    ASSUME Good(kb), Good(kb'), SameKnowledge(kb, kb')
    PROVE  Log!Next
BY SameIsGrown, GrownStep

\* A call that goes back to an earlier tick is an undo of the log.
LEMMA CutStep ==
    ASSUME Good(kb), Good(kb'), CutTo(kb, kb')
    PROVE  Log!Next \/ History(kb') = History(kb)
<1> DEFINE h == History(kb)
           n == Len(h)
           m == kb'.timestamp
<1>1. n \in Nat \ {0} /\ m \in Nat \ {0} /\ m <= n /\ History(kb') = SubSeq(h, 1, m)
      /\ h \in Seq(Range(h))
  <2>1. /\ kb.timestamp \in Nat \ {0} /\ kb'.timestamp \in Nat \ {0}
        /\ Len(h) = kb.timestamp
        /\ h = [t \in 1..kb.timestamp |-> AccountAt(kb, t)]
    BY AccountEntries
  <2>2. h = [t \in 1..kb.timestamp |-> h[t]]
    BY <2>1
  <2> HIDE DEF h
  <2>3. h \in Seq(Range(h))
    BY <2>1, <2>2, FunctionIsSequence
  <2> QED BY <2>1, <2>3, CutShortens DEF CutTo, h
<1> HIDE DEF h, n, m
<1>2. CASE m = n
  BY <1>1, <1>2, SubSeqFull DEF h, n
<1>3. CASE m # n
  <2>1. n - m \in 1..n /\ n - m < n /\ n - (n - m) = m
    BY <1>1, <1>3
  <2>2. Log!Undo(n - m)
    BY <1>1, <2>1 DEF Log!Undo, h, n
  <2> QED BY <2>1, <2>2 DEF Log!Next, h, n
<1> QED BY <1>2, <1>3

\* A call that alters one answer is an alteration of the log.
LEMMA AlterStep ==
    ASSUME Good(kb), Good(kb'), NEW w, Altered(kb, kb', w)
    PROVE  Log!Next
<1> DEFINE h == History(kb)
           g == History(kb')
           a == kb'.node[w].ans
           without(e) == Restrict(e, DOMAIN e \ {w})
           with(e) == [v \in DOMAIN e \cup {w} |-> IF v = w THEN a ELSE e[v]]
<1>1. /\ g = Append([t \in DOMAIN h |-> without(h[t])], with(h[Len(h)]))
      /\ g[Len(g)][w] = a /\ w \in DOMAIN g[Len(g)]
  BY AlteredAlters
<1>2. \A e, S : Log!Restrict(e, S) = Restrict(e, S)
  BY DEF Restrict, Log!Restrict
<1>3. History(kb)' = g
  OBVIOUS
<1>4. g = Append([t \in DOMAIN h |-> Log!Restrict(h[t], DOMAIN h[t] \ {w})], with(h[Len(h)]))
  BY <1>1, <1>2
<1>5. Log!Alter(w, a)
  BY <1>3, <1>4 DEF Log!Alter, Log!Now
<1> QED BY <1>1, <1>3, <1>5 DEF Log!Next

\* A clear, and a load that failed, reset the log.
LEMMA ResetStep ==
    ASSUME kb' = EmptyKnowledgebase
    PROVE  Log!Next
<1>1. History(kb') = <<Log!Nothing>>
  BY EmptyAccount
<1> QED BY <1>1 DEF Log!Reset, Log!Next

(***************************************************************************)
(* Every call, one by one.                                                 *)
(***************************************************************************)
LEMMA StepIsLogged ==
    ASSUME IInv, IInv', Next \/ Reload
    PROVE  Log!Next \/ UNCHANGED History(kb)
<1> USE DEF Becomes
<1>1. Good(kb) /\ Good(kb') /\ Good(tree)
  BY DEF IInv
<1>2. CASE \E w \in UserWords : AddQuery(w)
  <2>1. PICK w \in UserWords, p \in 0..MaxPrefixCount : kb' = add_query(kb, w, p)
    BY <1>2 DEF AddQuery
  <2>2. w \in Word /\ p \in Nat
    BY UserWordsAssumption, BoundsAssumption
  <2> QED BY <1>1, <2>1, <2>2, AddQuerySame, SameStep
<1>3. CASE \E w \in UserWords : ResolveOrAddQuery(w)
  <2>1. PICK w \in UserWords : kb' = resolve_or_add_query(kb, w)
    BY <1>3 DEF ResolveOrAddQuery
  <2>2. w \in Word
    BY UserWordsAssumption
  <2> QED BY <1>1, <2>1, <2>2, ResolveOrAddGrows, GrownStep
<1>4. CASE \E w \in UserWords : GetNodeptr(w)
  <2>1. PICK w \in UserWords : kb' = find_or_create(kb, {w})
    BY <1>4 DEF GetNodeptr
  <2>2. w \in Word
    BY UserWordsAssumption
  <2> QED BY <1>1, <2>1, <2>2, FindOrCreateSame, SameStep
<1>5. CASE \E w \in UserWords : AddKnowledge(w)
  <2>1. PICK w \in UserWords, a \in Answers : kb' = add_knowledge(kb, w, a)
    BY <1>5 DEF AddKnowledge
  <2>2. w \in Word
    BY UserWordsAssumption
  <2> QED BY <1>1, <2>1, <2>2, AddKnowledgeGrows, GrownStep
<1>6. CASE \E w \in UserWords : AddOrAlterKnowledge(w)
  <2>1. PICK w \in UserWords, a \in Answers : kb' = add_or_alter_knowledge(kb, w, a)
    BY <1>6 DEF AddOrAlterKnowledge
  <2>2. w \in Word
    BY UserWordsAssumption
  <2> QED BY <1>1, <2>1, <2>2, AddOrAlterAlters, AlterStep
<1>7. CASE \E count \in 0..MaxUndo : Undo(count)
  <2>1. PICK count \in 0..MaxUndo : kb' = undo(kb, count)
    BY <1>7 DEF Undo
  <2>2. count \in Nat
    BY BoundsAssumption
  <2>3. CutTo(kb, kb') \/ Grown(kb, kb')
    BY <1>1, <2>1, <2>2, UndoCutsOrGrows
  <2> QED BY <1>1, <2>3, CutStep, GrownStep
<1>8. CASE Clear
  BY <1>8, ResetStep DEF Clear, clear
<1>9. CASE ClearQueries
  BY <1>1, <1>9, ClearQueriesSame, SameStep DEF ClearQueries
<1>10. CASE CheckLargestSymbol
  BY <1>1, <1>10, CheckLargestSame, SameStep DEF CheckLargestSymbol
<1>11. CASE AnswerAllQueries \/ AnswerWrongNumber
  <2>1. PICK size \in Nat : \E acc \in [1..size -> Answers], n \in Int :
           kb' = deserialize_query_acceptances(kb, n, acc)
    <3>1. Len(kb.required) \in Nat
      BY <1>1, LenProperties DEF Good, WellTyped
    <3> QED BY <1>11, <3>1 DEF AnswerAllQueries, AnswerWrongNumber
  <2>2. PICK acc \in [1..size -> Answers], n \in Int :
           kb' = deserialize_query_acceptances(kb, n, acc)
    BY <2>1
  <2>3. acc \in Seq(Answers)
    OBVIOUS
  <2>4. kb' = EmptyKnowledgebase \/ Grown(kb, kb')
    BY <1>1, <2>2, <2>3, AcceptancesGrow
  <2> QED BY <1>1, <2>4, ResetStep, GrownStep
<1>12. CASE CreateQueryTree \/ AnswerTreeQuery
  BY <1>12 DEF CreateQueryTree, AnswerTreeQuery
<1>13. CASE MergeTree
  BY <1>1, <1>13, MergeGrows, GrownStep DEF MergeTree
<1>14. CASE Reload
  <2>1. CutTo(kb, kb') \/ Grown(kb, kb')
    BY <1>1, <1>14, ReloadCutsOrGrows DEF Reload
  <2> QED BY <1>1, <2>1, CutStep, GrownStep
<1> QED BY <1>2, <1>3, <1>4, <1>5, <1>6, <1>7, <1>8, <1>9, <1>10, <1>11, <1>12, <1>13,
           <1>14 DEF Next

(***************************************************************************)
(* ImplementsLog: for every alphabet, set of answers, filter and width of  *)
(* the clock, a knowledgebase that is used, saved and loaded keeps an      *)
(* account that only grows, goes back, is altered in one word or reset.    *)
(***************************************************************************)
THEOREM LogIsImplemented == PersistSpec => ImplementsLog
<1>1. Init => Log!Init
  BY EmptyAccount DEF Init, Log!Init
<1>2. IInv /\ IInv' /\ [Next \/ Reload]_vars => [Log!Next]_(History(kb))
  <2> SUFFICES ASSUME IInv, IInv', [Next \/ Reload]_vars
               PROVE  Log!Next \/ UNCHANGED History(kb)
    OBVIOUS
  <2>1. CASE UNCHANGED vars
    BY <2>1 DEF vars
  <2> QED BY <2>1, StepIsLogged
<1> QED BY <1>1, <1>2, PersistInductive, PTL DEF PersistSpec, ImplementsLog, Log!Spec

(***************************************************************************)
(* UndoExact: in every state that is reached, whatever was merged, altered,*)
(* undone or loaded before, undo(count) gives exactly the account of count *)
(* ticks ago.                                                              *)
(***************************************************************************)
THEOREM UndoIsExact == PersistSpec => UndoExact
<1> DEFINE Exact == \A count \in 0..MaxUndo :
                       count <= kb.timestamp /\ Undo(count) => Log!Undo(count)
<1>1. IInv /\ IInv' => Exact
  <2> SUFFICES ASSUME IInv, IInv', NEW count \in 0..MaxUndo, count <= kb.timestamp, Undo(count)
               PROVE  Log!Undo(count)
    OBVIOUS
  <2> DEFINE t == IF kb.timestamp - count < 1 THEN 1 ELSE kb.timestamp - count
  <2>1. /\ Good(kb) /\ Good(kb') /\ kb' = undo(kb, count) /\ count \in Nat
        /\ kb.timestamp \in Nat \ {0} /\ kb.timestamp < TSMod /\ TSMod \in Nat
    <3>1. Good(kb) /\ Good(kb')
      BY DEF IInv
    <3>2. kb' = undo(kb, count)
      BY DEF Undo, Becomes
    <3>3. count \in Nat /\ TSMod \in Nat
      BY BoundsAssumption, TSModAssumption
    <3>4. kb.timestamp \in Nat \ {0}
      BY ONLY <3>1 DEF Good, WellTyped
    <3>5. kb.timestamp < TSMod
      BY <3>3, <3>4, BoundsAssumption, TSModAssumption DEF IInv, Bounded
    <3> QED BY <3>1, <3>2, <3>3, <3>4, <3>5
  <2>2. (kb.timestamp - count) % TSMod = kb.timestamp - count
    BY <2>1
  <2>3. kb.timestamp - count <= kb.timestamp
    BY <2>1
  <2>4. CutTo(kb, kb') /\ kb'.timestamp = t
    BY <2>1, <2>2, <2>3, UndoCutsOrGrows
  <2>5. t = IF count < kb.timestamp THEN kb.timestamp - count ELSE 1
    BY <2>1
  <2> HIDE DEF t
  <2>6. History(kb') = SubSeq(History(kb), 1, kb'.timestamp)
    BY <2>1, <2>4, CutShortens
  <2>7. History(kb') = SubSeq(History(kb), 1, t) /\ Len(History(kb)) = kb.timestamp
    BY <2>1, <2>4, <2>6, AccountEntries
  <2>8. History(kb)' = History(kb')
    OBVIOUS
  <2> QED BY <2>5, <2>7, <2>8 DEF Log!Undo
<1> QED BY <1>1, PersistInductive, PTL DEF UndoExact

=============================================================================
