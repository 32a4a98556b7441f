--------------------------- MODULE LearnerProofs ---------------------------
(***************************************************************************)
(* Theorems about the L*-style learners.  A table is a cache of the        *)
(* knowledgebase: RowFine says of a row that its cells can be resolved     *)
(* there, TableFine says so of all rows and adds what keeps it so when the *)
(* table grows, is filled, closed, made consistent, synchronized, saved    *)
(* and loaded.  There is one lemma per method, for all four algorithms.    *)
(***************************************************************************)
EXTENDS Learner, CollectionLemmas

-----------------------------------------------------------------------------
(* What holds of knowledgebases, rows and tables.                            *)

\* A knowledgebase whose answers agree with the filter and are not asked for again.
KnowledgeFine(k) ==
    /\ {"node", "required", "answercount", "largest_symbol", "timestamp"} \subseteq DOMAIN k
    /\ Sequence(k.required) /\ Range(k.required) \cap DOMAIN Filter = {}
    /\ \A w \in DOMAIN Filter : is_answered(k, w) => k.node[w].ans = Filter[w]

\* It asks for words and gives answers.
AsksWords(k) ==
    /\ Range(k.required) \subseteq Word
    /\ \A w : is_answered(k, w) => k.node[w].ans \in Answers

\* What could be resolved in k can be resolved in l, to the same answer.
Knows(k, l) ==
    \A w : Resolvable(k, w) => Resolvable(l, w) /\ resolve_query(l, w) = resolve_query(k, w)

\* The cells that a row has are known.
RowFine(r, columns, k) ==
    /\ {"index", "acceptance"} \subseteq DOMAIN r /\ r = [m \in DOMAIN r |-> r[m]]
    /\ r.index \in Word
    /\ Sequence(r.acceptance) /\ Len(r.acceptance) <= Len(columns)
    /\ \A c \in 1..Len(r.acceptance) :
          LET w == r.index \o columns[c]
          IN  Resolvable(k, w) /\ resolve_query(k, w) = r.acceptance[c]

RowsFine(rows, columns, k) ==
    Sequence(rows) /\ \A r \in Range(rows) : RowFine(r, columns, k)

Distinct(rows) == \A i, j \in 1..Len(rows) : rows[i].index = rows[j].index => i = j

Members == {"type", "alphabet_size", "initialized", "column_names", "column_timestamps",
            "upper_table", "lower_table"}
SearchMembers == {"counterexample_mode", "counterexample", "cex_answer", "cex_front", "cex_back",
                  "cex_latest_bad", "latest_cj", "latest_cj_statemapping"}

\* The class, the alphabet and, of Rivest and Schapire's table, the range of the search.
HeadFine(t) ==
    /\ Members \subseteq DOMAIN t
    /\ t.type \in {"simple", "col", "rs", "nl"}
    /\ t.type = "nl" => Answers \subseteq {"yes", "no"}
    /\ t.initialized \in BOOLEAN
    /\ Alphabet(t.alphabet_size)
    /\ t.type = "rs" => /\ SearchMembers \subseteq DOMAIN t
                        /\ t.counterexample \in Word
                        /\ t.cex_front \in Int /\ t.cex_back \in Int /\ t.cex_latest_bad \in Int

ColumnsFine(t) ==
    /\ t.column_names \in Seq(Word) /\ IsInjective(t.column_names)
    /\ t.type # "nl" => /\ Sequence(t.column_timestamps)
                        /\ Len(t.column_timestamps) = Len(t.column_names)
    /\ t.type = "nl" => t.column_timestamps = <<>>

\* A table that is not initialized may have rows and columns, but no cells.
StartFine(t) ==
    /\ t.initialized => t.upper_table # <<>>
    /\ t.lower_table # <<>> => t.upper_table # <<>>
    /\ ~t.initialized =>
          /\ <<>> \notin Range(t.column_names)
          /\ \A r \in Range(t.upper_table) \cup Range(t.lower_table) : r.acceptance = <<>>

TableFine(t, k) ==
    /\ HeadFine(t)
    /\ ColumnsFine(t)
    /\ StartFine(t)
    /\ RowsFine(t.upper_table, t.column_names, k)
    /\ RowsFine(t.lower_table, t.column_names, k)
    /\ Distinct(t.upper_table)

\* Rows picked from distinct rows are distinct: the deletions of sync_to_knowledgebase.
LEMMA KeptDistinct ==
    ASSUME NEW rows, Sequence(rows), Distinct(rows), NEW S
    PROVE  Distinct(OnlyIn(rows, S))
<1> DEFINE q == OnlyIn(rows, S)
<1>1. rows \in Seq(Range(rows))
  BY DEF Sequence
<1>2. PICK f \in [1..Len(q) -> 1..Len(rows)] :
         /\ \A m, n \in 1..Len(q) : m < n => f[m] < f[n]
         /\ \A n \in 1..Len(q) : q[n] = rows[f[n]]
  <2>1. Picked(Range(rows), rows, S, q)
    BY <1>1, OnlyInByIndex
  <2> HIDE DEF q
  <2> QED BY ONLY <2>1 DEF Picked
<1>3. Len(q) \in Nat /\ Len(rows) \in Nat
  BY KeptFacts, SequenceFacts
<1> SUFFICES ASSUME NEW i \in 1..Len(q), NEW j \in 1..Len(q), q[i].index = q[j].index
             PROVE  i = j
  BY DEF Distinct
<1>4. f[i] = f[j]
  BY <1>2 DEF Distinct
<1>5. f[i] \in Int /\ f[j] \in Int
  BY <1>2, <1>3
<1> HIDE DEF q
<1> QED BY <1>2, <1>3, <1>4, <1>5

-----------------------------------------------------------------------------
(* The knowledgebase learns. *)

LEMMA KnowsTransitive ==
    ASSUME NEW k, NEW l, NEW m, Knows(k, l), Knows(l, m)
    PROVE  Knows(k, m)
BY DEF Knows

\* A knowledgebase knows what it knows.
LEMMA KnowsItself == \A k : Knows(k, k)
BY DEF Knows

\* What a call that asks for w or answers it leaves as it should be.
StaysFine(k, l, w) ==
    KnowledgeFine(l) /\ Knows(k, l) /\ (w \in Word /\ AsksWords(k) => AsksWords(l))

\* Two calls on the knowledgebase, one after the other.
LEMMA StaysFineTransitive ==
    ASSUME NEW k, NEW l, NEW m, NEW w, StaysFine(k, l, w), StaysFine(l, m, w)
    PROVE  StaysFine(k, m, w)
BY KnowsTransitive DEF StaysFine

(***************************************************************************)
(* New nodes say nothing.                                                  *)
(***************************************************************************)
LEMMA FindIsFine ==
    ASSUME NEW k, KnowledgeFine(k), NEW W
    PROVE  LET f == find_or_create(k, W)
           IN  /\ \A v : StaysFine(k, f, v)
               /\ \A w : is_answered(f, w) <=> is_answered(k, w)
<1> DEFINE f == find_or_create(k, W)
           new == (UNION {Prefixes(w) : w \in W}) \ DOMAIN k.node
           nodes == [v \in DOMAIN k.node \cup new |-> IF v \in new THEN Ignored ELSE k.node[v]]
<1>1. /\ {"node", "required", "answercount", "largest_symbol", "timestamp"} \subseteq DOMAIN f
      /\ f.node = nodes /\ f.required = k.required
  BY DEF find_or_create, KnowledgeFine
<1> HIDE DEF f
<1>2. \A w : is_answered(f, w) <=> is_answered(k, w)
  BY <1>1 DEF is_answered, Ignored
<1>3. \A w : is_answered(k, w) => f.node[w] = k.node[w]
  BY <1>1 DEF is_answered
<1>4. KnowledgeFine(f)
  BY <1>1, <1>2, <1>3 DEF KnowledgeFine
<1>5. Knows(k, f)
  BY <1>2, <1>3 DEF Knows, Resolvable, resolve_query
<1>6. AsksWords(k) => AsksWords(f)
  BY <1>1, <1>2, <1>3 DEF AsksWords
<1> QED BY <1>2, <1>4, <1>5, <1>6 DEF f, StaysFine

(***************************************************************************)
(* An answer to a word that has none and that the filter does not answer   *)
(* otherwise.                                                              *)
(***************************************************************************)
LEMMA SetAnswerIsFine ==
    ASSUME NEW k, KnowledgeFine(k), NEW w, NEW a, w \in Word => a \in Answers,
           w \in DOMAIN Filter => a = Filter[w]
    PROVE  StaysFine(k, set_answer(k, w, a), w)
<1> DEFINE f == set_answer(k, w, a)
<1>1. CASE is_answered(k, w)
  BY <1>1, KnowsItself DEF set_answer, StaysFine
<1>2. CASE ~is_answered(k, w)
  <2>1. /\ {"node", "required", "answercount", "largest_symbol", "timestamp"} \subseteq DOMAIN f
        /\ f.node = [k.node EXCEPT ![w] = Answered(k.timestamp, a)]
        /\ f.required = OnlyIn(k.required, Word \ {w})
    BY <1>2 DEF set_answer, KnowledgeFine
  <2> HIDE DEF f
  <2>2. \A v : v # w => (is_answered(f, v) <=> is_answered(k, v)) /\ f.node[v] = k.node[v]
    BY <2>1 DEF is_answered
  <2>3. is_answered(f, w) => f.node[w].ans = a
    BY <2>1 DEF is_answered, Answered
  <2>4. Sequence(f.required) /\ Range(f.required) \subseteq Range(k.required)
    BY <2>1, KeptFacts DEF KnowledgeFine
  <2>5. KnowledgeFine(f)
    BY <2>1, <2>2, <2>3, <2>4 DEF KnowledgeFine
  <2>6. Knows(k, f)
    <3> SUFFICES ASSUME NEW v, Resolvable(k, v)
                 PROVE  Resolvable(f, v) /\ resolve_query(f, v) = resolve_query(k, v)
      BY DEF Knows
    <3>1. CASE v # w
      BY <3>1, <2>2 DEF Resolvable, resolve_query
    <3>2. CASE v = w
      BY <1>2, <3>2, <2>3 DEF Resolvable, resolve_query
    <3> QED BY <3>1, <3>2
  <2>7. w \in Word /\ AsksWords(k) => AsksWords(f)
    BY <2>2, <2>3, <2>4 DEF AsksWords
  <2> QED BY <2>5, <2>6, <2>7 DEF f, StaysFine
<1> QED BY <1>1, <1>2

\* mark_required takes back no answer, and asks for the word it was given.
LEMMA MarkRequiredIsFine ==
    ASSUME NEW k, KnowledgeFine(k), NEW w, w \notin DOMAIN Filter
    PROVE  StaysFine(k, mark_required(k, <<w>>), w)
<1> DEFINE fresh == OnlyIn(<<w>>, WordsWith(k, "ignore"))
           f == mark_required(k, <<w>>)
           nodes == [v \in DOMAIN k.node |-> IF v \in Range(fresh) THEN Required(k.timestamp)
                                                                 ELSE k.node[v]]
<1>1. Sequence(fresh) /\ Range(fresh) \subseteq {w} \cap WordsWith(k, "ignore")
  <2>1. <<w>> \in Seq({w})
    OBVIOUS
  <2>2. Sequence(<<w>>) /\ Range(<<w>>) \subseteq {w}
    BY <2>1, SequenceOf
  <2> QED BY <2>2, KeptFacts
<1>2. /\ {"node", "required", "answercount", "largest_symbol", "timestamp"} \subseteq DOMAIN f
      /\ f.node = nodes /\ f.required = k.required \o fresh
  BY DEF mark_required, KnowledgeFine
<1> HIDE DEF f, fresh
<1>3. \A v : (is_answered(f, v) <=> is_answered(k, v)) /\ (is_answered(k, v) => f.node[v] = k.node[v])
  BY <1>1, <1>2 DEF is_answered, WordsWith, Required
<1>4. Sequence(f.required) /\ Range(f.required) \subseteq Range(k.required) \cup {w}
  BY <1>1, <1>2, ConcatFacts DEF KnowledgeFine
<1>5. KnowledgeFine(f)
  BY <1>2, <1>3, <1>4 DEF KnowledgeFine
<1>6. Knows(k, f)
  BY <1>3 DEF Knows, Resolvable, resolve_query
<1>7. w \in Word /\ AsksWords(k) => AsksWords(f)
  BY <1>3, <1>4 DEF AsksWords
<1> QED BY <1>5, <1>6, <1>7 DEF f, StaysFine

\* resolve_or_add_query takes back no answer, and asks for no other word.
LEMMA ResolveOrAddIsFine ==
    ASSUME NEW k, KnowledgeFine(k), NEW w
    PROVE  StaysFine(k, resolve_or_add_query(k, w), w)
<1> DEFINE f == find_or_create(k, {w})
<1>1. StaysFine(k, f, w) /\ KnowledgeFine(f)
  BY FindIsFine DEF StaysFine
<1>2. w \in DOMAIN Filter => StaysFine(f, set_answer(f, w, Filter[w]), w)
  BY <1>1, SetAnswerIsFine, FilterAssumption
<1>3. w \notin DOMAIN Filter => StaysFine(f, mark_required(f, <<w>>), w)
  BY <1>1, MarkRequiredIsFine
<1>4. CASE is_answered(f, w)
  <2>1. resolve_or_add_query(k, w) = f
    BY <1>4 DEF resolve_or_add_query
  <2> HIDE DEF f
  <2> QED BY <1>1, <2>1
<1>5. CASE ~is_answered(f, w) /\ w \in DOMAIN Filter
  <2>1. resolve_or_add_query(k, w) = set_answer(f, w, Filter[w])
    BY <1>5 DEF resolve_or_add_query
  <2> HIDE DEF f
  <2> QED BY <1>1, <1>2, <1>5, <2>1, StaysFineTransitive
<1>6. CASE ~is_answered(f, w) /\ w \notin DOMAIN Filter
  <2>1. resolve_or_add_query(k, w) = mark_required(f, <<w>>)
    BY <1>6 DEF resolve_or_add_query
  <2> HIDE DEF f
  <2> QED BY <1>1, <1>3, <1>6, <2>1, StaysFineTransitive
<1> QED BY <1>4, <1>5, <1>6

\* A loop that follows the transitions of a machine.
StatesOf(ids, states) == states \subseteq ids
FollowBody(m, states, a) ==
    UNION {IF a \in DOMAIN m.transitions[q] THEN m.transitions[q][a] ELSE {} : q \in states}
Follow == INSTANCE LoopRules WITH Body <- FollowBody, Inv <- StatesOf

(***************************************************************************)
(* A run stays within the states of the machine, so the user's answers are *)
(* answers.                                                                *)
(***************************************************************************)
LEMMA TruthIsAnswer ==
    ASSUME target \in Targets, NEW n \in Nat, NEW w, DOMAIN w = 1..n
    PROVE  Truth(w) \in Answers
<1> DEFINE m == target
           ids == 0..(m.state_count - 1)
           states == run(m, m.initial_states, w)
<1>1. /\ m.initial_states \subseteq ids
      /\ m.output_mapping \in [ids -> Answers]
      /\ \A q \in ids : \A a \in DOMAIN m.transitions[q] : m.transitions[q][a] \subseteq ids
  BY TargetsAssumption DEF Teachable
<1> HIDE DEF m, ids
<1>2. states = Follow!Loop(m, m.initial_states, w)
  BY DEF run, Follow!Loop, Follow!FoldLeft, Follow!MapThenFoldSet, Follow!Max,
     FoldLeft, MapThenFoldSet, Max, FollowBody
<1>3. \A i \in 1..n : \A x : StatesOf(ids, x) => StatesOf(ids, FollowBody(m, x, w[i]))
  <2> SUFFICES ASSUME NEW x, x \subseteq ids, NEW a PROVE FollowBody(m, x, a) \subseteq ids
    BY DEF StatesOf
  <2>1. \A q \in x : (IF a \in DOMAIN m.transitions[q] THEN m.transitions[q][a] ELSE {}) \subseteq ids
    BY <1>1
  <2> QED BY <2>1 DEF FollowBody
<1>4. StatesOf(ids, m.initial_states)
  BY <1>1 DEF StatesOf
<1>5. StatesOf(ids, Follow!Loop(m, m.initial_states, w))
  BY <1>3, <1>4, Follow!FoldRule
<1>6. states \subseteq ids
  BY <1>2, <1>5 DEF StatesOf
<1> DEFINE outputs == {m.output_mapping[q] : q \in states}
<1>7. outputs \subseteq Answers
  <2>1. \A q \in ids : m.output_mapping[q] \in Answers
    BY <1>1
  <2> HIDE DEF states
  <2> QED BY <1>6, <2>1
<1>8. Truth(w) = IF outputs \subseteq {Reject} THEN Reject ELSE CHOOSE o \in outputs \ {Reject} : TRUE
  BY DEF Truth, classify, output_of, m
<1> HIDE DEF outputs
<1>9. CASE outputs \subseteq {Reject}
  BY <1>8, <1>9, RejectAssumption
<1>10. CASE ~(outputs \subseteq {Reject})
  <2>1. \E o \in outputs \ {Reject} : TRUE
    BY <1>10
  <2>2. (CHOOSE o \in outputs \ {Reject} : TRUE) \in outputs
    BY <2>1
  <2> QED BY <1>7, <1>8, <1>10, <2>2
<1> QED BY <1>9, <1>10

(***************************************************************************)
(* The first open query is not one that the filter answers, so any answer  *)
(* to it is new.                                                           *)
(***************************************************************************)
LEMMA FirstAnsweredIsFine ==
    ASSUME NEW k, KnowledgeFine(k), k.required # <<>>, target \in Targets
    PROVE  /\ KnowledgeFine(FirstAnswered(k)) /\ Knows(k, FirstAnswered(k))
           /\ AsksWords(k) => AsksWords(FirstAnswered(k))
<1> DEFINE w == Head(k.required)
<1>1. /\ Len(k.required) \in Nat /\ Len(k.required) # 0
      /\ Range(k.required) = {k.required[i] : i \in 1..Len(k.required)}
  BY SequenceFacts DEF KnowledgeFine
<1>2. w = k.required[1]
  OBVIOUS
<1>3. w \in Range(k.required) /\ w \notin DOMAIN Filter
  BY <1>1, <1>2 DEF KnowledgeFine
<1> HIDE DEF w
<1>4. w \in Word => Truth(w) \in Answers
  <2>1. w \in Word => Len(w) \in Nat /\ DOMAIN w = 1..Len(w)
    BY LenProperties DEF Word
  <2> QED BY <2>1, TruthIsAnswer
<1>5. StaysFine(k, set_answer(k, w, Truth(w)), w)
  BY <1>3, <1>4, SetAnswerIsFine
<1>6. FirstAnswered(k) = set_answer(k, w, Truth(w))
  BY DEF FirstAnswered, w
<1> QED BY <1>3, <1>5, <1>6 DEF StaysFine, AsksWords

(***************************************************************************)
(* What is left after an undo was known before.                            *)
(***************************************************************************)
LEMMA UndoIsFine ==
    ASSUME NEW k, KnowledgeFine(k), NEW count
    PROVE  KnowledgeFine(undo(k, count)) /\ (AsksWords(k) => AsksWords(undo(k, count)))
<1> DEFINE limit == (k.timestamp - count) % TSMod
           since == {w \in DOMAIN k.node : k.node[w].ts >= limit}
           g == [ignore(k, since) EXCEPT !.timestamp = IF limit < 1 THEN 1 ELSE limit]
           f == undo(k, count)
<1>1. /\ {"node", "required", "answercount", "largest_symbol", "timestamp"} \subseteq DOMAIN g
      /\ g.node = [v \in DOMAIN k.node |-> IF v \in since THEN Ignored ELSE k.node[v]]
      /\ g.required = OnlyIn(k.required, Word \ since)
  BY DEF ignore, KnowledgeFine
<1> HIDE DEF g, since
<1>2. f = cleanup(g)
  BY DEF undo, g, since
<1> HIDE DEF f
<1>3. /\ {"node", "required", "answercount", "largest_symbol", "timestamp"} \subseteq DOMAIN f
      /\ f.required = g.required
      /\ \A v \in DOMAIN f.node : f.node[v] = g.node[v]
  BY <1>1, <1>2 DEF cleanup
<1>4. \A v : is_answered(f, v) => is_answered(k, v) /\ f.node[v] = k.node[v]
  <2>1. DOMAIN f.node \subseteq DOMAIN g.node
    BY <1>1, <1>2 DEF cleanup
  <2>2. \A v : is_answered(f, v) => is_answered(g, v) /\ f.node[v] = g.node[v]
    BY <1>3, <2>1 DEF is_answered
  <2>3. \A v : is_answered(g, v) => is_answered(k, v) /\ g.node[v] = k.node[v]
    BY <1>1 DEF is_answered, Ignored
  <2> QED BY <2>2, <2>3
<1>5. Sequence(f.required) /\ Range(f.required) \subseteq Range(k.required)
  BY <1>1, <1>3, KeptFacts DEF KnowledgeFine
<1>6. KnowledgeFine(f)
  BY <1>3, <1>4, <1>5 DEF KnowledgeFine
<1>7. AsksWords(k) => AsksWords(f)
  BY <1>4, <1>5 DEF AsksWords
<1> QED BY <1>6, <1>7 DEF f

-----------------------------------------------------------------------------
(* Filling the table. *)

\* Loops that ask for words.
Learnt(k, l) == KnowledgeFine(l) /\ Knows(k, l) /\ (AsksWords(k) => AsksWords(l))
AskBody(c, k, w) == resolve_or_add_query(k, w)
AskAllBody(c, k, words) == Asked(k, words)
Ask1 == INSTANCE LoopRules WITH Body <- AskBody, Inv <- Learnt
AskAll == INSTANCE LoopRules WITH Body <- AskAllBody, Inv <- Learnt

(***************************************************************************)
(* Asking for words keeps what is known.                                   *)
(***************************************************************************)
LEMMA AskedIsFine ==
    ASSUME NEW k, KnowledgeFine(k), NEW n \in Nat, NEW words, DOMAIN words = 1..n,
           \A i \in 1..n : words[i] \in Word
    PROVE  Learnt(k, Asked(k, words))
<1>1. Asked(k, words) = Ask1!Loop(0, k, words)
  BY DEF Asked, Ask1!Loop, Ask1!FoldLeft, Ask1!MapThenFoldSet, Ask1!Max,
     FoldLeft, MapThenFoldSet, Max, AskBody
<1>2. Learnt(k, k)
  BY KnowsItself DEF Learnt
<1>3. \A i \in 1..n : \A x : Learnt(k, x) => Learnt(k, AskBody(0, x, words[i]))
  BY ResolveOrAddIsFine, KnowsTransitive DEF Learnt, AskBody, StaysFine
<1>4. Learnt(k, Ask1!Loop(0, k, words))
  BY <1>2, <1>3, Ask1!FoldRule
<1> QED BY <1>1, <1>4

\* Asking for the missing cells of all the rows (fill_missing_columns) takes back no answer.
LEMMA AllAskedIsFine ==
    ASSUME NEW k, KnowledgeFine(k), NEW n \in Nat, NEW lists, DOMAIN lists = 1..n,
           \A i \in 1..n : \E m \in Nat : DOMAIN lists[i] = 1..m /\ \A c \in 1..m : lists[i][c] \in Word
    PROVE  Learnt(k, FoldLeft(Asked, k, lists))
<1>1. FoldLeft(Asked, k, lists) = AskAll!Loop(0, k, lists)
  BY DEF AskAll!Loop, AskAll!FoldLeft, AskAll!MapThenFoldSet, AskAll!Max,
     FoldLeft, MapThenFoldSet, Max, AskAllBody
<1>2. Learnt(k, k)
  BY KnowsItself DEF Learnt
<1>3. ASSUME NEW i \in 1..n, NEW x, Learnt(k, x) PROVE Learnt(k, AskAllBody(0, x, lists[i]))
  <2>1. Learnt(x, Asked(x, lists[i]))
    BY <1>3, AskedIsFine DEF Learnt
  <2> QED BY <1>3, <2>1, KnowsTransitive DEF Learnt, AskAllBody
<1>4. Learnt(k, AskAll!Loop(0, k, lists))
  BY <1>2, <1>3, AskAll!FoldRule
<1> QED BY <1>1, <1>4

(***************************************************************************)
(* Min returns the least element.                                          *)
(***************************************************************************)
LEMMA SmallestOf ==
    ASSUME NEW S \in SUBSET Nat, S # {}
    PROVE  Min(S) \in S /\ \A j \in S : Min(S) <= j
<1>1. \E m \in S : \A j \in S : m <= j
  BY Ask1!LeastNumber
<1> QED BY <1>1 DEF Min

(***************************************************************************)
(* A row is filled up to the first cell that is not known.                 *)
(***************************************************************************)
FilledRow(r, columns, k) ==
    LET ws == Missing(r, columns)
        n == Min({Len(ws) + 1} \cup {c \in DOMAIN ws : ~is_answered(k, ws[c])}) - 1
    IN  [r EXCEPT !.acceptance = @ \o [c \in 1..n |-> k.node[ws[c]].ans]]

\* fill_missing_columns on one row: what it adds are answers, and it adds all of them if there are.
LEMMA FilledRowIsFine ==
    ASSUME NEW k, NEW columns, Sequence(columns), NEW r, RowFine(r, columns, k)
    PROVE  LET e == FilledRow(r, columns, k)
               ws == Missing(r, columns)
           IN  /\ RowFine(e, columns, k) /\ e.index = r.index
               /\ (\A w \in Range(ws) : is_answered(k, w)) => Len(e.acceptance) = Len(columns)
               /\ Len(r.acceptance) = Len(columns) =>
                     e = r /\ \A w \in Range(ws) : is_answered(k, w)
<1> DEFINE ws == Missing(r, columns)
           m == Len(columns) - Len(r.acceptance)
           open == {c \in DOMAIN ws : ~is_answered(k, ws[c])}
           n == Min({Len(ws) + 1} \cup open) - 1
           new == [c \in 1..n |-> k.node[ws[c]].ans]
           e == [r EXCEPT !.acceptance = @ \o new]
<1>1. /\ Len(columns) \in Nat /\ Len(r.acceptance) \in Nat /\ m \in Nat
      /\ Sequence(r.acceptance)
  BY SequenceFacts DEF RowFine
<1>2. /\ DOMAIN ws = 1..m /\ Len(ws) = m /\ Range(ws) = {ws[c] : c \in 1..m}
      /\ \A c \in 1..m : ws[c] = r.index \o columns[Len(r.acceptance) + c]
  <2>1. ws = [c \in 1..m |-> r.index \o columns[Len(r.acceptance) + c]]
    BY DEF Missing
  <2> HIDE DEF ws, m
  <2>2. ws = [c \in 1..m |-> ws[c]]
    BY <2>1
  <2>3. \A c \in 1..m : ws[c] = r.index \o columns[Len(r.acceptance) + c]
    BY <2>1
  <2>4. DOMAIN ws = 1..m
    BY <2>1
  <2>5. Len(ws) = m /\ Range(ws) = {ws[c] : c \in 1..m}
    BY <1>1, <2>2, FunctionToSequence
  <2> QED BY <2>3, <2>4, <2>5
<1> HIDE DEF m, ws
<1>3. n \in 0..m /\ (\A c \in 1..n : is_answered(k, ws[c])) /\ (open = {} => n = m)
  <2> DEFINE S == {Len(ws) + 1} \cup open
  <2>1. S \in SUBSET Nat /\ S # {} /\ m + 1 \in S /\ \A c \in S : c \in 1..(m + 1)
    BY <1>1, <1>2
  <2>2. Min(S) \in S /\ \A c \in S : Min(S) <= c
    <3> HIDE DEF S
    <3> QED BY <2>1, SmallestOf
  <2>3. Min(S) \in 1..(m + 1)
    BY <2>1, <2>2
  <2>4. ASSUME NEW c \in 1..(Min(S) - 1) PROVE is_answered(k, ws[c])
    <3>1. c \in 1..m /\ ~(Min(S) <= c)
      <4> HIDE DEF S
      <4> QED BY <1>1, <2>3
    <3>2. c \notin S
      <4> HIDE DEF S
      <4> QED BY <2>2, <3>1
    <3> QED BY <1>2, <3>1, <3>2
  <2>5. open = {} => Min(S) = m + 1
    <3> SUFFICES ASSUME open = {} PROVE Min(S) = m + 1
      OBVIOUS
    <3>1. S = {m + 1}
      BY <1>2
    <3> HIDE DEF S
    <3> QED BY <2>2, <3>1
  <2>6. n = Min(S) - 1
    OBVIOUS
  <2> HIDE DEF S, n, open
  <2> QED BY <1>1, <2>3, <2>4, <2>5, <2>6
<1> HIDE DEF n
<1>4. n \in Nat /\ n <= m
  BY <1>1, <1>3
<1>5. Sequence(new) /\ Len(new) = n /\ \A c \in 1..n : new[c] = k.node[ws[c]].ans
  <2>1. new = [c \in 1..n |-> new[c]]
    OBVIOUS
  <2>2. \A c \in 1..n : new[c] = k.node[ws[c]].ans
    OBVIOUS
  <2> HIDE DEF new
  <2> QED BY <1>4, <2>1, <2>2, FunctionToSequence
<1> HIDE DEF new
<1> DEFINE l == Len(r.acceptance)
           both == r.acceptance \o new
<1>6. /\ Sequence(both) /\ Len(both) = l + n
      /\ \A i \in 1..l : both[i] = r.acceptance[i]
      /\ \A i \in (l + 1)..(l + n) : both[i] = new[i - l]
  BY <1>1, <1>5, ConcatFacts
<1>7. /\ {"index", "acceptance"} \subseteq DOMAIN e /\ e = [x \in DOMAIN e |-> e[x]]
      /\ e.index = r.index /\ e.acceptance = both /\ DOMAIN e = DOMAIN r
      /\ \A x \in DOMAIN r : x # "acceptance" => e[x] = r[x]
  BY DEF RowFine
<1> HIDE DEF e, both
<1>8. ASSUME NEW i \in 1..(l + n)
      PROVE  Resolvable(k, r.index \o columns[i]) /\ resolve_query(k, r.index \o columns[i]) = both[i]
  <2>1. CASE i <= l
    <3>1. i \in 1..l
      BY <1>1, <1>4, <2>1
    <3> QED BY <1>6, <3>1 DEF RowFine
  <2>2. CASE ~(i <= l)
    <3>1. i \in (l + 1)..(l + n) /\ i - l \in 1..n /\ i - l \in 1..m /\ l + (i - l) = i
      BY <1>1, <1>4, <2>2
    <3>2. both[i] = k.node[ws[i - l]].ans /\ is_answered(k, ws[i - l])
      BY <1>3, <1>5, <1>6, <3>1
    <3>3. ws[i - l] = r.index \o columns[i]
      BY <1>2, <3>1
    <3> QED BY <3>2, <3>3 DEF Resolvable, resolve_query
  <2> QED BY <2>1, <2>2
<1>9. RowFine(e, columns, k)
  <2>1. Len(e.acceptance) <= Len(columns) /\ Len(e.acceptance) = l + n
    BY <1>1, <1>4, <1>6, <1>7 DEF m
  <2> QED BY <1>6, <1>7, <1>8, <2>1 DEF RowFine
<1>10. (\A w \in Range(ws) : is_answered(k, w)) => Len(e.acceptance) = Len(columns)
  <2> SUFFICES ASSUME \A w \in Range(ws) : is_answered(k, w) PROVE n = m
    BY <1>1, <1>6, <1>7 DEF m
  <2>1. open = {}
    BY <1>2
  <2> QED BY <1>3, <2>1
<1>11. Len(r.acceptance) = Len(columns) => e = r /\ \A w \in Range(ws) : is_answered(k, w)
  <2> SUFFICES ASSUME Len(r.acceptance) = Len(columns)
               PROVE  e = r /\ \A w \in Range(ws) : is_answered(k, w)
    OBVIOUS
  <2>1. m = 0 /\ n = 0
    BY <1>1, <1>4 DEF m
  <2>2. Range(ws) = {}
    BY <1>2, <2>1
  <2>3. both = r.acceptance
    <3>1. both = [i \in 1..l |-> both[i]]
      BY <1>1, <1>6, <2>1, SequenceFacts
    <3>2. r.acceptance = [i \in 1..l |-> r.acceptance[i]]
      BY <1>1, SequenceFacts
    <3>3. [i \in 1..l |-> both[i]] = [i \in 1..l |-> r.acceptance[i]]
      BY <1>6
    <3> QED BY <3>1, <3>2, <3>3
  <2>4. \A x \in DOMAIN r : e[x] = r[x]
    BY <1>7, <2>3
  <2>5. r = [x \in DOMAIN r |-> r[x]]
    BY DEF RowFine
  <2>6. e = r
    BY <1>7, <2>4, <2>5
  <2> QED BY <2>2, <2>6
<1>12. e = FilledRow(r, columns, k)
  BY DEF e, both, new, n, ws, FilledRow
<1> QED BY <1>7, <1>9, <1>10, <1>11, <1>12 DEF ws

(***************************************************************************)
(* A row stays fine while the knowledgebase learns.                        *)
(***************************************************************************)
LEMMA RowsStayFine ==
    ASSUME NEW columns, NEW k, NEW l, Knows(k, l)
    PROVE  /\ \A r : RowFine(r, columns, k) => RowFine(r, columns, l)
           /\ \A rows : RowsFine(rows, columns, k) => RowsFine(rows, columns, l)
<1>1. ASSUME NEW r, RowFine(r, columns, k) PROVE RowFine(r, columns, l)
  BY <1>1 DEF RowFine, Knows
<1> QED BY <1>1 DEF RowsFine

\* All rows have all their cells.
Full(rows, columns) == \A r \in Range(rows) : Len(r.acceptance) = Len(columns)

(***************************************************************************)
(* fill_missing_columns leaves the rows where they are.                    *)
(***************************************************************************)
LEMMA FillIsFine ==
    ASSUME NEW k, KnowledgeFine(k), NEW columns \in Seq(Word), NEW rows, RowsFine(rows, columns, k)
    PROVE  LET f == fill_missing_columns(rows, columns, k)
           IN  /\ Learnt(k, f.kb) /\ f.complete \in BOOLEAN
               /\ RowsFine(f.rows, columns, f.kb) /\ Len(f.rows) = Len(rows)
               /\ \A i \in 1..Len(rows) : f.rows[i].index = rows[i].index
               /\ f.complete => Full(f.rows, columns)
               /\ Full(rows, columns) => f.complete /\ f.rows = rows
<1> DEFINE n == Len(rows)
           lists == AllMissing(rows, columns)
           l == FoldLeft(Asked, k, lists)
           filled == [i \in 1..n |-> FilledRow(rows[i], columns, l)]
           f == fill_missing_columns(rows, columns, k)
<1>1. /\ n \in Nat /\ DOMAIN rows = 1..n /\ Range(rows) = {rows[i] : i \in 1..n}
      /\ rows = [i \in 1..n |-> rows[i]]
      /\ \A i \in 1..n : RowFine(rows[i], columns, k)
  <2>1. n \in Nat /\ DOMAIN rows = 1..n /\ Range(rows) = {rows[i] : i \in 1..n}
        /\ rows = [i \in 1..n |-> rows[i]]
    BY SequenceFacts DEF RowsFine
  <2> QED BY <2>1 DEF RowsFine
<1> HIDE DEF n
<1>2. DOMAIN lists = 1..n /\ \A i \in 1..n : lists[i] = Missing(rows[i], columns)
  BY <1>1 DEF AllMissing
<1>0. Sequence(columns) /\ \A c \in 1..Len(columns) : columns[c] \in Word
  BY SequenceOf, SequenceFacts
<1>3. \A i \in 1..n : \E m \in Nat : DOMAIN lists[i] = 1..m /\ \A c \in 1..m : lists[i][c] \in Word
  <2> SUFFICES ASSUME NEW i \in 1..n
               PROVE  \E m \in Nat : DOMAIN lists[i] = 1..m /\ \A c \in 1..m : lists[i][c] \in Word
    OBVIOUS
  <2> DEFINE had == Len(rows[i].acceptance)
             m == Len(columns) - had
  <2>1. m \in Nat /\ Len(columns) \in Nat /\ had \in Nat
    <3>1. Len(columns) \in Nat /\ Len(rows[i].acceptance) \in Nat
          /\ Len(rows[i].acceptance) <= Len(columns)
      BY <1>0, <1>1, SequenceFacts DEF RowFine
    <3> QED BY <3>1
  <2>2. DOMAIN lists[i] = 1..m /\ \A c \in 1..m : lists[i][c] = rows[i].index \o columns[had + c]
    BY <1>2 DEF Missing
  <2> HIDE DEF m, had
  <2>3. \A c \in 1..m : rows[i].index \o columns[had + c] \in Word
    <3> SUFFICES ASSUME NEW c \in 1..m PROVE rows[i].index \o columns[had + c] \in Word
      OBVIOUS
    <3>1. had + c \in 1..Len(columns)
      BY <2>1 DEF m
    <3>2. rows[i].index \in Word /\ columns[had + c] \in Word
      BY <1>0, <1>1, <3>1 DEF RowFine
    <3> QED BY <3>2, ConcatProperties DEF Word
  <2> QED BY <2>1, <2>2, <2>3
<1> HIDE DEF lists
<1>4. Learnt(k, l)
  BY <1>2, <1>3, <1>1, AllAskedIsFine
<1>5. f.kb = l /\ f.rows = filled /\ f.complete = \A i \in 1..n : \A w \in Range(lists[i]) : is_answered(l, w)
  <2>1. f = Filled(rows, columns, l)
    BY DEF fill_missing_columns, lists
  <2> HIDE DEF l, f
  <2> QED BY <1>1, <2>1 DEF Filled, FilledRow, lists
<1> HIDE DEF l, f
<1>6. \A i \in 1..n : RowFine(rows[i], columns, l)
  BY <1>1, <1>4, RowsStayFine DEF Learnt
<1>7. ASSUME NEW i \in 1..n
      PROVE  LET e == FilledRow(rows[i], columns, l)
             IN  /\ RowFine(e, columns, l) /\ e.index = rows[i].index
                 /\ (\A w \in Range(lists[i]) : is_answered(l, w)) => Len(e.acceptance) = Len(columns)
                 /\ Len(rows[i].acceptance) = Len(columns) =>
                       e = rows[i] /\ \A w \in Range(lists[i]) : is_answered(l, w)
  <2> DEFINE r == rows[i]
  <2>1. RowFine(r, columns, l) /\ Sequence(columns)
    BY <1>0, <1>6
  <2>2. lists[i] = Missing(r, columns)
    BY <1>2
  <2> HIDE DEF r
  <2>3. /\ RowFine(FilledRow(r, columns, l), columns, l) /\ FilledRow(r, columns, l).index = r.index
        /\ (\A w \in Range(Missing(r, columns)) : is_answered(l, w)) =>
              Len(FilledRow(r, columns, l).acceptance) = Len(columns)
        /\ Len(r.acceptance) = Len(columns) =>
              /\ FilledRow(r, columns, l) = r
              /\ \A w \in Range(Missing(r, columns)) : is_answered(l, w)
    BY ONLY <2>1, FilledRowIsFine
  <2> QED BY <2>2, <2>3 DEF r
<1>8. Sequence(filled) /\ Len(filled) = n /\ Range(filled) = {filled[i] : i \in 1..n}
  <2>1. filled = [i \in 1..n |-> filled[i]]
    OBVIOUS
  <2> HIDE DEF filled
  <2> QED BY <1>1, <2>1, FunctionToSequence
<1>9. \A i \in 1..n : filled[i] = FilledRow(rows[i], columns, l)
  OBVIOUS
<1> HIDE DEF filled
<1>10. RowsFine(filled, columns, l)
  <2>1. \A i \in 1..n : RowFine(filled[i], columns, l)
    BY <1>7, <1>9
  <2> QED BY <1>8, <2>1 DEF RowsFine
<1>11. \A i \in 1..n : filled[i].index = rows[i].index
  BY <1>7, <1>9
<1>12. f.complete => Full(filled, columns)
  <2> SUFFICES ASSUME f.complete, NEW i \in 1..n PROVE Len(filled[i].acceptance) = Len(columns)
    BY <1>8 DEF Full
  <2>1. \A w \in Range(lists[i]) : is_answered(l, w)
    BY <1>5
  <2> QED BY <1>7, <1>9, <2>1
<1>13. ASSUME Full(rows, columns) PROVE f.complete /\ filled = rows
  <2>1. \A i \in 1..n : filled[i] = rows[i] /\ \A w \in Range(lists[i]) : is_answered(l, w)
    <3> SUFFICES ASSUME NEW i \in 1..n
                 PROVE  filled[i] = rows[i] /\ \A w \in Range(lists[i]) : is_answered(l, w)
      OBVIOUS
    <3>1. Len(rows[i].acceptance) = Len(columns)
      BY <1>1, <1>13 DEF Full
    <3> QED BY <1>7, <1>9, <3>1
  <2>2. filled = [i \in 1..n |-> filled[i]]
    BY <1>8, SequenceFacts
  <2>3. filled = rows
    BY <1>1, <2>1, <2>2
  <2> QED BY <1>5, <2>1, <2>3
<1>14. f.complete \in BOOLEAN
  BY <1>5
<1> QED BY <1>4, <1>5, <1>8, <1>10, <1>11, <1>12, <1>13, <1>14 DEF f, n

-----------------------------------------------------------------------------
(* The whole table. *)

\* s is t with changes in some of its members.
Changed(t, s, members) ==
    DOMAIN s = DOMAIN t /\ \A x \in DOMAIN t \ members : s[x] = t[x]

\* The words of the rows are the same, in the same order.
SameWords(rows, new) ==
    Len(new) = Len(rows) /\ \A i \in 1..Len(rows) : new[i].index = rows[i].index

\* Tables whose rows stand for the same words, in the same order, stand for the same set of words.
LEMMA SameWordsSameSet ==
    ASSUME NEW rows, Sequence(rows), NEW new, Sequence(new), SameWords(rows, new)
    PROVE  /\ Words(new) = Words(rows)
           /\ Distinct(rows) => Distinct(new)
           /\ new = <<>> <=> rows = <<>>
<1>1. /\ DOMAIN rows = 1..Len(rows) /\ DOMAIN new = 1..Len(rows) /\ Len(new) = Len(rows)
      /\ rows = <<>> <=> Len(rows) = 0
      /\ new = <<>> <=> Len(new) = 0
  BY SequenceFacts DEF SameWords
<1>2. \A i \in 1..Len(rows) : new[i].index = rows[i].index
  BY DEF SameWords
<1>3. Words(new) = Words(rows)
  BY <1>1, <1>2 DEF Words
<1>4. Distinct(rows) => Distinct(new)
  BY <1>1, <1>2 DEF Distinct
<1> QED BY <1>1, <1>3, <1>4

(***************************************************************************)
(* New rows in a table that is otherwise the same.                         *)
(***************************************************************************)
LEMMA NewRowsAreFine ==
    ASSUME NEW k, NEW t, TableFine(t, k), NEW l, NEW s,
           Changed(t, s, {"upper_table", "lower_table"}),
           RowsFine(s.upper_table, t.column_names, l), Distinct(s.upper_table),
           RowsFine(s.lower_table, t.column_names, l),
           t.initialized => s.upper_table # <<>>,
           s.lower_table # <<>> => s.upper_table # <<>>,
           ~t.initialized => \A r \in Range(s.upper_table) \cup Range(s.lower_table) :
                                r.acceptance = <<>>
    PROVE  TableFine(s, l)
<1>1. /\ s.type = t.type /\ s.alphabet_size = t.alphabet_size /\ s.initialized = t.initialized
      /\ s.column_names = t.column_names /\ s.column_timestamps = t.column_timestamps
  BY DEF Changed, TableFine, HeadFine, Members
<1>2. HeadFine(s)
  <2>1. t.type = "rs" => /\ s.counterexample = t.counterexample /\ s.cex_front = t.cex_front
                         /\ s.cex_back = t.cex_back /\ s.cex_latest_bad = t.cex_latest_bad
    BY DEF Changed, TableFine, HeadFine, SearchMembers
  <2> QED BY <1>1, <2>1 DEF Changed, TableFine, HeadFine
<1>3. ColumnsFine(s)
  BY <1>1 DEF TableFine, ColumnsFine
<1>4. StartFine(s)
  BY <1>1 DEF TableFine, StartFine
<1> QED BY <1>1, <1>2, <1>3, <1>4 DEF TableFine

FullTable(t) == Full(t.upper_table, t.column_names) /\ Full(t.lower_table, t.column_names)

(***************************************************************************)
(* fill_missing_columns on both tables.                                    *)
(***************************************************************************)
LEMMA FillTablesIsFine ==
    ASSUME NEW k, KnowledgeFine(k), NEW t, TableFine(t, k), t.initialized
    PROVE  LET f == FillTables(t, k)
           IN  /\ KnowledgeFine(f.kb) /\ TableFine(f.alg, f.kb)
               /\ AsksWords(k) => AsksWords(f.kb)
               /\ f.ready \in BOOLEAN /\ f.again = FALSE
               /\ Changed(t, f.alg, {"upper_table", "lower_table"})
               /\ SameWords(t.upper_table, f.alg.upper_table)
               /\ SameWords(t.lower_table, f.alg.lower_table)
               /\ f.ready => FullTable(f.alg)
               /\ FullTable(t) => /\ f.ready
                                  /\ f.alg.upper_table = t.upper_table
                                  /\ f.alg.lower_table = t.lower_table
<1> DEFINE f == FillTables(t, k)
           u == fill_missing_columns(t.upper_table, t.column_names, k)
           l == fill_missing_columns(t.lower_table, t.column_names, u.kb)
           c == t.column_names
<1>1. /\ c \in Seq(Word) /\ Sequence(c) /\ Members \subseteq DOMAIN t /\ Distinct(t.upper_table)
      /\ RowsFine(t.upper_table, c, k) /\ RowsFine(t.lower_table, c, k) /\ t.upper_table # <<>>
      /\ Sequence(t.upper_table) /\ Sequence(t.lower_table)
  BY SequenceOf DEF TableFine, ColumnsFine, HeadFine, StartFine, RowsFine
<1>2. /\ Learnt(k, u.kb) /\ u.complete \in BOOLEAN
      /\ RowsFine(u.rows, c, u.kb) /\ SameWords(t.upper_table, u.rows)
      /\ u.complete => Full(u.rows, c)
      /\ Full(t.upper_table, c) => u.complete /\ u.rows = t.upper_table
  <2> HIDE DEF c, u
  <2> QED BY <1>1, FillIsFine DEF u, c, SameWords
<1>3. KnowledgeFine(u.kb) /\ RowsFine(t.lower_table, c, u.kb)
  BY <1>1, <1>2, RowsStayFine DEF Learnt
<1>4. /\ Learnt(u.kb, l.kb) /\ l.complete \in BOOLEAN
      /\ RowsFine(l.rows, c, l.kb) /\ SameWords(t.lower_table, l.rows)
      /\ l.complete => Full(l.rows, c)
      /\ Full(t.lower_table, c) => l.complete /\ l.rows = t.lower_table
  <2> HIDE DEF c, u, l
  <2> QED BY <1>1, <1>3, FillIsFine DEF l, c, SameWords
<1>5. /\ Sequence(u.rows) /\ Distinct(u.rows) /\ u.rows # <<>>
  BY <1>1, <1>2, SameWordsSameSet DEF RowsFine
<1>6. u.complete => f = Result([[t EXCEPT !.upper_table = u.rows] EXCEPT !.lower_table = l.rows],
                               l.kb, l.complete)
  BY DEF FillTables, FillUpper, FillLower
<1>7. ~u.complete => f = Result([t EXCEPT !.upper_table = u.rows], u.kb, FALSE)
  BY DEF FillTables, FillUpper
<1> HIDE DEF f, u, l
<1>8. CASE u.complete
  <2> DEFINE s == [[t EXCEPT !.upper_table = u.rows] EXCEPT !.lower_table = l.rows]
  <2>1. /\ Changed(t, s, {"upper_table", "lower_table"})
        /\ s.upper_table = u.rows /\ s.lower_table = l.rows /\ s.column_names = c
    BY <1>1 DEF Changed, Members
  <2>2. f.alg = s /\ f.kb = l.kb /\ f.ready = l.complete /\ f.again = FALSE
    BY <1>6, <1>8 DEF Result
  <2> HIDE DEF s
  <2>3. RowsFine(u.rows, c, l.kb)
    BY <1>2, <1>4, RowsStayFine DEF Learnt
  <2>4. TableFine(s, l.kb)
    BY <1>1, <1>4, <1>5, <2>1, <2>3, NewRowsAreFine
  <2>5. f.ready => FullTable(s)
    BY <1>2, <1>4, <1>8, <2>1, <2>2 DEF FullTable
  <2>6. FullTable(t) => f.ready /\ s.upper_table = t.upper_table /\ s.lower_table = t.lower_table
    BY <1>2, <1>4, <2>1, <2>2 DEF FullTable
  <2> QED BY <1>2, <1>4, <2>1, <2>2, <2>4, <2>5, <2>6 DEF Learnt, f
<1>9. CASE ~u.complete
  <2> DEFINE s == [t EXCEPT !.upper_table = u.rows]
  <2>1. /\ Changed(t, s, {"upper_table", "lower_table"})
        /\ s.upper_table = u.rows /\ s.lower_table = t.lower_table /\ s.column_names = c
    BY <1>1 DEF Changed, Members
  <2>2. f.alg = s /\ f.kb = u.kb /\ f.ready = FALSE /\ f.again = FALSE
    BY <1>7, <1>9 DEF Result
  <2> HIDE DEF s
  <2>3. TableFine(s, u.kb)
    BY <1>1, <1>2, <1>3, <1>5, <2>1, NewRowsAreFine
  <2>4. ~FullTable(t)
    BY <1>2, <1>9 DEF FullTable
  <2>5. SameWords(t.lower_table, s.lower_table)
    BY <2>1 DEF SameWords
  <2> QED BY <1>2, <2>1, <2>2, <2>3, <2>4, <2>5 DEF Learnt, f
<1> QED BY <1>2, <1>8, <1>9

-----------------------------------------------------------------------------
(* The parts of a growing table. *)

\* The reverse of a sequence has its elements.
LEMMA ReverseFacts ==
    ASSUME NEW s, Sequence(s)
    PROVE  Sequence(Reverse(s)) /\ Range(Reverse(s)) = Range(s)
<1> DEFINE n == Len(s)
           a == Reverse(s)
<1>1. n \in Nat /\ Range(s) = {s[i] : i \in 1..n}
  BY SequenceFacts
<1>2. a = [i \in 1..n |-> s[n - i + 1]]
  BY DEF Reverse
<1> HIDE DEF n, a
<1>3. a = [i \in 1..n |-> a[i]] /\ \A i \in 1..n : a[i] = s[n - i + 1]
  BY <1>2
<1>4. Sequence(a) /\ Range(a) = {a[i] : i \in 1..n}
  BY <1>1, <1>3, FunctionToSequence
<1>5. \A i \in 1..n : a[i] \in Range(s)
  <2>1. \A i \in 1..n : n - i + 1 \in 1..n
    BY <1>1
  <2> QED BY <1>1, <1>3, <2>1
<1>6. \A i \in 1..n : s[i] \in Range(a)
  <2>1. \A i \in 1..n : n - i + 1 \in 1..n /\ n - (n - i + 1) + 1 = i
    BY <1>1
  <2> QED BY <1>3, <1>4, <2>1
<1> QED BY <1>1, <1>4, <1>5, <1>6 DEF a

\* The letters that an alphabet is extended by.
LEMMA LettersFacts ==
    ASSUME NEW from \in Nat, NEW to \in Nat, from <= to
    PROVE  Sequence(Letters(from, to)) /\ Range(Letters(from, to)) = from..(to - 1)
<1> DEFINE n == to - from
           a == Letters(from, to)
<1>1. n \in Nat /\ a = [i \in 1..n |-> from + i - 1]
  BY DEF Letters
<1> HIDE DEF a
<1>2. a = [i \in 1..n |-> a[i]] /\ \A i \in 1..n : a[i] = from + i - 1
  BY <1>1
<1>3. Sequence(a) /\ Range(a) = {a[i] : i \in 1..n}
  BY <1>1, <1>2, FunctionToSequence
<1>4. \A i \in 1..n : a[i] \in from..(to - 1)
  BY <1>2
<1>5. \A x \in from..(to - 1) : x - from + 1 \in 1..n /\ a[x - from + 1] = x
  <2>1. \A x \in from..(to - 1) : x - from + 1 \in 1..n /\ from + (x - from + 1) - 1 = x
    OBVIOUS
  <2> QED BY <1>2, <2>1
<1>6. Range(a) = from..(to - 1)
  BY <1>3, <1>4, <1>5
<1> QED BY <1>3, <1>6 DEF a

\* The successors of a word are the word and a letter.
LEMMA SuccessorsFacts ==
    ASSUME NEW w \in Word, NEW letters, Sequence(letters), Range(letters) \subseteq Symbols
    PROVE  LET s == Successors(w, letters)
           IN  /\ Sequence(s) /\ Range(s) \subseteq Word
               /\ Range(s) = {Append(w, a) : a \in Range(letters)}
<1> DEFINE n == Len(letters)
           s == Successors(w, letters)
<1>1. n \in Nat /\ Range(letters) = {letters[i] : i \in 1..n}
  BY SequenceFacts
<1>2. s = [i \in 1..n |-> Append(w, letters[i])]
  BY DEF Successors
<1> HIDE DEF n, s
<1>3. s = [i \in 1..n |-> s[i]] /\ \A i \in 1..n : s[i] = Append(w, letters[i])
  BY <1>2
<1>4. Sequence(s) /\ Range(s) = {s[i] : i \in 1..n}
  BY <1>1, <1>3, FunctionToSequence
<1>5. Range(s) = {Append(w, a) : a \in Range(letters)}
  <2>1. Range(s) = {Append(w, letters[i]) : i \in 1..n}
    BY <1>3, <1>4
  <2> QED BY <1>1, <2>1
<1>6. \A a \in Range(letters) : Append(w, a) \in Word
  BY AppendProperties DEF Word
<1> QED BY <1>4, <1>5, <1>6 DEF s

(***************************************************************************)
(* The words of a table's rows.                                            *)
(***************************************************************************)
LEMMA WordsOf ==
    ASSUME NEW rows, Sequence(rows)
    PROVE  Words(rows) = {r.index : r \in Range(rows)}
<1>1. DOMAIN rows = 1..Len(rows) /\ Range(rows) = {rows[i] : i \in 1..Len(rows)}
  BY SequenceFacts
<1> QED BY <1>1 DEF Words

\* New rows for words, as the methods make them.
RowsFor(words, ut, lt) == [i \in DOMAIN words |-> Row(words[i], ut, lt)]

(***************************************************************************)
(* New rows have no cells.                                                 *)
(***************************************************************************)
LEMMA FreshRows ==
    ASSUME NEW new, Sequence(new), NEW ut, NEW lt
    PROVE  LET rows == RowsFor(new, ut, lt)
           IN  /\ Sequence(rows) /\ Words(rows) = Range(new)
               /\ \A r \in Range(rows) : r.index \in Range(new) /\ r = Row(r.index, ut, lt)
<1> DEFINE n == Len(new)
           rows == RowsFor(new, ut, lt)
<1>1. n \in Nat /\ DOMAIN new = 1..n /\ Range(new) = {new[i] : i \in 1..n}
  BY SequenceFacts
<1> HIDE DEF n
<1>2. rows = [i \in 1..n |-> rows[i]] /\ \A i \in 1..n : rows[i] = Row(new[i], ut, lt)
  BY <1>1 DEF RowsFor
<1> HIDE DEF rows
<1>3. Sequence(rows) /\ Range(rows) = {rows[i] : i \in 1..n} /\ DOMAIN rows = 1..n
  BY <1>1, <1>2, FunctionToSequence
<1>4. \A i \in 1..n : rows[i].index = new[i]
  BY <1>2 DEF Row
<1>5. \A i \in 1..n : rows[i].index \in Range(new) /\ rows[i] = Row(rows[i].index, ut, lt)
  BY <1>1, <1>2, <1>4
<1>6. Words(rows) = Range(new)
  BY <1>1, <1>3, <1>4 DEF Words
<1> QED BY <1>3, <1>5, <1>6 DEF rows

\* A new row has no cells yet.
LEMMA FreshRowIsFine ==
    ASSUME NEW k, NEW columns, Sequence(columns), NEW w \in Word, NEW ut, NEW lt
    PROVE  RowFine(Row(w, ut, lt), columns, k) /\ Row(w, ut, lt).acceptance = <<>>
<1> DEFINE r == Row(w, ut, lt)
<1>1. /\ r.index = w /\ r.acceptance = <<>> /\ {"index", "acceptance"} \subseteq DOMAIN r
      /\ r = [m \in DOMAIN r |-> r[m]]
  BY DEF Row
<1>2. Sequence(r.acceptance) /\ Len(r.acceptance) = 0 /\ Len(columns) \in Nat
  BY <1>1, EmptySequence, SequenceFacts
<1> HIDE DEF r
<1>3. \A c \in 1..Len(r.acceptance) : FALSE
  BY <1>2
<1> QED BY <1>1, <1>2, <1>3 DEF RowFine, r

-----------------------------------------------------------------------------
(* Rows that move up. *)

\* s is t after w, which was not in the upper table, went there with its row, and the words
\* of new got rows below; the rest of the lower rows are as before.
MovedUp(k, t, s, w, row, rest, new, ut, lt) ==
    /\ w \in Word /\ w \notin Words(t.upper_table)
    /\ RowFine(row, t.column_names, k) /\ row.index = w
    /\ t.initialized \/ row.acceptance = <<>>
    /\ Sequence(rest) /\ Range(rest) \subseteq Range(t.lower_table)
    /\ Words(t.lower_table) \subseteq Words(rest) \cup {w}
    /\ Sequence(new) /\ Range(new) \subseteq Word
    /\ Changed(t, s, {"upper_table", "lower_table"})
    /\ s.upper_table = Append(t.upper_table, row)
    /\ s.lower_table = rest \o RowsFor(new, ut, lt)

(***************************************************************************)
(* A word that moves up leaves a good table.                               *)
(***************************************************************************)
LEMMA MovedUpIsFine ==
    ASSUME NEW k, NEW t, TableFine(t, k), NEW s, NEW w, NEW row, NEW rest, NEW new, NEW ut, NEW lt,
           MovedUp(k, t, s, w, row, rest, new, ut, lt)
    PROVE  /\ TableFine(s, k) /\ s.upper_table # <<>>
           /\ Words(s.upper_table) = Words(t.upper_table) \cup {w}
           /\ Words(t.lower_table) \cup Range(new) \subseteq Words(s.lower_table) \cup {w}
<1>0. /\ w \in Word /\ w \notin Words(t.upper_table)
      /\ RowFine(row, t.column_names, k) /\ row.index = w
      /\ t.initialized \/ row.acceptance = <<>>
      /\ Sequence(rest) /\ Range(rest) \subseteq Range(t.lower_table)
      /\ Words(t.lower_table) \subseteq Words(rest) \cup {w}
      /\ Sequence(new) /\ Range(new) \subseteq Word
      /\ Changed(t, s, {"upper_table", "lower_table"})
      /\ s.upper_table = Append(t.upper_table, row)
      /\ s.lower_table = rest \o RowsFor(new, ut, lt)
  BY DEF MovedUp
<1> DEFINE fresh == RowsFor(new, ut, lt)
           u == t.upper_table
           n == Len(u)
<1>1. /\ Sequence(t.column_names) /\ Distinct(u)
      /\ RowsFine(u, t.column_names, k) /\ RowsFine(t.lower_table, t.column_names, k)
      /\ Sequence(u) /\ Sequence(t.lower_table)
  BY SequenceOf DEF TableFine, ColumnsFine, RowsFine
<1>2. /\ RowsFine(fresh, t.column_names, k) /\ Words(fresh) = Range(new)
      /\ \A r \in Range(fresh) : r.acceptance = <<>>
  <2>1. /\ Sequence(fresh) /\ Words(fresh) = Range(new)
        /\ \A r \in Range(fresh) : r.index \in Range(new) /\ r = Row(r.index, ut, lt)
    BY <1>0, FreshRows
  <2> HIDE DEF fresh
  <2>2. \A r \in Range(fresh) : RowFine(r, t.column_names, k) /\ r.acceptance = <<>>
    BY <1>0, <1>1, <2>1, FreshRowIsFine
  <2> QED BY <2>1, <2>2 DEF RowsFine
<1>3. Sequence(fresh)
  BY <1>2 DEF RowsFine
<1> HIDE DEF fresh
<1>4. /\ Sequence(s.lower_table) /\ Range(s.lower_table) = Range(rest) \cup Range(fresh)
  <2>1. s.lower_table = rest \o fresh
    BY <1>0 DEF fresh
  <2> QED BY <1>0, <1>3, <2>1, ConcatFacts
<1>5. RowsFine(s.lower_table, t.column_names, k)
  BY <1>0, <1>1, <1>2, <1>4 DEF RowsFine
<1>6. /\ Sequence(s.upper_table) /\ Range(s.upper_table) = Range(u) \cup {row}
      /\ Len(s.upper_table) = n + 1 /\ s.upper_table[n + 1] = row
      /\ \A i \in 1..n : s.upper_table[i] = u[i]
  BY <1>0, <1>1, AppendFacts
<1>7. RowsFine(s.upper_table, t.column_names, k)
  BY <1>0, <1>1, <1>6 DEF RowsFine
<1>8. n \in Nat /\ \A i \in 1..n : u[i].index # w
  <2>1. n \in Nat /\ Range(u) = {u[i] : i \in 1..n}
    BY <1>1, SequenceFacts
  <2>2. w \notin Words(u)
    BY <1>0
  <2>3. ASSUME NEW i \in 1..n PROVE u[i].index \in Words(u)
    BY <2>1 DEF Words
  <2> QED BY <2>1, <2>2, <2>3
<1>9. Distinct(s.upper_table)
  <2> SUFFICES ASSUME NEW i \in 1..(n + 1), NEW j \in 1..(n + 1),
                      s.upper_table[i].index = s.upper_table[j].index
               PROVE  i = j
    BY <1>6 DEF Distinct
  <2>1. CASE i \in 1..n /\ j \in 1..n
    BY <1>1, <1>6, <2>1 DEF Distinct
  <2>2. CASE i \in 1..n /\ j \notin 1..n
    <3>1. j = n + 1
      BY <1>8, <2>2
    <3> QED BY <1>0, <1>6, <1>8, <2>2, <3>1
  <2>3. CASE i \notin 1..n /\ j \in 1..n
    <3>1. i = n + 1
      BY <1>8, <2>3
    <3> QED BY <1>0, <1>6, <1>8, <2>3, <3>1
  <2>4. CASE i \notin 1..n /\ j \notin 1..n
    BY <1>8, <2>4
  <2> QED BY <2>1, <2>2, <2>3, <2>4
<1>10. s.upper_table # <<>>
  BY <1>6, SequenceFacts
<1>11. ~t.initialized => \A r \in Range(s.upper_table) \cup Range(s.lower_table) : r.acceptance = <<>>
  BY <1>0, <1>2, <1>4, <1>6 DEF TableFine, StartFine
<1>12. TableFine(s, k)
  BY <1>0, <1>5, <1>7, <1>9, <1>10, <1>11, NewRowsAreFine
<1>13. Words(s.upper_table) = Words(u) \cup {w}
  BY <1>0, <1>1, <1>6, WordsOf
<1>14. Words(s.lower_table) = Words(rest) \cup Range(new)
  BY <1>0, <1>2, <1>3, <1>4, WordsOf
<1> QED BY <1>0, <1>10, <1>12, <1>13, <1>14

\* The place of the first row of w, or 0.
IndexOf(rows, w) == SelectInSeq(rows, LAMBDA r : r.index = w)

(***************************************************************************)
(* The row of w below, if there is one, and the rows that remain there.    *)
(***************************************************************************)
LEMMA RowBelow ==
    ASSUME NEW rows, Sequence(rows), NEW w
    PROVE  LET below == IndexOf(rows, w)
               rest == RemoveAt(rows, below)
           IN  /\ below \in 0..Len(rows)
               /\ below > 0 => /\ rows[below] \in Range(rows) /\ rows[below].index = w
                               /\ Sequence(rest) /\ Range(rest) \subseteq Range(rows)
                               /\ Words(rows) \subseteq Words(rest) \cup {w}
<1> DEFINE I == {i \in 1..Len(rows) : rows[i].index = w}
           below == IndexOf(rows, w)
<1>1. below = IF I # {} THEN Min(I) ELSE 0
  BY DEF SelectInSeq, IndexOf
<1>2. Len(rows) \in Nat /\ Range(rows) = {rows[i] : i \in 1..Len(rows)} /\ DOMAIN rows = 1..Len(rows)
  BY SequenceFacts
<1>3. I # {} => Min(I) \in I
  <2>1. I \in SUBSET Nat
    OBVIOUS
  <2> HIDE DEF I
  <2> QED BY <2>1, SmallestOf
<1>4. below = 0 \/ below \in I
  BY <1>1, <1>3
<1> HIDE DEF below
<1>5. below \in 0..Len(rows) /\ (below > 0 => below \in 1..Len(rows) /\ rows[below].index = w)
  BY <1>2, <1>4
<1>6. ASSUME below > 0
      PROVE  /\ rows[below] \in Range(rows) /\ Sequence(RemoveAt(rows, below))
             /\ Range(RemoveAt(rows, below)) \subseteq Range(rows)
             /\ Words(rows) \subseteq Words(RemoveAt(rows, below)) \cup {w}
  <2> DEFINE rest == RemoveAt(rows, below)
  <2>1. /\ Sequence(rest) /\ Range(rest) \subseteq Range(rows)
        /\ \A j \in 1..Len(rows) : j # below => rows[j] \in Range(rest)
    BY <1>5, <1>6, RemoveAtFacts
  <2> HIDE DEF rest
  <2>2. Words(rest) = {r.index : r \in Range(rest)}
    BY <2>1, WordsOf
  <2>3. \A j \in 1..Len(rows) : rows[j].index \in Words(rest) \cup {w}
    BY <1>5, <1>6, <2>1, <2>2
  <2>4. Words(rows) \subseteq Words(rest) \cup {w}
    BY <1>2, <2>3 DEF Words
  <2> QED BY <1>2, <1>5, <1>6, <2>1, <2>4 DEF rest
<1> QED BY <1>5, <1>6 DEF below

(***************************************************************************)
(* What add_word_to_upper_table does: w is in the upper table, no word is  *)
(* lost, and the successors of a new w are there.                          *)
(***************************************************************************)
Raised(t, s, w) ==
    /\ s.upper_table # <<>>
    /\ Words(s.upper_table) = Words(t.upper_table) \cup {w}
    /\ Words(t.lower_table) \subseteq Words(s.lower_table) \cup {w}
    /\ w \notin Words(t.upper_table) =>
          \A a \in 0..(t.alphabet_size - 1) : InTables(s, Append(w, a))

\* add_word_to_upper_table moves or adds one row, and puts its successors into the table.
LEMMA AddWordIsFine ==
    ASSUME NEW k, NEW t, TableFine(t, k), NEW w \in Word, NEW now, NEW check_uniq \in BOOLEAN,
           ~check_uniq => w \notin Words(t.upper_table)
    PROVE  LET s == add_word_to_upper_table(t, now, w, check_uniq)
           IN  /\ TableFine(s, k) /\ Raised(t, s, w)
               /\ Changed(t, s, {"upper_table", "lower_table"})
<1> DEFINE s == add_word_to_upper_table(t, now, w, check_uniq)
<1>0. /\ Sequence(t.column_names) /\ Members \subseteq DOMAIN t /\ Alphabet(t.alphabet_size)
      /\ Sequence(t.upper_table) /\ Sequence(t.lower_table)
      /\ RowsFine(t.lower_table, t.column_names, k)
  BY SequenceOf DEF TableFine, ColumnsFine, RowsFine, HeadFine
<1>1. CASE w \in Words(t.upper_table)
  <2>1. s = t
    BY <1>1 DEF add_word_to_upper_table
  <2>2. t.upper_table # <<>>
    <3>1. \E r \in Range(t.upper_table) : TRUE
      BY <1>0, <1>1, WordsOf
    <3> QED BY <1>0, <3>1, SequenceFacts
  <2> QED BY <1>1, <2>1, <2>2 DEF Raised, Changed
<1>2. CASE w \notin Words(t.upper_table)
  <2> DEFINE found == IndexOf(t.lower_table, w)
             below == IF check_uniq THEN found ELSE 0
             row == IF below > 0 THEN [t.lower_table[below] EXCEPT !.ut_timestamp = now]
                                 ELSE Row(w, now, 0)
             upper == Append(t.upper_table, row)
             rest == IF below > 0 THEN RemoveAt(t.lower_table, below) ELSE t.lower_table
             all == Successors(w, Letters(0, t.alphabet_size))
             kept == {v \in Range(all) : check_uniq => v \notin Words(upper)}
             new == OnlyIn(all, kept)
  <2>1. s = [t EXCEPT !.upper_table = upper,
                      !.lower_table = rest \o RowsFor(new, 0, now)]
    BY <1>2 DEF add_word_to_upper_table, RowsFor, IndexOf
  <2>2. /\ found \in 0..Len(t.lower_table)
        /\ found > 0 => /\ t.lower_table[found] \in Range(t.lower_table)
                        /\ t.lower_table[found].index = w
                        /\ Sequence(RemoveAt(t.lower_table, found))
                        /\ Range(RemoveAt(t.lower_table, found)) \subseteq Range(t.lower_table)
                        /\ Words(t.lower_table) \subseteq Words(RemoveAt(t.lower_table, found)) \cup {w}
    BY <1>0, RowBelow
  <2> HIDE DEF found
  <2>3. /\ Sequence(rest) /\ Range(rest) \subseteq Range(t.lower_table)
        /\ Words(t.lower_table) \subseteq Words(rest) \cup {w}
    BY <1>0, <2>2
  <2>4. RowFine(row, t.column_names, k) /\ row.index = w /\ (t.initialized \/ row.acceptance = <<>>)
    <3>1. CASE below > 0
      <4> DEFINE old == t.lower_table[below]
      <4>1. RowFine(old, t.column_names, k) /\ old.index = w /\ old \in Range(t.lower_table)
        BY <1>0, <2>2, <3>1 DEF RowsFine
      <4>2. row = [old EXCEPT !.ut_timestamp = now]
        BY <3>1
      <4> HIDE DEF old, row
      <4>3. /\ row.index = old.index /\ row.acceptance = old.acceptance /\ DOMAIN row = DOMAIN old
            /\ row = [m \in DOMAIN row |-> row[m]]
        BY <4>1, <4>2 DEF RowFine
      <4>4. t.initialized \/ old.acceptance = <<>>
        BY <4>1 DEF TableFine, StartFine
      <4> QED BY <4>1, <4>3, <4>4 DEF RowFine
    <3>2. CASE ~(below > 0)
      <4>1. row = Row(w, now, 0)
        BY <3>2
      <4> HIDE DEF row
      <4>2. row.index = w /\ row.acceptance = <<>> /\ {"index", "acceptance"} \subseteq DOMAIN row
            /\ row = [m \in DOMAIN row |-> row[m]]
        BY <4>1 DEF Row
      <4>3. Sequence(row.acceptance) /\ Len(row.acceptance) = 0 /\ Len(t.column_names) \in Nat
        BY <1>0, <4>2, EmptySequence, SequenceFacts
      <4>4. \A c \in 1..Len(row.acceptance) : FALSE
        BY <4>3
      <4> QED BY <4>2, <4>3, <4>4 DEF RowFine
    <3> QED BY <3>1, <3>2
  <2> HIDE DEF row, rest, below
  <2>5. Sequence(all) /\ Range(all) \subseteq Word /\ Range(all) = {Append(w, a) : a \in 0..(t.alphabet_size - 1)}
    <3>1. Sequence(Letters(0, t.alphabet_size)) /\ Range(Letters(0, t.alphabet_size)) = 0..(t.alphabet_size - 1)
      BY <1>0, LettersFacts DEF Alphabet
    <3> QED BY <1>0, <3>1, SuccessorsFacts DEF Alphabet
  <2>6. Sequence(new) /\ Range(new) = Range(all) \cap kept
    <3> HIDE DEF all, kept
    <3> QED BY <2>5, KeptFacts
  <2> HIDE DEF all, new
  <2>7. /\ Changed(t, s, {"upper_table", "lower_table"}) /\ s.upper_table = upper
        /\ s.lower_table = rest \o RowsFor(new, 0, now)
    BY <1>0, <2>1 DEF Changed, Members
  <2> HIDE DEF s
  <2>8. /\ TableFine(s, k) /\ s.upper_table # <<>>
        /\ Words(s.upper_table) = Words(t.upper_table) \cup {w}
        /\ Words(t.lower_table) \cup Range(new) \subseteq Words(s.lower_table) \cup {w}
    <3>1. MovedUp(k, t, s, w, row, rest, new, 0, now)
      BY <1>2, <2>3, <2>4, <2>5, <2>6, <2>7 DEF MovedUp
    <3> HIDE DEF kept, upper
    <3> QED BY <3>1, MovedUpIsFine
  <2>9. \A a \in 0..(t.alphabet_size - 1) : InTables(s, Append(w, a))
    <3> SUFFICES ASSUME NEW a \in 0..(t.alphabet_size - 1) PROVE InTables(s, Append(w, a))
      OBVIOUS
    <3>1. Append(w, a) \in Range(all)
      BY <2>5
    <3>2. Append(w, a) \in Words(s.upper_table) \cup Range(new)
      BY <2>6, <2>7, <3>1
    <3> QED BY <2>8, <3>2 DEF InTables
  <2> QED BY <2>7, <2>8, <2>9 DEF Raised, s
<1> QED BY <1>1, <1>2

-----------------------------------------------------------------------------
(* New columns. *)

(***************************************************************************)
(* A sequence of distinct elements, with another one.                      *)
(***************************************************************************)
LEMMA InjectiveAppend ==
    ASSUME NEW s, Sequence(s), IsInjective(s), NEW e, e \notin Range(s)
    PROVE  IsInjective(Append(s, e))
<1> DEFINE a == Append(s, e)
<1>1. /\ Len(s) \in Nat /\ DOMAIN s = 1..Len(s) /\ \A i \in 1..Len(s) : s[i] \in Range(s)
      /\ Sequence(a) /\ Len(a) = Len(s) + 1 /\ a[Len(s) + 1] = e /\ \A i \in 1..Len(s) : a[i] = s[i]
  BY SequenceFacts, AppendFacts
<1>2. DOMAIN a = 1..(Len(s) + 1)
  BY <1>1, SequenceFacts
<1> HIDE DEF a
<1> SUFFICES ASSUME NEW i \in 1..(Len(s) + 1), NEW j \in 1..(Len(s) + 1), a[i] = a[j] PROVE i = j
  BY <1>2 DEF IsInjective, a
<1>3. \A x \in 1..(Len(s) + 1) : x \in 1..Len(s) \/ x = Len(s) + 1
  BY <1>1
<1>4. \A x, y \in 1..Len(s) : s[x] = s[y] => x = y
  BY <1>1 DEF IsInjective
<1> QED BY <1>1, <1>3, <1>4

(***************************************************************************)
(* A row does not mind another column.                                     *)
(***************************************************************************)
LEMMA WiderRowsAreFine ==
    ASSUME NEW k, NEW columns, Sequence(columns), NEW w, NEW rows, RowsFine(rows, columns, k)
    PROVE  RowsFine(rows, Append(columns, w), k)
<1> DEFINE wider == Append(columns, w)
<1>1. /\ Len(columns) \in Nat /\ Len(wider) = Len(columns) + 1
      /\ \A i \in 1..Len(columns) : wider[i] = columns[i]
  BY SequenceFacts, AppendFacts
<1> HIDE DEF wider
<1>2. ASSUME NEW r, RowFine(r, columns, k) PROVE RowFine(r, wider, k)
  <2>1. Len(r.acceptance) \in Nat /\ Len(r.acceptance) <= Len(columns)
    BY <1>2, SequenceFacts DEF RowFine
  <2>2. \A c \in 1..Len(r.acceptance) : wider[c] = columns[c]
    BY <1>1, <2>1
  <2>3. Len(r.acceptance) <= Len(wider)
    BY <1>1, <2>1
  <2> QED BY <1>2, <2>2, <2>3 DEF RowFine
<1> QED BY <1>2 DEF RowsFine, wider

\* s is t with a column for w, which had none.
Widened(t, s, w, timestamp) ==
    /\ w \in Word /\ w \notin Range(t.column_names)
    /\ t.initialized \/ w # <<>>
    /\ Changed(t, s, {"column_names", "column_timestamps"})
    /\ s.column_names = Append(t.column_names, w)
    /\ s.column_timestamps = IF t.type = "nl" THEN t.column_timestamps
                             ELSE Append(t.column_timestamps, timestamp)

\* A table with one more column is as fine as it was.
LEMMA WidenedIsFine ==
    ASSUME NEW k, NEW t, TableFine(t, k), NEW s, NEW w, NEW timestamp, Widened(t, s, w, timestamp)
    PROVE  TableFine(s, k)
<1>1. /\ s.type = t.type /\ s.alphabet_size = t.alphabet_size /\ s.initialized = t.initialized
      /\ s.upper_table = t.upper_table /\ s.lower_table = t.lower_table
  BY DEF Widened, Changed, TableFine, HeadFine, Members
<1>2. HeadFine(s)
  <2>1. t.type = "rs" => /\ s.counterexample = t.counterexample /\ s.cex_front = t.cex_front
                         /\ s.cex_back = t.cex_back /\ s.cex_latest_bad = t.cex_latest_bad
    BY DEF Widened, Changed, TableFine, HeadFine, SearchMembers
  <2> QED BY <1>1, <2>1 DEF Widened, Changed, TableFine, HeadFine
<1>3. Sequence(t.column_names) /\ Range(t.column_names) \subseteq Word
  BY SequenceOf DEF TableFine, ColumnsFine
<1>4. /\ s.column_names = Append(t.column_names, w)
      /\ Sequence(s.column_names) /\ Range(s.column_names) = Range(t.column_names) \cup {w}
      /\ Len(s.column_names) = Len(t.column_names) + 1
  BY <1>3, AppendFacts DEF Widened
<1>5. ColumnsFine(s)
  <2>1. s.column_names \in Seq(Word)
    BY <1>3, <1>4, SequenceWithin DEF Widened
  <2>2. IsInjective(s.column_names)
    BY <1>3, InjectiveAppend DEF Widened, TableFine, ColumnsFine
  <2>3. t.type # "nl" => Sequence(s.column_timestamps) /\ Len(s.column_timestamps) = Len(s.column_names)
    <3> SUFFICES ASSUME t.type # "nl"
                 PROVE  Sequence(s.column_timestamps) /\ Len(s.column_timestamps) = Len(s.column_names)
      OBVIOUS
    <3>1. /\ Sequence(t.column_timestamps) /\ Len(t.column_timestamps) = Len(t.column_names)
          /\ s.column_timestamps = Append(t.column_timestamps, timestamp)
      BY DEF Widened, TableFine, ColumnsFine
    <3>2. /\ Sequence(Append(t.column_timestamps, timestamp))
          /\ Len(Append(t.column_timestamps, timestamp)) = Len(t.column_timestamps) + 1
      BY <3>1, AppendFacts
    <3> QED BY <1>4, <3>1, <3>2
  <2>4. t.type = "nl" => s.column_timestamps = <<>>
    BY DEF Widened, TableFine, ColumnsFine
  <2> QED BY <1>1, <2>1, <2>2, <2>3, <2>4 DEF ColumnsFine
<1>6. StartFine(s)
  BY <1>1, <1>4 DEF Widened, TableFine, StartFine
<1>7. /\ RowsFine(s.upper_table, s.column_names, k) /\ RowsFine(s.lower_table, s.column_names, k)
      /\ Distinct(s.upper_table)
  BY <1>1, <1>3, <1>4, WiderRowsAreFine DEF TableFine
<1> QED BY <1>2, <1>5, <1>6, <1>7 DEF TableFine

\* add_column touches the columns only, and no column comes twice.
LEMMA AddColumnIsFine ==
    ASSUME NEW k, NEW t, TableFine(t, k), t.type # "nl", NEW now, NEW w \in Word,
           t.initialized \/ w # <<>>
    PROVE  /\ TableFine(add_column(t, now, w), k)
           /\ Changed(t, add_column(t, now, w), {"column_names", "column_timestamps"})
<1> DEFINE s == add_column(t, now, w)
<1>1. CASE w \in Range(t.column_names)
  BY <1>1 DEF add_column, Changed
<1>2. CASE w \notin Range(t.column_names)
  <2>1. s = [t EXCEPT !.column_names = Append(t.column_names, w),
                      !.column_timestamps = Append(t.column_timestamps, now)]
    BY <1>2 DEF add_column
  <2> HIDE DEF s
  <2>2. Members \subseteq DOMAIN t
    BY DEF TableFine, HeadFine
  <2>3. Widened(t, s, w, now)
    BY <1>2, <2>1, <2>2 DEF Widened, Changed, Members
  <2> QED BY <2>3, WidenedIsFine DEF Widened, s
<1> QED BY <1>1, <1>2

\* The same for NL*'s add_column.
LEMMA NLAddColumnIsFine ==
    ASSUME NEW k, NEW t, TableFine(t, k), t.type = "nl", NEW w \in Word, t.initialized \/ w # <<>>
    PROVE  /\ TableFine(nl_add_column(t, w), k)
           /\ Changed(t, nl_add_column(t, w), {"column_names", "column_timestamps"})
<1> DEFINE s == nl_add_column(t, w)
<1>1. CASE w \in Range(t.column_names)
  BY <1>1 DEF nl_add_column, Changed
<1>2. CASE w \notin Range(t.column_names)
  <2>1. s = [t EXCEPT !.column_names = Append(t.column_names, w)]
    BY <1>2 DEF nl_add_column
  <2> HIDE DEF s
  <2>2. Members \subseteq DOMAIN t
    BY DEF TableFine, HeadFine
  <2>3. Widened(t, s, w, 0)
    BY <1>2, <2>1, <2>2 DEF Widened, Changed, Members
  <2> QED BY <2>3, WidenedIsFine DEF Widened, s
<1> QED BY <1>1, <1>2

\* The empty word is a word.
LEMMA EmptyWord == <<>> \in Word
BY DEF Word

(***************************************************************************)
(* initialize_table adds a row and a column for the empty word.            *)
(***************************************************************************)
LEMMA InitializeIsFine ==
    ASSUME NEW k, NEW t, TableFine(t, k), ~t.initialized, t.type # "nl", NEW now
    PROVE  LET s == initialize_table(t, now)
           IN  /\ TableFine(s, k) /\ s.initialized
               /\ Changed(t, s, {"upper_table", "lower_table", "initialized", "column_names",
                                 "column_timestamps"})
               /\ Raised(t, s, <<>>)
<1> DEFINE s == initialize_table(t, now)
           m == add_word_to_upper_table(t, now, <<>>, TRUE)
           u == [m EXCEPT !.initialized = TRUE]
<1>1. TableFine(m, k) /\ Raised(t, m, <<>>) /\ Changed(t, m, {"upper_table", "lower_table"})
  BY AddWordIsFine, EmptyWord
<1>2. s = [m EXCEPT !.column_names = Append(m.column_names, <<>>),
                    !.column_timestamps = Append(m.column_timestamps, 0),
                    !.initialized = TRUE]
  BY DEF initialize_table
<1> HIDE DEF m, s
<1>3. Members \subseteq DOMAIN m /\ ~m.initialized /\ m.type = t.type
      /\ m.alphabet_size = t.alphabet_size
  BY <1>1 DEF TableFine, HeadFine, Changed, Members
<1>4. u.initialized /\ Changed(m, u, {"initialized"})
  BY <1>3 DEF Changed, Members
<1> HIDE DEF u
<1>5. /\ u.type = m.type /\ u.alphabet_size = m.alphabet_size
      /\ u.column_names = m.column_names /\ u.column_timestamps = m.column_timestamps
      /\ u.upper_table = m.upper_table /\ u.lower_table = m.lower_table
  BY <1>3, <1>4 DEF Changed, Members
<1>6. TableFine(u, k)
  <2>1. HeadFine(u)
    <3>1. m.type = "rs" => /\ u.counterexample = m.counterexample /\ u.cex_front = m.cex_front
                           /\ u.cex_back = m.cex_back /\ u.cex_latest_bad = m.cex_latest_bad
      BY <1>1, <1>4 DEF Changed, TableFine, HeadFine, SearchMembers
    <3> QED BY <1>1, <1>4, <1>5, <3>1 DEF Changed, TableFine, HeadFine
  <2>2. ColumnsFine(u) /\ StartFine(u)
    BY <1>1, <1>4, <1>5 DEF TableFine, ColumnsFine, StartFine, Raised
  <2> QED BY <1>1, <1>5, <2>1, <2>2 DEF TableFine
<1>7. Widened(u, s, <<>>, 0)
  <2>1. <<>> \notin Range(u.column_names)
    BY <1>1, <1>3, <1>5 DEF TableFine, StartFine
  <2>2. /\ Changed(u, s, {"column_names", "column_timestamps"})
        /\ s.column_names = Append(u.column_names, <<>>)
        /\ s.column_timestamps = Append(u.column_timestamps, 0)
    BY <1>2, <1>3, <1>5 DEF Changed, Members, u
  <2>3. u.type # "nl"
    BY <1>3, <1>5
  <2> QED BY <1>4, <2>1, <2>2, <2>3, EmptyWord DEF Widened
<1>8. TableFine(s, k)
  BY <1>6, <1>7, WidenedIsFine
<1>9. s.upper_table = m.upper_table /\ s.lower_table = m.lower_table /\ s.initialized
  BY <1>2, <1>3 DEF Members
<1>10. Raised(t, s, <<>>)
  BY <1>1, <1>9 DEF Raised, InTables
<1>11. Changed(t, s, {"upper_table", "lower_table", "initialized", "column_names",
                      "column_timestamps"})
  BY <1>1, <1>2 DEF Changed
<1> QED BY <1>8, <1>9, <1>10, <1>11 DEF s

-----------------------------------------------------------------------------
(* A larger alphabet. *)

(***************************************************************************)
(* What Flattened returns has the elements of all the sequences.           *)
(***************************************************************************)
LEMMA FlattenedFacts ==
    ASSUME NEW n \in Nat, NEW ss, DOMAIN ss = 1..n, \A i \in 1..n : Sequence(ss[i])
    PROVE  /\ Sequence(Flattened(ss))
           /\ Range(Flattened(ss)) \subseteq UNION {Range(ss[i]) : i \in 1..n}
           /\ \A i \in 1..n : Range(ss[i]) \subseteq Range(Flattened(ss))
<1>1. Flattened(ss) = Concatenated(ss)
  BY DEF Flattened, Concatenated, FoldLeft, MapThenFoldSet, Max
<1> QED BY <1>1, ConcatenatedFacts

\* s is t with more letters and with rows for the words of new.
Enlarged(t, s, asize, new, ut, lt) ==
    /\ Alphabet(asize)
    /\ Sequence(new) /\ Range(new) \subseteq Word
    /\ t.upper_table = <<>> => new = <<>>
    /\ Changed(t, s, {"alphabet_size", "lower_table"})
    /\ s.alphabet_size = asize
    /\ s.lower_table = t.lower_table \o RowsFor(new, ut, lt)

\* Rows that are added to the lower table are its only new words.
LEMMA EnlargedIsFine ==
    ASSUME NEW k, NEW t, TableFine(t, k), NEW s, NEW asize, NEW new, NEW ut, NEW lt,
           Enlarged(t, s, asize, new, ut, lt)
    PROVE  /\ TableFine(s, k)
           /\ Words(s.lower_table) = Words(t.lower_table) \cup Range(new)
<1> DEFINE fresh == RowsFor(new, ut, lt)
<1>1. /\ Sequence(t.column_names) /\ Members \subseteq DOMAIN t /\ Sequence(t.lower_table)
  BY SequenceOf DEF TableFine, ColumnsFine, HeadFine, RowsFine
<1>2. /\ s.type = t.type /\ s.initialized = t.initialized
      /\ s.column_names = t.column_names /\ s.column_timestamps = t.column_timestamps
      /\ s.upper_table = t.upper_table
  BY <1>1 DEF Enlarged, Changed, Members
<1>3. HeadFine(s)
  <2>1. t.type = "rs" => /\ s.counterexample = t.counterexample /\ s.cex_front = t.cex_front
                         /\ s.cex_back = t.cex_back /\ s.cex_latest_bad = t.cex_latest_bad
    BY DEF Enlarged, Changed, TableFine, HeadFine, SearchMembers
  <2> QED BY <1>2, <2>1 DEF Enlarged, Changed, TableFine, HeadFine
<1>4. /\ Sequence(fresh) /\ Words(fresh) = Range(new)
      /\ \A r \in Range(fresh) : r.index \in Range(new) /\ r = Row(r.index, ut, lt)
  BY FreshRows DEF Enlarged
<1> HIDE DEF fresh
<1>5. \A r \in Range(fresh) : RowFine(r, t.column_names, k) /\ r.acceptance = <<>>
  BY <1>1, <1>4, FreshRowIsFine DEF Enlarged
<1>6. s.lower_table = t.lower_table \o fresh
  BY DEF Enlarged, fresh
<1>7. Sequence(s.lower_table) /\ Range(s.lower_table) = Range(t.lower_table) \cup Range(fresh)
  BY <1>1, <1>4, <1>6, ConcatFacts
<1>8. RowsFine(s.lower_table, t.column_names, k)
  BY <1>5, <1>7 DEF TableFine, RowsFine
<1>9. StartFine(s)
  <2>1. t.upper_table = <<>> => s.lower_table = <<>>
    <3> SUFFICES ASSUME t.upper_table = <<>> PROVE s.lower_table = <<>>
      OBVIOUS
    <3>1. t.lower_table = <<>> /\ new = <<>>
      BY DEF TableFine, StartFine, Enlarged
    <3>2. Range(new) = {} /\ Range(t.lower_table) = {}
      BY <3>1, EmptySequence
    <3>3. Range(s.lower_table) = {}
      BY <1>4, <1>7, <3>2
    <3> QED BY <1>7, <3>3, SequenceFacts
  <2> QED BY <1>2, <1>5, <1>7, <2>1 DEF TableFine, StartFine
<1>10. ColumnsFine(s)
  BY <1>2 DEF TableFine, ColumnsFine
<1>11. Words(s.lower_table) = Words(t.lower_table) \cup Range(new)
  BY <1>1, <1>4, <1>7, WordsOf
<1> QED BY <1>2, <1>3, <1>8, <1>9, <1>10, <1>11 DEF TableFine

\* What increase_alphabet_size changes: there are rows for the new successors of the words.
Extended(t, s, words) ==
    /\ Changed(t, s, {"alphabet_size", "lower_table"})
    /\ Words(t.lower_table) \subseteq Words(s.lower_table)
    /\ \A w \in words, a \in t.alphabet_size..(s.alphabet_size - 1) : Append(w, a) \in Words(s.lower_table)

\* increase_alphabet_size gives every upper row its successors by the new letters.
LEMMA IncreaseIsFine ==
    ASSUME NEW k, NEW t, TableFine(t, k), NEW asize, Alphabet(asize), NEW garbage
    PROVE  LET s == increase_alphabet_size(t, asize, garbage)
           IN  TableFine(s, k) /\ Extended(t, s, Words(t.upper_table))
<1> DEFINE s == increase_alphabet_size(t, asize, garbage)
<1>0. /\ Members \subseteq DOMAIN t /\ asize \in Nat /\ t.alphabet_size \in Nat
      /\ Sequence(t.upper_table) /\ RowsFine(t.upper_table, t.column_names, k)
  BY DEF TableFine, HeadFine, RowsFine, Alphabet
<1>1. CASE asize <= t.alphabet_size
  <2>1. s = t
    BY <1>1 DEF increase_alphabet_size
  <2>2. t.alphabet_size..(t.alphabet_size - 1) = {}
    BY <1>0
  <2> QED BY <2>1, <2>2 DEF Extended, Changed
<1>2. CASE ~(asize <= t.alphabet_size)
  <2> DEFINE letters == Letters(t.alphabet_size, asize)
             u == t.upper_table
             n == Len(u)
             ss == [i \in DOMAIN u |-> Successors(u[i].index, letters)]
             new == Flattened(ss)
  <2>1. s = [t EXCEPT !.alphabet_size = asize,
                      !.lower_table = t.lower_table \o RowsFor(new, garbage, garbage)]
    BY <1>2 DEF increase_alphabet_size, RowsFor
  <2>2. Sequence(letters) /\ Range(letters) = t.alphabet_size..(asize - 1)
    BY <1>0, <1>2, LettersFacts
  <2>3. Range(letters) \subseteq Symbols
    <3>1. t.alphabet_size..(asize - 1) \subseteq 0..(asize - 1)
      BY <1>0
    <3> QED BY <2>2, <3>1 DEF Alphabet
  <2>4. n \in Nat /\ DOMAIN u = 1..n /\ Range(u) = {u[i] : i \in 1..n} /\ (n = 0 <=> u = <<>>)
    BY <1>0, SequenceFacts
  <2> HIDE DEF n, letters
  <2>5. DOMAIN ss = 1..n /\ \A i \in 1..n : ss[i] = Successors(u[i].index, letters)
    BY <2>4
  <2> HIDE DEF ss
  <2>6. \A i \in 1..n : /\ Sequence(ss[i]) /\ Range(ss[i]) \subseteq Word
                        /\ Range(ss[i]) = {Append(u[i].index, a) : a \in Range(letters)}
    <3>1. \A i \in 1..n : u[i].index \in Word
      BY <1>0, <2>4 DEF RowsFine, RowFine
    <3> QED BY <2>2, <2>3, <2>5, <3>1, SuccessorsFacts
  <2>7. /\ Sequence(new) /\ Range(new) \subseteq UNION {Range(ss[i]) : i \in 1..n}
        /\ \A i \in 1..n : Range(ss[i]) \subseteq Range(new)
    BY <2>4, <2>5, <2>6, FlattenedFacts
  <2> HIDE DEF new
  <2>8. Range(new) \subseteq Word
    BY <2>6, <2>7
  <2>9. u = <<>> => new = <<>>
    <3> SUFFICES ASSUME u = <<>> PROVE new = <<>>
      OBVIOUS
    <3>1. 1..n = {}
      BY <2>4
    <3>2. Range(new) = {}
      BY <2>7, <3>1
    <3> QED BY <2>7, <3>2, SequenceFacts
  <2> HIDE DEF s
  <2>10. Enlarged(t, s, asize, new, garbage, garbage)
    BY <1>0, <2>1, <2>7, <2>8, <2>9 DEF Enlarged, Changed, Members
  <2>11. TableFine(s, k) /\ Words(s.lower_table) = Words(t.lower_table) \cup Range(new)
    BY <2>10, EnlargedIsFine
  <2>12. \A w \in Words(u), a \in t.alphabet_size..(asize - 1) : Append(w, a) \in Range(new)
    <3> SUFFICES ASSUME NEW i \in 1..n, NEW a \in t.alphabet_size..(asize - 1)
                 PROVE  Append(u[i].index, a) \in Range(new)
      BY <2>4 DEF Words
    <3>1. Append(u[i].index, a) \in Range(ss[i])
      BY <2>2, <2>6
    <3> QED BY <2>7, <3>1
  <2>13. s.alphabet_size = asize /\ Changed(t, s, {"alphabet_size", "lower_table"})
    BY <2>10 DEF Enlarged
  <2> QED BY <2>11, <2>12, <2>13 DEF Extended, s
<1> QED BY <1>1, <1>2

-----------------------------------------------------------------------------
(* Closing the table and making it consistent. *)

(***************************************************************************)
(* Two full rows of one word have the same cells.                          *)
(***************************************************************************)
LEMMA SameWordSameCells ==
    ASSUME NEW columns, Sequence(columns), NEW k, NEW r, NEW s, RowFine(r, columns, k), RowFine(s, columns, k),
           r.index = s.index, Len(r.acceptance) = Len(s.acceptance)
    PROVE  r.acceptance = s.acceptance
<1> DEFINE n == Len(r.acceptance)
<1>1. r.acceptance = [c \in 1..n |-> r.acceptance[c]] /\ s.acceptance = [c \in 1..n |-> s.acceptance[c]]
  BY SequenceFacts DEF RowFine
<1>2. \A c \in 1..n : r.acceptance[c] = s.acceptance[c]
  BY DEF RowFine
<1> HIDE DEF n
<1> QED BY <1>1, <1>2

(***************************************************************************)
(* The first element for which a test holds, or 0.                         *)
(***************************************************************************)
LEMMA UnmatchedFacts ==
    ASSUME NEW t, Sequence(t.lower_table)
    PROVE  /\ Unmatched(t) \in 0..Len(t.lower_table)
           /\ Unmatched(t) > 0 =>
                 t.lower_table[Unmatched(t)].acceptance \notin Patterns(t.upper_table)
           /\ Unmatched(t) = 0 =>
                 \A r \in Range(t.lower_table) : r.acceptance \in Patterns(t.upper_table)
<1> DEFINE I == {i \in 1..Len(t.lower_table) : t.lower_table[i].acceptance \notin Patterns(t.upper_table)}
<1>1. Unmatched(t) = IF I # {} THEN Min(I) ELSE 0
  BY DEF Unmatched, SelectInSeq
<1>2. /\ Len(t.lower_table) \in Nat
      /\ Range(t.lower_table) = {t.lower_table[i] : i \in 1..Len(t.lower_table)}
  BY SequenceFacts
<1>3. I # {} => Min(I) \in I
  <2>1. I \in SUBSET Nat
    OBVIOUS
  <2> HIDE DEF I
  <2> QED BY <2>1, SmallestOf
<1>4. (I = {} /\ Unmatched(t) = 0) \/ (Unmatched(t) \in I /\ Unmatched(t) \in 1..Len(t.lower_table))
  BY <1>1, <1>3
<1>5. I = {} => \A r \in Range(t.lower_table) : r.acceptance \in Patterns(t.upper_table)
  BY <1>2
<1> QED BY <1>2, <1>4, <1>5

(***************************************************************************)
(* close() moves a row up whose word is not in the upper table: if it were *)
(* there, the cells would be the same.                                     *)
(***************************************************************************)
LEMMA CloseIsFine ==
    ASSUME NEW k, NEW t, TableFine(t, k), FullTable(t), Unmatched(t) > 0, NEW now
    PROVE  LET w == t.lower_table[Unmatched(t)].index
               s == close(t, now)
           IN  /\ TableFine(s, k) /\ Raised(t, s, w) /\ w \notin Words(t.upper_table)
               /\ Changed(t, s, {"upper_table", "lower_table"})
<1> DEFINE r == t.lower_table[Unmatched(t)]
<1>1. /\ Sequence(t.lower_table) /\ Sequence(t.upper_table) /\ Sequence(t.column_names)
      /\ RowsFine(t.upper_table, t.column_names, k) /\ RowsFine(t.lower_table, t.column_names, k)
  BY SequenceOf DEF TableFine, RowsFine, ColumnsFine
<1>2. Unmatched(t) \in 0..Len(t.lower_table) /\ r.acceptance \notin Patterns(t.upper_table)
  BY <1>1, UnmatchedFacts
<1>3. r \in Range(t.lower_table)
  BY <1>1, <1>2, SequenceFacts
<1> HIDE DEF r
<1>4. RowFine(r, t.column_names, k) /\ Len(r.acceptance) = Len(t.column_names)
  BY <1>1, <1>3 DEF RowsFine, FullTable, Full
<1>5. r.index \notin Words(t.upper_table)
  <2> SUFFICES ASSUME NEW i \in DOMAIN t.upper_table, t.upper_table[i].index = r.index PROVE FALSE
    BY DEF Words
  <2>1. t.upper_table[i] \in Range(t.upper_table)
    BY <1>1, SequenceFacts
  <2>2. /\ RowFine(t.upper_table[i], t.column_names, k)
        /\ Len(t.upper_table[i].acceptance) = Len(t.column_names)
    BY <1>1, <2>1 DEF RowsFine, FullTable, Full
  <2>3. t.upper_table[i].acceptance = r.acceptance
    BY <1>1, <1>4, <2>2, SameWordSameCells
  <2> QED BY <1>2, <2>3 DEF Patterns
<1>6. r.index \in Word
  BY <1>4 DEF RowFine
<1>7. close(t, now) = add_word_to_upper_table(t, now, r.index, FALSE)
  BY DEF close, r
<1> QED BY <1>5, <1>6, <1>7, AddWordIsFine DEF r

(***************************************************************************)
(* Before has a least element in every set of tuples of n numbers, so the  *)
(* loops that look for a conflict find one if there is one.                *)
(***************************************************************************)
Tuples(S, n) ==
    /\ \A x \in S : DOMAIN x = 1..n /\ \A p \in 1..n : x[p] \in Nat
    /\ \A x, y \in S : (\A p \in 1..n : x[p] = y[p]) => x = y

\* A number that is at most another equals it or is less: the last place where two tuples
\* are compared.
LEMMA EqualOrLess == \A i, j \in Nat : i <= j => i = j \/ i < j
  OBVIOUS

\* Of tuples of numbers, one comes first.
LEMMA FirstTuple ==
    ASSUME NEW n \in Nat, NEW S, S # {}, Tuples(S, n)
    PROVE  \E y \in S : \A z \in S \ {y} : Before(y, z)
<1> USE DEF Tuples
<1> DEFINE Same(y, z, p) == \A q \in 1..p : y[q] = z[q]
           Less(y, z, p) == \E r \in 1..p : y[r] < z[r] /\ \A q \in 1..(r - 1) : y[q] = z[q]
           First(y, p) == \A z \in S : Same(y, z, p) \/ Less(y, z, p)
           Bad == {p \in 0..n : ~\E y \in S : First(y, p)}
<1>1. Bad = {}
  <2> SUFFICES ASSUME Bad # {} PROVE FALSE
    OBVIOUS
  <2>1. PICK p \in Bad : \A j \in Bad : p <= j
    <3>1. Bad \in SUBSET Nat
      OBVIOUS
    <3> HIDE DEF Bad
    <3> QED BY <3>1, Ask1!LeastNumber
  <2>2. p # 0
    <3> SUFFICES \E y \in S : First(y, 0)
      OBVIOUS
    <3>1. \A y, z \in S : Same(y, z, 0)
      OBVIOUS
    <3> QED BY <3>1
  <2>3. p \in 0..n /\ p - 1 \in 0..n /\ p \in 1..n /\ p - 1 \notin Bad
    <3>1. p \in 0..n
      OBVIOUS
    <3>2. ~(p <= p - 1)
      BY <3>1
    <3> HIDE DEF Bad
    <3> QED BY <2>1, <2>2, <3>1, <3>2
  <2>4. PICK y \in S : First(y, p - 1)
    BY <2>3
  <2> DEFINE T == {z[p] : z \in {z \in S : Same(y, z, p - 1)}}
  <2>5. T \in SUBSET Nat /\ T # {}
    <3>1. Same(y, y, p - 1)
      OBVIOUS
    <3>2. y[p] \in T
      BY <3>1
    <3>3. \A z \in S : z[p] \in Nat
      BY <2>3
    <3>4. T \subseteq Nat
      <4> HIDE DEF Same
      <4> QED BY <3>3
    <3> HIDE DEF T
    <3> QED BY <3>2, <3>4
  <2>6. PICK m \in T : \A j \in T : m <= j
    <3> HIDE DEF T
    <3> QED BY <2>5, Ask1!LeastNumber
  <2>7. PICK x \in S : Same(y, x, p - 1) /\ x[p] = m
    OBVIOUS
  <2>8. ASSUME NEW z \in S PROVE Same(x, z, p) \/ Less(x, z, p)
    <3>1. CASE Same(y, z, p - 1)
      <4>1. z[p] \in T
        BY <3>1
      <4>2. x[p] <= z[p] /\ x[p] \in Nat /\ z[p] \in Nat
        BY <2>3, <2>6, <2>7, <4>1
      <4>3. \A q \in 1..(p - 1) : x[q] = z[q]
        BY <2>7, <3>1
      <4>4. CASE x[p] = z[p]
        <5>1. \A q \in 1..p : q \in 1..(p - 1) \/ q = p
          BY <2>3
        <5> QED BY <4>3, <4>4, <5>1
      <4>5. CASE x[p] < z[p]
        <5>1. p \in 1..p
          BY <2>3
        <5> QED BY <4>3, <4>5, <5>1
      <4>6. x[p] = z[p] \/ x[p] < z[p]
        BY <4>2, EqualOrLess
      <4> HIDE DEF Same, Less
      <4> QED BY <4>4, <4>5, <4>6
    <3>2. CASE Less(y, z, p - 1)
      <4>1. PICK r \in 1..(p - 1) : y[r] < z[r] /\ \A q \in 1..(r - 1) : y[q] = z[q]
        BY <3>2
      <4>2. r \in 1..p /\ \A q \in 1..(r - 1) : q \in 1..(p - 1)
        BY <2>3
      <4>3. x[r] < z[r] /\ \A q \in 1..(r - 1) : x[q] = z[q]
        BY <2>7, <4>1, <4>2
      <4> QED BY <4>2, <4>3
    <3> QED BY <2>4, <3>1, <3>2
  <2>9. First(x, p)
    BY <2>8
  <2> QED BY <2>9
<1>2. PICK y \in S : First(y, n)
  <2>1. n \in 0..n /\ n \notin Bad
    <3> HIDE DEF Bad
    <3> QED BY <1>1
  <2> QED BY <2>1
<1>3. ASSUME NEW z \in S, z # y PROVE Before(y, z)
  <2>1. ~Same(y, z, n)
    BY <1>3
  <2>2. Less(y, z, n)
    BY <1>2, <2>1
  <2> QED BY <2>2 DEF Before
<1> QED BY <1>3

(***************************************************************************)
(* make_consistent adds a column.                                          *)
(***************************************************************************)
LEMMA FirstConflict ==
    ASSUME NEW t, Sequence(t.column_names), Conflicts(t) # {}
    PROVE  (CHOOSE y \in Conflicts(t) : \A z \in Conflicts(t) \ {y} : Before(y, z)) \in Conflicts(t)
<1> DEFINE S == Conflicts(t)
<1>1. \A x \in S : x \in Nat \X Nat \X Nat \X Nat
  <2> DEFINE n == Len(t.upper_table)
             b == t.alphabet_size - 1
  <2>1. DOMAIN t.column_names \subseteq Nat
    BY SequenceFacts
  <2>2. \A x \in Conflicts(t) : x \in (1..n) \X (1..n) \X (0..b) \X DOMAIN t.column_names
    BY Zenon DEF Conflicts
  <2> HIDE DEF n, b
  <2>3. 1..n \subseteq Nat /\ 0..b \subseteq Nat
    OBVIOUS
  <2> QED BY <2>1, <2>2, <2>3 DEF S
<1> HIDE DEF S
<1>2. \A x \in S : DOMAIN x = 1..4 /\ \A p \in 1..4 : x[p] \in Nat
  BY <1>1
<1>3. \A x, y \in S : (\A p \in 1..4 : x[p] = y[p]) => x = y
  BY <1>1
<1>4. Tuples(S, 4)
  BY <1>2, <1>3 DEF Tuples
<1>5. \E y \in S : \A z \in S \ {y} : Before(y, z)
  BY <1>4, FirstTuple DEF S
<1> QED BY <1>5 DEF S

\* The conflicts of NL* are two rows, which way one covers the other, a letter and a column.
LEMMA NLConflictShape ==
    ASSUME NEW t, NEW x \in NLConflicts(t)
    PROVE  \E i, j \in DOMAIN t.upper_table : \E d \in {0, 1} :
              \E a \in 0..(t.alphabet_size - 1) : \E c \in DOMAIN t.column_names :
                 x = <<i, j, d, a, c>>
<1> DEFINE upper == DOMAIN t.upper_table
<1>1. \E p \in upper \X upper \X {0, 1} : \E a \in 0..(t.alphabet_size - 1) :
         \E c \in DOMAIN t.column_names : x = <<p[1], p[2], p[3], a, c>>
  BY DEF NLConflicts
<1> HIDE DEF upper
<1>2. \A p \in upper \X upper \X {0, 1} : p[1] \in upper /\ p[2] \in upper /\ p[3] \in {0, 1}
  OBVIOUS
<1>3. \E i, j \in upper : \E d \in {0, 1} : \E a \in 0..(t.alphabet_size - 1) :
         \E c \in DOMAIN t.column_names : x = <<i, j, d, a, c>>
  BY <1>1, <1>2, Zenon
<1> QED BY <1>3 DEF upper

\* The conflict that NL*'s make_consistent finds first is one.
LEMMA FirstNLConflict ==
    ASSUME NEW t, Sequence(t.column_names), Sequence(t.upper_table), NLConflicts(t) # {}
    PROVE  (CHOOSE y \in NLConflicts(t) : \A z \in NLConflicts(t) \ {y} : Before(y, z)) \in NLConflicts(t)
<1> DEFINE S == NLConflicts(t)
<1>1. \A x \in S : x \in Nat \X Nat \X Nat \X Nat \X Nat
  <2>1. DOMAIN t.column_names \subseteq Nat /\ DOMAIN t.upper_table \subseteq Nat
    BY SequenceFacts
  <2>2. 0..(t.alphabet_size - 1) \subseteq Nat /\ {0, 1} \subseteq Nat
    OBVIOUS
  <2> SUFFICES ASSUME NEW x \in NLConflicts(t) PROVE x \in Nat \X Nat \X Nat \X Nat \X Nat
    BY DEF S
  <2>3. PICK i, j \in DOMAIN t.upper_table, d \in {0, 1}, a \in 0..(t.alphabet_size - 1),
             c \in DOMAIN t.column_names : x = <<i, j, d, a, c>>
    BY NLConflictShape
  <2>4. i \in Nat /\ j \in Nat /\ d \in Nat /\ a \in Nat /\ c \in Nat
    BY <2>1, <2>2
  <2> QED BY <2>3, <2>4
<1> HIDE DEF S
<1>2. \A x \in S : DOMAIN x = 1..5 /\ \A p \in 1..5 : x[p] \in Nat
  BY <1>1
<1>3. \A x, y \in S : (\A p \in 1..5 : x[p] = y[p]) => x = y
  BY <1>1
<1>4. Tuples(S, 5)
  BY <1>2, <1>3 DEF Tuples
<1>5. \E y \in S : \A z \in S \ {y} : Before(y, z)
  BY <1>4, FirstTuple DEF S
<1> QED BY <1>5 DEF S

(***************************************************************************)
(* make_consistent adds a column: a letter before another column.          *)
(***************************************************************************)
LEMMA LetterBeforeColumn ==
    ASSUME NEW t, HeadFine(t), t.column_names \in Seq(Word), NEW a \in 0..(t.alphabet_size - 1),
           NEW c \in DOMAIN t.column_names
    PROVE  <<a>> \o t.column_names[c] \in Word
<1>1. a \in Symbols
  BY DEF HeadFine, Alphabet
<1>2. t.column_names[c] \in Word
  BY SequenceOf, SequenceFacts
<1>3. <<a>> \in Seq(Symbols)
  BY <1>1
<1> QED BY <1>2, <1>3, ConcatProperties DEF Word

\* make_consistent adds a column for the first conflict.
LEMMA MakeConsistentIsFine ==
    ASSUME NEW k, NEW t, TableFine(t, k), t.initialized, t.type # "nl", Conflicts(t) # {}, NEW now
    PROVE  /\ TableFine(make_consistent(t, now), k)
           /\ Changed(t, make_consistent(t, now), {"column_names", "column_timestamps"})
<1> DEFINE x == CHOOSE y \in Conflicts(t) : \A z \in Conflicts(t) \ {y} : Before(y, z)
<1>1. x \in Conflicts(t)
  BY FirstConflict, SequenceOf DEF TableFine, ColumnsFine
<1>2. make_consistent(t, now) = add_column(t, now, <<x[3]>> \o t.column_names[x[4]])
  BY DEF make_consistent
<1> HIDE DEF x
<1>3. x[3] \in 0..(t.alphabet_size - 1) /\ x[4] \in DOMAIN t.column_names
  BY <1>1 DEF Conflicts
<1>4. <<x[3]>> \o t.column_names[x[4]] \in Word
  BY <1>3, LetterBeforeColumn DEF TableFine, ColumnsFine
<1> QED BY <1>2, <1>4, AddColumnIsFine

-----------------------------------------------------------------------------
(* The methods of NL*'s table. *)

LEMMA NLMakeConsistentIsFine ==
    ASSUME NEW k, NEW t, TableFine(t, k), t.initialized, t.type = "nl", NLConflicts(t) # {}
    PROVE  /\ TableFine(nl_make_consistent(t), k)
           /\ Changed(t, nl_make_consistent(t), {"column_names", "column_timestamps"})
<1> DEFINE x == CHOOSE y \in NLConflicts(t) : \A z \in NLConflicts(t) \ {y} : Before(y, z)
<1>1. x \in NLConflicts(t)
  BY FirstNLConflict, SequenceOf DEF TableFine, ColumnsFine, RowsFine
<1>2. nl_make_consistent(t) = nl_add_column(t, <<x[4]>> \o t.column_names[x[5]])
  BY DEF nl_make_consistent
<1> HIDE DEF x
<1>3. x[4] \in 0..(t.alphabet_size - 1) /\ x[5] \in DOMAIN t.column_names
  <2>1. PICK i, j \in DOMAIN t.upper_table, d \in {0, 1}, a \in 0..(t.alphabet_size - 1),
             c \in DOMAIN t.column_names : x = <<i, j, d, a, c>>
    BY <1>1, NLConflictShape
  <2>2. x[4] = a /\ x[5] = c
    BY <2>1
  <2> QED BY <2>2
<1>4. <<x[4]>> \o t.column_names[x[5]] \in Word
  BY <1>3, LetterBeforeColumn DEF TableFine, ColumnsFine
<1> QED BY <1>2, <1>4, NLAddColumnIsFine

\* add_word_to_upper_table of NL*.
LEMMA NLAddWordIsFine ==
    ASSUME NEW k, NEW t, TableFine(t, k), NEW w \in Word
    PROVE  LET s == nl_add_word_to_upper_table(t, w)
           IN  /\ TableFine(s, k) /\ Raised(t, s, w)
               /\ Changed(t, s, {"upper_table", "lower_table"})
<1> DEFINE s == nl_add_word_to_upper_table(t, w)
<1>0. /\ Sequence(t.column_names) /\ Members \subseteq DOMAIN t /\ Alphabet(t.alphabet_size)
      /\ Sequence(t.upper_table) /\ Sequence(t.lower_table)
      /\ RowsFine(t.lower_table, t.column_names, k)
  BY SequenceOf DEF TableFine, ColumnsFine, RowsFine, HeadFine
<1>1. CASE w \in Words(t.upper_table)
  <2>1. s = t
    BY <1>1 DEF nl_add_word_to_upper_table
  <2>2. t.upper_table # <<>>
    <3>1. \E r \in Range(t.upper_table) : TRUE
      BY <1>0, <1>1, WordsOf
    <3> QED BY <1>0, <3>1, SequenceFacts
  <2> QED BY <1>1, <2>1, <2>2 DEF Raised, Changed
<1>2. CASE w \notin Words(t.upper_table)
  <2> DEFINE below == IndexOf(t.lower_table, w)
             row == IF below > 0 THEN t.lower_table[below] ELSE Row(w, 0, 0)
             upper == Append(t.upper_table, row)
             rest == IF below > 0 THEN RemoveAt(t.lower_table, below) ELSE t.lower_table
             all == Successors(w, Reverse(Letters(0, t.alphabet_size)))
             kept == Range(all) \ Words(upper)
             new == OnlyIn(all, kept)
  <2>1. s = [t EXCEPT !.upper_table = upper, !.lower_table = rest \o RowsFor(new, 0, 0)]
    BY <1>2 DEF nl_add_word_to_upper_table, RowsFor, IndexOf
  <2>2. /\ below \in 0..Len(t.lower_table)
        /\ below > 0 => /\ t.lower_table[below] \in Range(t.lower_table)
                        /\ t.lower_table[below].index = w
                        /\ Sequence(RemoveAt(t.lower_table, below))
                        /\ Range(RemoveAt(t.lower_table, below)) \subseteq Range(t.lower_table)
                        /\ Words(t.lower_table) \subseteq Words(RemoveAt(t.lower_table, below)) \cup {w}
    BY <1>0, RowBelow
  <2> HIDE DEF below
  <2>3. /\ Sequence(rest) /\ Range(rest) \subseteq Range(t.lower_table)
        /\ Words(t.lower_table) \subseteq Words(rest) \cup {w}
    BY <1>0, <2>2
  <2>4. RowFine(row, t.column_names, k) /\ row.index = w /\ (t.initialized \/ row.acceptance = <<>>)
    <3>1. CASE below > 0
      BY <1>0, <2>2, <3>1 DEF RowsFine, TableFine, StartFine
    <3>2. CASE ~(below > 0)
      <4>1. RowFine(Row(w, 0, 0), t.column_names, k) /\ Row(w, 0, 0).acceptance = <<>>
        BY <1>0, FreshRowIsFine
      <4> QED BY <3>2, <4>1 DEF Row
    <3> QED BY <3>1, <3>2
  <2> HIDE DEF row, rest
  <2>5. Sequence(all) /\ Range(all) \subseteq Word /\ Range(all) = {Append(w, a) : a \in 0..(t.alphabet_size - 1)}
    <3> DEFINE letters == Reverse(Letters(0, t.alphabet_size))
    <3>1. Sequence(letters) /\ Range(letters) = 0..(t.alphabet_size - 1)
      BY <1>0, LettersFacts, ReverseFacts DEF Alphabet
    <3> HIDE DEF letters
    <3>2. Sequence(Successors(w, letters)) /\ Range(Successors(w, letters)) \subseteq Word
          /\ Range(Successors(w, letters)) = {Append(w, a) : a \in 0..(t.alphabet_size - 1)}
      BY <1>0, <3>1, SuccessorsFacts DEF Alphabet
    <3> QED BY <3>2 DEF letters
  <2>6. Sequence(new) /\ Range(new) = Range(all) \cap kept
    <3> HIDE DEF all, kept
    <3> QED BY <2>5, KeptFacts
  <2> HIDE DEF all, new
  <2>7. /\ Changed(t, s, {"upper_table", "lower_table"}) /\ s.upper_table = upper
        /\ s.lower_table = rest \o RowsFor(new, 0, 0)
    BY <1>0, <2>1 DEF Changed, Members
  <2> HIDE DEF s
  <2>8. /\ TableFine(s, k) /\ s.upper_table # <<>>
        /\ Words(s.upper_table) = Words(t.upper_table) \cup {w}
        /\ Words(t.lower_table) \cup Range(new) \subseteq Words(s.lower_table) \cup {w}
    <3>1. MovedUp(k, t, s, w, row, rest, new, 0, 0)
      BY <1>2, <2>3, <2>4, <2>5, <2>6, <2>7 DEF MovedUp
    <3> HIDE DEF kept, upper
    <3> QED BY <3>1, MovedUpIsFine
  <2>9. \A a \in 0..(t.alphabet_size - 1) : InTables(s, Append(w, a))
    <3> SUFFICES ASSUME NEW a \in 0..(t.alphabet_size - 1) PROVE InTables(s, Append(w, a))
      OBVIOUS
    <3>1. Append(w, a) \in Range(all)
      BY <2>5
    <3>2. Append(w, a) \in Words(s.upper_table) \cup Range(new)
      BY <2>6, <2>7, <3>1
    <3> QED BY <2>8, <3>2 DEF InTables
  <2> QED BY <2>7, <2>8, <2>9 DEF Raised, s
<1> QED BY <1>1, <1>2

\* initialize_table of NL*.
LEMMA NLInitializeIsFine ==
    ASSUME NEW k, NEW t, TableFine(t, k), ~t.initialized, t.type = "nl"
    PROVE  LET s == nl_initialize_table(t)
           IN  /\ TableFine(s, k) /\ s.initialized
               /\ Changed(t, s, {"upper_table", "lower_table", "initialized", "column_names"})
               /\ Raised(t, s, <<>>)
<1> DEFINE s == nl_initialize_table(t)
           m == nl_add_word_to_upper_table(t, <<>>)
<1>1. TableFine(m, k) /\ Raised(t, m, <<>>) /\ Changed(t, m, {"upper_table", "lower_table"})
  BY NLAddWordIsFine, EmptyWord
<1>2. s = [m EXCEPT !.column_names = <<<<>>>>, !.initialized = TRUE]
  BY DEF nl_initialize_table
<1> HIDE DEF m, s
<1>3. Members \subseteq DOMAIN m /\ ~m.initialized /\ m.type = "nl" /\ m.alphabet_size = t.alphabet_size
  BY <1>1 DEF TableFine, HeadFine, Changed, Members
<1>4. /\ s.type = m.type /\ s.alphabet_size = m.alphabet_size /\ s.initialized
      /\ s.upper_table = m.upper_table /\ s.lower_table = m.lower_table
      /\ s.column_names = <<<<>>>> /\ DOMAIN s = DOMAIN m
  BY <1>2, <1>3 DEF Members
<1>5. HeadFine(s)
  BY <1>1, <1>3, <1>4 DEF TableFine, HeadFine
<1>6. ColumnsFine(s)
  <2>1. <<<<>>>> \in Seq(Word) /\ IsInjective(<<<<>>>>)
    <3>1. <<<<>>>> \in Seq(Word)
      BY EmptyWord
    <3>2. \A i, j \in DOMAIN <<<<>>>> : i = j
      OBVIOUS
    <3> QED BY <3>1, <3>2 DEF IsInjective
  <2>2. s.column_timestamps = <<>>
    <3>1. s.column_timestamps = m.column_timestamps
      BY <1>2, <1>3 DEF Members
    <3> QED BY <1>1, <1>3, <3>1 DEF TableFine, ColumnsFine
  <2> QED BY <1>3, <1>4, <2>1, <2>2 DEF ColumnsFine
<1>7. StartFine(s)
  BY <1>1, <1>4 DEF Raised, StartFine
<1>8. \A r : RowFine(r, m.column_names, k) /\ r.acceptance = <<>> => RowFine(r, s.column_names, k)
  <2>1. Len(<<>>) = 0 /\ 1..0 = {} /\ Len(s.column_names) = 1
    BY <1>4
  <2> QED BY <2>1 DEF RowFine
<1>9. \A r \in Range(m.upper_table) \cup Range(m.lower_table) : r.acceptance = <<>>
  BY <1>1, <1>3 DEF TableFine, StartFine
<1>10. RowsFine(s.upper_table, s.column_names, k) /\ RowsFine(s.lower_table, s.column_names, k)
  BY <1>1, <1>4, <1>8, <1>9 DEF TableFine, RowsFine
<1>11. TableFine(s, k)
  BY <1>1, <1>4, <1>5, <1>6, <1>7, <1>10 DEF TableFine
<1>12. Raised(t, s, <<>>)
  BY <1>1, <1>4 DEF Raised, InTables
<1>13. Changed(t, s, {"upper_table", "lower_table", "initialized", "column_names"})
  BY <1>1, <1>2 DEF Changed
<1> QED BY <1>4, <1>11, <1>12, <1>13 DEF s

(***************************************************************************)
(* Only the first row gets its new successors.                             *)
(***************************************************************************)
LEMMA NLIncreaseIsFine ==
    ASSUME NEW k, NEW t, TableFine(t, k), NEW asize, Alphabet(asize)
    PROVE  LET s == nl_increase_alphabet_size(t, asize)
           IN  /\ TableFine(s, k) /\ Extended(t, s, {})
               /\ s.alphabet_size = t.alphabet_size \/ asize > t.alphabet_size
               /\ asize <= t.alphabet_size => s = t
<1> DEFINE s == nl_increase_alphabet_size(t, asize)
<1>0. /\ Members \subseteq DOMAIN t /\ asize \in Nat /\ t.alphabet_size \in Nat
      /\ Sequence(t.upper_table) /\ RowsFine(t.upper_table, t.column_names, k)
  BY DEF TableFine, HeadFine, RowsFine, Alphabet
<1>1. CASE asize <= t.alphabet_size \/ t.upper_table = <<>>
  <2>1. s = t
    BY <1>1 DEF nl_increase_alphabet_size
  <2> QED BY <2>1 DEF Extended, Changed
<1>2. CASE ~(asize <= t.alphabet_size \/ t.upper_table = <<>>)
  <2> DEFINE letters == Letters(t.alphabet_size, asize)
             new == Successors(t.upper_table[1].index, letters)
  <2>1. s = [t EXCEPT !.alphabet_size = asize, !.lower_table = t.lower_table \o RowsFor(new, 0, 0)]
    BY <1>2 DEF nl_increase_alphabet_size, RowsFor
  <2>2. Sequence(letters) /\ Range(letters) = t.alphabet_size..(asize - 1)
    BY <1>0, <1>2, LettersFacts
  <2>3. Range(letters) \subseteq Symbols
    <3>1. t.alphabet_size..(asize - 1) \subseteq 0..(asize - 1)
      BY <1>0
    <3> QED BY <2>2, <3>1 DEF Alphabet
  <2>4. t.upper_table[1].index \in Word
    <3>1. 1 \in 1..Len(t.upper_table)
      BY <1>0, <1>2, SequenceFacts
    <3>2. t.upper_table[1] \in Range(t.upper_table)
      BY <1>0, <3>1, SequenceFacts
    <3> QED BY <1>0, <3>2 DEF RowsFine, RowFine
  <2> HIDE DEF letters
  <2>5. Sequence(new) /\ Range(new) \subseteq Word
    BY <2>2, <2>3, <2>4, SuccessorsFacts
  <2> HIDE DEF new, s
  <2>6. Enlarged(t, s, asize, new, 0, 0)
    BY <1>0, <1>2, <2>1, <2>5 DEF Enlarged, Changed, Members
  <2>7. TableFine(s, k) /\ Words(s.lower_table) = Words(t.lower_table) \cup Range(new)
    BY <2>6, EnlargedIsFine
  <2>8. Changed(t, s, {"alphabet_size", "lower_table"}) /\ asize > t.alphabet_size
    BY <1>0, <1>2, <2>6 DEF Enlarged
  <2> QED BY <1>2, <2>7, <2>8 DEF Extended, s
<1> QED BY <1>1, <1>2

-----------------------------------------------------------------------------
(* Prime rows. *)

(***************************************************************************)
(* A cell holds an answer.                                                 *)
(***************************************************************************)
LEMMA CellsAreAnswers ==
    ASSUME NEW k, AsksWords(k), NEW columns, NEW r, RowFine(r, columns, k)
    PROVE  \A c \in 1..Len(r.acceptance) : r.acceptance[c] \in Answers
<1> SUFFICES ASSUME NEW c \in 1..Len(r.acceptance) PROVE r.acceptance[c] \in Answers
  OBVIOUS
<1> DEFINE w == r.index \o columns[c]
<1>1. Resolvable(k, w) /\ resolve_query(k, w) = r.acceptance[c]
  BY DEF RowFine
<1> HIDE DEF w
<1>2. resolve_query(k, w) \in Answers
  BY <1>1, FilterAssumption DEF Resolvable, resolve_query, AsksWords
<1> QED BY <1>1, <1>2

\* A row with n cells, each "yes" or "no", and the columns in which it has a "yes".
YesNo(r, n) == /\ r.acceptance = [c \in 1..n |-> r.acceptance[c]]
               /\ \A c \in 1..n : r.acceptance[c] \in {"yes", "no"}
YesOf(r, n) == {c \in 1..n : r.acceptance[c] = "yes"}

\* In a table that only asks for words, cells say yes or no.
LEMMA YesNoRow ==
    ASSUME NEW k, AsksWords(k), NEW columns, NEW r, RowFine(r, columns, k), Answers \subseteq {"yes", "no"}
    PROVE  YesNo(r, Len(r.acceptance))
<1>1. r.acceptance = [c \in 1..Len(r.acceptance) |-> r.acceptance[c]]
  BY SequenceFacts DEF RowFine
<1>2. \A c \in 1..Len(r.acceptance) : r.acceptance[c] \in Answers
  BY CellsAreAnswers
<1> QED BY <1>1, <1>2 DEF YesNo

(***************************************************************************)
(* Such rows are the same if they say "yes" in the same columns; one       *)
(* covers another if it says "yes" wherever the other does; and a row is   *)
(* composed of rows if each "yes" of it is one of a row that it covers.    *)
(***************************************************************************)
LEMMA YesNoFacts ==
    ASSUME NEW n \in Nat
    PROVE  /\ \A r, s : YesNo(r, n) /\ YesNo(s, n) /\ YesOf(r, n) = YesOf(s, n) => r.acceptance = s.acceptance
           /\ \A r, s : YesNo(r, n) => (covers(r, s) <=> YesOf(s, n) \subseteq YesOf(r, n))
<1>1. ASSUME NEW r, NEW s, YesNo(r, n), YesNo(s, n), YesOf(r, n) = YesOf(s, n)
      PROVE  r.acceptance = s.acceptance
  <2>1. \A c \in 1..n : r.acceptance[c] = s.acceptance[c]
    BY <1>1 DEF YesNo, YesOf
  <2> QED BY <1>1, <2>1, Zenon DEF YesNo
<1>2. ASSUME NEW r, NEW s, YesNo(r, n)
      PROVE  covers(r, s) <=> YesOf(s, n) \subseteq YesOf(r, n)
  <2>1. DOMAIN r.acceptance = 1..n
    BY <1>2 DEF YesNo
  <2> QED BY <2>1 DEF covers, YesOf
<1> QED BY <1>1, <1>2

\* When a row is the join of others: it covers one of them, and they make up all its yes.
LEMMA ComposedFacts ==
    ASSUME NEW n \in Nat, NEW row, YesNo(row, n), NEW rows
    PROVE  Composed(row, rows) <=>
               /\ \E r \in rows : covers(row, r)
               /\ \A c \in YesOf(row, n) : \E r \in rows : covers(row, r) /\ r.acceptance[c] = "yes"
<1> DEFINE below == {r \in rows : covers(row, r)}
           joined == [c \in 1..n |-> IF \E r \in below : r.acceptance[c] = "yes" THEN "yes" ELSE "no"]
<1>1. Len(row.acceptance) = n /\ DOMAIN row.acceptance = 1..n
  BY FunctionToSequence DEF YesNo
<1>2. Composed(row, rows) <=> below # {} /\ joined = row.acceptance
  BY <1>1 DEF Composed, Joined
<1>3. joined = row.acceptance <=> \A c \in 1..n : joined[c] = row.acceptance[c]
  <2>1. joined = [c \in 1..n |-> joined[c]]
    OBVIOUS
  <2> HIDE DEF joined
  <2> QED BY <2>1, Zenon DEF YesNo
<1>4. ASSUME NEW c \in 1..n
      PROVE  joined[c] = row.acceptance[c] <=>
                (row.acceptance[c] = "yes" => \E r \in rows : covers(row, r) /\ r.acceptance[c] = "yes")
  <2>1. row.acceptance[c] \in {"yes", "no"}
    BY DEF YesNo
  <2>2. \A r \in below : r.acceptance[c] = "yes" => row.acceptance[c] = "yes"
    BY <1>1 DEF covers
  <2>3. joined[c] = IF \E r \in below : r.acceptance[c] = "yes" THEN "yes" ELSE "no"
    OBVIOUS
  <2> HIDE DEF joined
  <2>4. CASE row.acceptance[c] = "yes"
    BY <2>3, <2>4
  <2>5. CASE row.acceptance[c] = "no"
    BY <2>2, <2>3, <2>5
  <2> QED BY <2>1, <2>4, <2>5
<1> HIDE DEF joined
<1>5. joined = row.acceptance <=>
        \A c \in YesOf(row, n) : \E r \in rows : covers(row, r) /\ r.acceptance[c] = "yes"
  BY <1>3, <1>4 DEF YesOf
<1> QED BY <1>2, <1>5

(***************************************************************************)
(* A row has only so many "yes".                                           *)
(***************************************************************************)
LEMMA FewerYes ==
    ASSUME NEW n \in Nat
    PROVE  /\ \A r : Cardinality(YesOf(r, n)) \in Nat
           /\ \A r, s : YesOf(s, n) \subseteq YesOf(r, n) /\ YesOf(s, n) # YesOf(r, n) =>
                 Cardinality(YesOf(s, n)) < Cardinality(YesOf(r, n))
<1>1. \A r : IsFiniteSet(YesOf(r, n))
  <2>1. IsFiniteSet(1..n)
    BY FS_Interval
  <2>2. \A r : YesOf(r, n) \in SUBSET (1..n)
    BY DEF YesOf
  <2> QED BY <2>1, <2>2, FS_Subset
<1>2. \A r : Cardinality(YesOf(r, n)) \in Nat
  BY <1>1, FS_CardinalityType
<1>3. ASSUME NEW r, NEW s, YesOf(s, n) \subseteq YesOf(r, n), YesOf(s, n) # YesOf(r, n)
      PROVE  Cardinality(YesOf(s, n)) < Cardinality(YesOf(r, n))
  <2>1. YesOf(s, n) \in SUBSET YesOf(r, n) /\ IsFiniteSet(YesOf(r, n))
    BY <1>1, <1>3
  <2>2. /\ Cardinality(YesOf(s, n)) <= Cardinality(YesOf(r, n))
        /\ Cardinality(YesOf(r, n)) = Cardinality(YesOf(s, n)) => YesOf(r, n) = YesOf(s, n)
    BY <2>1, FS_Subset
  <2>3. Cardinality(YesOf(s, n)) \in Nat /\ Cardinality(YesOf(r, n)) \in Nat
    BY <1>2
  <2> QED BY <1>3, <2>2, <2>3
<1> QED BY <1>2, <1>3

\* A row of S that has the fewest "yes" of all.
Fewest(r, S, n) == r \in S /\ \A s \in S : Cardinality(YesOf(r, n)) <= Cardinality(YesOf(s, n))

\* Of some rows, one has the fewest yes.
LEMMA SomeFewest ==
    ASSUME NEW n \in Nat, NEW S, S # {}
    PROVE  \E r \in S : Fewest(r, S, n)
<1> DEFINE C == {Cardinality(YesOf(r, n)) : r \in S}
<1>1. C \in SUBSET Nat /\ C # {}
  BY FewerYes
<1>2. Min(C) \in C /\ \A j \in C : Min(C) <= j
  <2> HIDE DEF C
  <2> QED BY <1>1, SmallestOf
<1>3. PICK r \in S : Min(C) = Cardinality(YesOf(r, n))
  BY <1>2
<1>4. \A s \in S : Cardinality(YesOf(s, n)) \in C
  OBVIOUS
<1> HIDE DEF C
<1> QED BY <1>2, <1>3, <1>4 DEF Fewest

\* The rows that differ from row.
Others(rows, row) == {r \in rows : r.acceptance # row.acceptance}

(***************************************************************************)
(* Every row is composed of the prime ones.                                *)
(***************************************************************************)
LEMMA PrimesSuffice ==
    ASSUME NEW n \in Nat, NEW rows, \A r \in rows : YesNo(r, n), NEW primes, primes \subseteq rows,
           \A r \in rows : Composed(r, Others(rows, r)) \/ \E p \in primes : p.acceptance = r.acceptance
    PROVE  \A r \in rows : Composed(r, primes)
<1> DEFINE Bad == {r \in rows : ~Composed(r, primes)}
<1> SUFFICES ASSUME Bad # {} PROVE FALSE
  OBVIOUS
<1>1. PICK r \in Bad : Fewest(r, Bad, n)
  <2> HIDE DEF Bad
  <2> QED BY SomeFewest
<1>2. r \in rows /\ YesNo(r, n)
  OBVIOUS
<1>3. CASE \E p \in primes : p.acceptance = r.acceptance
  <2>1. PICK p \in primes : p.acceptance = r.acceptance
    BY <1>3
  <2>2. YesOf(p, n) = YesOf(r, n) /\ \A c \in YesOf(r, n) : p.acceptance[c] = "yes"
    BY <2>1 DEF YesOf
  <2>3. covers(r, p)
    BY <1>2, <2>2, YesNoFacts
  <2> QED BY <1>2, <2>1, <2>2, <2>3, ComposedFacts
<1>4. CASE Composed(r, Others(rows, r))
  <2>1. /\ \E s \in Others(rows, r) : covers(r, s)
        /\ \A c \in YesOf(r, n) : \E s \in Others(rows, r) : covers(r, s) /\ s.acceptance[c] = "yes"
    BY <1>2, <1>4, ComposedFacts
  <2>2. ASSUME NEW s \in Others(rows, r), covers(r, s)
        PROVE  /\ \E p \in primes : covers(r, p)
               /\ \A c \in YesOf(s, n) : \E p \in primes : covers(r, p) /\ p.acceptance[c] = "yes"
    <3>1. s \in rows /\ YesNo(s, n) /\ s.acceptance # r.acceptance
      BY DEF Others
    <3>2. YesOf(s, n) \subseteq YesOf(r, n) /\ YesOf(s, n) # YesOf(r, n)
      BY <1>2, <2>2, <3>1, YesNoFacts
    <3>3. s \notin Bad
      <4>1. Cardinality(YesOf(s, n)) < Cardinality(YesOf(r, n))
            /\ Cardinality(YesOf(s, n)) \in Nat /\ Cardinality(YesOf(r, n)) \in Nat
        BY <3>2, FewerYes
      <4> HIDE DEF Bad
      <4> QED BY <1>1, <4>1 DEF Fewest
    <3>4. Composed(s, primes)
      BY <3>1, <3>3
    <3>5. /\ \E p \in primes : covers(s, p)
          /\ \A c \in YesOf(s, n) : \E p \in primes : covers(s, p) /\ p.acceptance[c] = "yes"
      BY <3>1, <3>4, ComposedFacts
    <3>6. \A p : covers(s, p) => covers(r, p)
      BY <1>2, <3>1, <3>2, YesNoFacts
    <3> QED BY <3>5, <3>6
  <2>3. \A c \in YesOf(r, n) : \E p \in primes : covers(r, p) /\ p.acceptance[c] = "yes"
    <3> SUFFICES ASSUME NEW c \in YesOf(r, n) PROVE \E p \in primes : covers(r, p) /\ p.acceptance[c] = "yes"
      OBVIOUS
    <3>1. PICK s \in Others(rows, r) : covers(r, s) /\ s.acceptance[c] = "yes"
      BY <2>1
    <3>2. c \in YesOf(s, n)
      BY <3>1 DEF YesOf
    <3> QED BY <2>2, <3>1, <3>2
  <2>4. \E p \in primes : covers(r, p)
    BY <2>1, <2>2
  <2>5. Composed(r, primes)
    BY <1>2, <2>3, <2>4, ComposedFacts
  <2> QED BY <2>5
<1> QED BY <1>2, <1>3, <1>4

(***************************************************************************)
(* There is a prime row.                                                   *)
(***************************************************************************)
LEMMA SomePrime ==
    ASSUME NEW n \in Nat, NEW rows, \A r \in rows : YesNo(r, n), rows # {}
    PROVE  \E r \in rows : ~Composed(r, Others(rows, r))
<1>1. PICK r \in rows : Fewest(r, rows, n)
  BY SomeFewest
<1>2. ~Composed(r, Others(rows, r))
  <2> SUFFICES ASSUME NEW s \in Others(rows, r), covers(r, s) PROVE FALSE
    BY ComposedFacts
  <2>1. s \in rows /\ YesNo(s, n) /\ s.acceptance # r.acceptance
    BY DEF Others
  <2>2. YesOf(s, n) \subseteq YesOf(r, n) /\ YesOf(s, n) # YesOf(r, n)
    BY <2>1, YesNoFacts
  <2>3. Cardinality(YesOf(s, n)) < Cardinality(YesOf(r, n))
        /\ Cardinality(YesOf(s, n)) \in Nat /\ Cardinality(YesOf(r, n)) \in Nat
    BY <2>2, FewerYes
  <2> QED BY <1>1, <2>1, <2>3 DEF Fewest
<1> QED BY <1>2

(***************************************************************************)
(* The rows of a full table of NL*, and its upper primes.                  *)
(***************************************************************************)
LEMMA NLRows ==
    ASSUME NEW k, AsksWords(k), NEW t, TableFine(t, k), t.type = "nl", FullTable(t)
    PROVE  /\ Len(t.column_names) \in Nat
           /\ \A r \in AllRows(t) : YesNo(r, Len(t.column_names))
           /\ Sequence(UpperPrimes(t))
           /\ Range(UpperPrimes(t)) = {r \in Range(t.upper_table) : row_is_prime(t, r)}
           /\ \A r : row_is_prime(t, r) <=> ~Composed(r, Others(AllRows(t), r))
<1>1. /\ RowsFine(t.upper_table, t.column_names, k) /\ RowsFine(t.lower_table, t.column_names, k)
      /\ Answers \subseteq {"yes", "no"} /\ Sequence(t.upper_table)
      /\ Len(t.column_names) \in Nat
  BY SequenceOf, SequenceFacts DEF TableFine, ColumnsFine, HeadFine, RowsFine
<1>2. \A r \in AllRows(t) : RowFine(r, t.column_names, k) /\ Len(r.acceptance) = Len(t.column_names)
  BY <1>1 DEF AllRows, RowsFine, FullTable, Full
<1>3. \A r \in AllRows(t) : YesNo(r, Len(t.column_names))
  BY <1>1, <1>2, YesNoRow
<1>4. Sequence(UpperPrimes(t)) /\ Range(UpperPrimes(t)) = {r \in Range(t.upper_table) : row_is_prime(t, r)}
  <2> DEFINE S == {r \in Range(t.upper_table) : row_is_prime(t, r)}
  <2>1. UpperPrimes(t) = OnlyIn(t.upper_table, S)
    BY DEF UpperPrimes
  <2>2. S \subseteq Range(t.upper_table)
    OBVIOUS
  <2> HIDE DEF S
  <2>3. Sequence(UpperPrimes(t)) /\ Range(UpperPrimes(t)) = S
    <3>1. Sequence(OnlyIn(t.upper_table, S)) /\ Range(OnlyIn(t.upper_table, S)) = Range(t.upper_table) \cap S
      BY <1>1, KeptFacts
    <3> QED BY <2>1, <2>2, <3>1
  <2> QED BY <2>3 DEF S
<1>5. \A r : row_is_prime(t, r) <=> ~Composed(r, Others(AllRows(t), r))
  BY DEF row_is_prime, Others
<1> QED BY <1>1, <1>3, <1>4, <1>5

(***************************************************************************)
(* A closed table has an upper prime, so a conjecture has a state.         *)
(***************************************************************************)
LEMMA ClosedHasPrimes ==
    ASSUME NEW k, AsksWords(k), NEW t, TableFine(t, k), t.type = "nl", FullTable(t),
           is_closed(t), t.upper_table # <<>>
    PROVE  UpperPrimes(t) # <<>>
<1> DEFINE n == Len(t.column_names)
<1>1. /\ n \in Nat /\ \A r \in AllRows(t) : YesNo(r, n)
      /\ Sequence(UpperPrimes(t))
      /\ Range(UpperPrimes(t)) = {r \in Range(t.upper_table) : row_is_prime(t, r)}
      /\ \A r : row_is_prime(t, r) <=> ~Composed(r, Others(AllRows(t), r))
  BY NLRows
<1> HIDE DEF n
<1>2. AllRows(t) # {}
  <2>1. Sequence(t.upper_table)
    BY DEF TableFine, RowsFine
  <2>2. Range(t.upper_table) # {}
    BY <2>1, SequenceFacts
  <2> QED BY <2>2 DEF AllRows
<1>3. PICK r \in AllRows(t) : row_is_prime(t, r)
  BY <1>1, <1>2, SomePrime
<1>4. Range(UpperPrimes(t)) # {}
  <2>1. CASE r \in Range(t.upper_table)
    BY <1>1, <1>3, <2>1
  <2>2. CASE r \in Range(t.lower_table)
    <3>1. Composed(r, Range(UpperPrimes(t)))
      BY <2>2 DEF is_closed
    <3>2. \E p \in Range(UpperPrimes(t)) : covers(r, p)
      BY <1>1, <1>3, <3>1, ComposedFacts
    <3> QED BY <3>2
  <2> QED BY <1>3, <2>1, <2>2 DEF AllRows
<1> QED BY <1>1, <1>4, SequenceFacts

\* The place of the row that nl_close moves up, or 0.
PrimeBelow(t) ==
    SelectInSeq(t.lower_table, LAMBDA r : /\ row_is_prime(t, r)
                                          /\ r.acceptance \notin Patterns(UpperPrimes(t)))

(***************************************************************************)
(* A table that is not closed has a lower prime that is missing above.     *)
(***************************************************************************)
LEMMA PrimeBelowFound ==
    ASSUME NEW k, AsksWords(k), NEW t, TableFine(t, k), t.type = "nl", FullTable(t), ~is_closed(t)
    PROVE  PrimeBelow(t) \in 1..Len(t.lower_table)
<1> DEFINE n == Len(t.column_names)
           primes == UpperPrimes(t)
<1>1. /\ n \in Nat /\ \A r \in AllRows(t) : YesNo(r, n)
      /\ Sequence(primes)
      /\ Range(primes) = {r \in Range(t.upper_table) : row_is_prime(t, r)}
      /\ \A r : row_is_prime(t, r) <=> ~Composed(r, Others(AllRows(t), r))
  BY NLRows
<1> HIDE DEF n
<1>2. Sequence(t.lower_table)
  BY DEF TableFine, RowsFine
<1> DEFINE I == {i \in 1..Len(t.lower_table) :
                    /\ row_is_prime(t, t.lower_table[i])
                    /\ t.lower_table[i].acceptance \notin Patterns(primes)}
<1>3. PrimeBelow(t) = IF I # {} THEN Min(I) ELSE 0
  BY DEF PrimeBelow, SelectInSeq
<1> HIDE DEF primes
<1>4. I # {}
  <2> SUFFICES ASSUME I = {} PROVE FALSE
    OBVIOUS
  <2>1. \A r \in Range(t.lower_table) : row_is_prime(t, r) => r.acceptance \in Patterns(primes)
    BY <1>2, SequenceFacts
  <2>2. Patterns(primes) = {p.acceptance : p \in Range(primes)}
    BY DEF Patterns, Range
  <2>3. \A r \in AllRows(t) : Composed(r, Others(AllRows(t), r))
                              \/ \E p \in Range(primes) : p.acceptance = r.acceptance
    <3> SUFFICES ASSUME NEW r \in AllRows(t), row_is_prime(t, r)
                 PROVE  \E p \in Range(primes) : p.acceptance = r.acceptance
      BY <1>1
    <3> QED BY <1>1, <2>1, <2>2 DEF AllRows
  <2>4. Range(primes) \subseteq AllRows(t)
    BY <1>1 DEF AllRows
  <2>5. \A r \in AllRows(t) : Composed(r, Range(primes))
    BY <1>1, <2>3, <2>4, PrimesSuffice
  <2> QED BY <2>5 DEF is_closed, AllRows, primes
<1>5. Min(I) \in I
  <2>1. I \in SUBSET Nat
    OBVIOUS
  <2> HIDE DEF I
  <2> QED BY <1>4, <2>1, SmallestOf
<1> QED BY <1>3, <1>4, <1>5

(***************************************************************************)
(* NL*'s close moves up the row of a word.                                 *)
(***************************************************************************)
LEMMA NLCloseIsFine ==
    ASSUME NEW k, AsksWords(k), NEW t, TableFine(t, k), t.type = "nl", FullTable(t), ~is_closed(t)
    PROVE  LET s == nl_close(t)
           IN  /\ TableFine(s, k) /\ (\E w : Raised(t, s, w))
               /\ Changed(t, s, {"upper_table", "lower_table"})
<1> DEFINE w == t.lower_table[PrimeBelow(t)].index
<1>1. nl_close(t) = nl_add_word_to_upper_table(t, w)
  BY DEF nl_close, PrimeBelow
<1>2. Sequence(t.lower_table) /\ RowsFine(t.lower_table, t.column_names, k)
  BY DEF TableFine, RowsFine
<1>3. t.lower_table[PrimeBelow(t)] \in Range(t.lower_table)
  BY <1>2, PrimeBelowFound, SequenceFacts
<1>4. w \in Word
  BY <1>2, <1>3 DEF RowsFine, RowFine
<1> HIDE DEF w
<1>5. LET s == nl_add_word_to_upper_table(t, w)
      IN  TableFine(s, k) /\ Raised(t, s, w) /\ Changed(t, s, {"upper_table", "lower_table"})
  BY <1>4, NLAddWordIsFine
<1> QED BY <1>1, <1>5

-----------------------------------------------------------------------------
(* What a call of complete() leaves. *)

\* The successors of all upper rows are there.
HasSuccessors(t) ==
    \A w \in Words(t.upper_table), a \in 0..(t.alphabet_size - 1) : InTables(t, Append(w, a))

\* s has the alphabet of t and misses no successor if t does not.
Grown(t, s) ==
    /\ s.type = t.type /\ s.alphabet_size = t.alphabet_size
    /\ HasSuccessors(t) => HasSuccessors(s)

(***************************************************************************)
(* Methods that do not touch the alphabet lose no successor.               *)
(***************************************************************************)
LEMMA GrownFacts ==
    /\ \A t : Grown(t, t)
    /\ \A t, s, u : Grown(t, s) /\ Grown(s, u) => Grown(t, u)
BY DEF Grown

\* A row moved up brings its successors with it.
LEMMA RaisedIsGrown ==
    ASSUME NEW t, NEW s, NEW w, Raised(t, s, w), s.type = t.type, s.alphabet_size = t.alphabet_size
    PROVE  Grown(t, s)
BY DEF Raised, Grown, HasSuccessors, InTables

\* Filling cells takes no row away.
LEMMA SameWordsIsGrown ==
    ASSUME NEW t, NEW s, Sequence(t.upper_table), Sequence(t.lower_table),
           Sequence(s.upper_table), Sequence(s.lower_table),
           SameWords(t.upper_table, s.upper_table), SameWords(t.lower_table, s.lower_table),
           s.type = t.type, s.alphabet_size = t.alphabet_size
    PROVE  Grown(t, s)
<1>1. Words(s.upper_table) = Words(t.upper_table) /\ Words(s.lower_table) = Words(t.lower_table)
  BY SameWordsSameSet
<1> QED BY <1>1 DEF Grown, HasSuccessors, InTables

\* What leaves the rows alone takes none away.
LEMMA SameRowsIsGrown ==
    ASSUME NEW t, NEW s, s.upper_table = t.upper_table, s.lower_table = t.lower_table,
           s.type = t.type, s.alphabet_size = t.alphabet_size
    PROVE  Grown(t, s)
BY DEF Grown, HasSuccessors, InTables

(***************************************************************************)
(* A table does not mind what else the knowledgebase learns, or changes in *)
(* other members.                                                          *)
(***************************************************************************)
LEMMA TableLearns ==
    ASSUME NEW k, NEW l, Knows(k, l), NEW t, TableFine(t, k)
    PROVE  TableFine(t, l)
BY RowsStayFine DEF TableFine

\* The search for a suffix has members of its own and leaves the table's alone.
LEMMA SearchIsFine ==
    ASSUME NEW k, NEW t, TableFine(t, k), NEW s, HeadFine(s), Changed(t, s, SearchMembers)
    PROVE  TableFine(s, k) /\ Grown(t, s)
<1>1. \A x \in Members : s[x] = t[x]
  BY DEF TableFine, HeadFine, Changed, Members, SearchMembers
<1>2. /\ s.type = t.type /\ s.alphabet_size = t.alphabet_size /\ s.initialized = t.initialized
      /\ s.column_names = t.column_names /\ s.column_timestamps = t.column_timestamps
      /\ s.upper_table = t.upper_table /\ s.lower_table = t.lower_table
  BY <1>1 DEF Members
<1>3. TableFine(s, k)
  BY <1>2 DEF TableFine, ColumnsFine, StartFine
<1> QED BY <1>2, <1>3, SameRowsIsGrown

\* There is a row for a state.
HasStates(t) == t.upper_table # <<>> /\ (t.type = "nl" => UpperPrimes(t) # <<>>)

ResultFine(t, r) ==
    /\ KnowledgeFine(r.kb) /\ TableFine(r.alg, r.kb) /\ (r.alg.type = "nl" => AsksWords(r.kb))
    /\ Grown(t, r.alg)
    /\ r.ready \in BOOLEAN /\ r.again \in BOOLEAN /\ ~(r.ready /\ r.again)
    /\ r.ready => HasStates(r.alg)

(***************************************************************************)
(* What complete() does first.                                             *)
(***************************************************************************)
\* f is t with its cells filled.
FilledFine(t, f) ==
    /\ KnowledgeFine(f.kb) /\ TableFine(f.alg, f.kb) /\ (f.alg.type = "nl" => AsksWords(f.kb))
    /\ Grown(t, f.alg)
    /\ f.alg.initialized /\ f.alg.upper_table # <<>>
    /\ f.ready \in BOOLEAN /\ f.again = FALSE
    /\ f.ready => FullTable(f.alg)

\* What complete() has at hand after fill_missing_columns.
LEMMA FillTablesFilled ==
    ASSUME NEW k, KnowledgeFine(k), NEW t, TableFine(t, k), t.type = "nl" => AsksWords(k), t.initialized
    PROVE  FilledFine(t, FillTables(t, k))
<1> DEFINE f == FillTables(t, k)
<1>1. /\ KnowledgeFine(f.kb) /\ TableFine(f.alg, f.kb)
      /\ AsksWords(k) => AsksWords(f.kb)
      /\ f.ready \in BOOLEAN /\ f.again = FALSE
      /\ Changed(t, f.alg, {"upper_table", "lower_table"})
      /\ SameWords(t.upper_table, f.alg.upper_table)
      /\ SameWords(t.lower_table, f.alg.lower_table)
      /\ f.ready => FullTable(f.alg)
  BY FillTablesIsFine
<1> HIDE DEF f
<1>2. /\ f.alg.type = t.type /\ f.alg.alphabet_size = t.alphabet_size
      /\ f.alg.initialized = t.initialized
  BY <1>1 DEF TableFine, HeadFine, Changed, Members
<1>3. /\ Sequence(t.upper_table) /\ Sequence(t.lower_table)
      /\ Sequence(f.alg.upper_table) /\ Sequence(f.alg.lower_table)
  BY <1>1 DEF TableFine, RowsFine
<1>4. Grown(t, f.alg)
  BY <1>1, <1>2, <1>3, SameWordsIsGrown
<1>5. f.alg.upper_table # <<>>
  BY <1>1, <1>2 DEF TableFine, StartFine
<1> QED BY <1>1, <1>2, <1>4, <1>5 DEF FilledFine, f

(***************************************************************************)
(* complete() of Angluin's tables.                                         *)
(***************************************************************************)
LEMMA CompleteIsFine ==
    ASSUME NEW k, KnowledgeFine(k), NEW t, TableFine(t, k), t.type \in {"simple", "col"}
    PROVE  ResultFine(t, complete(t, k))
<1> DEFINE s == IF t.initialized THEN t ELSE initialize_table(t, k.timestamp)
           f == FillTables(s, k)
<1>1. TableFine(s, k) /\ s.initialized /\ Grown(t, s)
  <2>1. CASE t.initialized
    BY <2>1, GrownFacts
  <2>2. CASE ~t.initialized
    <3> DEFINE i == initialize_table(t, k.timestamp)
    <3>1. /\ TableFine(i, k) /\ i.initialized
          /\ Changed(t, i, {"upper_table", "lower_table", "initialized", "column_names",
                            "column_timestamps"})
          /\ Raised(t, i, <<>>)
      BY <2>2, InitializeIsFine
    <3> HIDE DEF i
    <3>2. i.type = t.type /\ i.alphabet_size = t.alphabet_size
      BY <3>1 DEF TableFine, HeadFine, Changed, Members
    <3>3. Grown(t, i)
      BY <3>1, <3>2, RaisedIsGrown
    <3> QED BY <2>2, <3>1, <3>3 DEF i
  <2> QED BY <2>1, <2>2 DEF TableFine, HeadFine
<1>2. s.type = t.type
  BY <1>1 DEF Grown
<1> HIDE DEF s
<1>3. FilledFine(s, f)
  BY <1>1, <1>2, FillTablesFilled
<1>4. complete(t, k) = CASE ~f.ready -> f
                         [] f.ready /\ Unmatched(f.alg) > 0 ->
                               Again(close(f.alg, f.kb.timestamp), f.kb)
                         [] f.ready /\ Unmatched(f.alg) = 0 ->
                               IF f.alg.type = "simple" /\ Conflicts(f.alg) # {}
                               THEN Again(make_consistent(f.alg, f.kb.timestamp), f.kb)
                               ELSE f
  BY DEF complete, s
<1> HIDE DEF f
<1>5. Grown(t, f.alg) /\ f.alg.type = t.type
  BY <1>1, <1>3, GrownFacts DEF FilledFine, Grown
<1>6. ResultFine(t, f)
  BY <1>2, <1>3, <1>5 DEF FilledFine, ResultFine, HasStates
<1>7. Unmatched(f.alg) \in Nat
  BY <1>3, UnmatchedFacts DEF FilledFine, TableFine, RowsFine
<1>8. CASE ~f.ready
  BY <1>4, <1>6, <1>8
<1>9. CASE f.ready /\ Unmatched(f.alg) > 0
  <2> DEFINE c == close(f.alg, f.kb.timestamp)
  <2>1. /\ TableFine(c, f.kb) /\ Changed(f.alg, c, {"upper_table", "lower_table"})
        /\ \E w : Raised(f.alg, c, w)
    BY <1>3, <1>9, CloseIsFine DEF FilledFine
  <2>2. complete(t, k) = Again(c, f.kb)
    BY <1>4, <1>9
  <2> HIDE DEF c
  <2>3. c.type = f.alg.type /\ c.alphabet_size = f.alg.alphabet_size
    BY <1>3, <2>1 DEF FilledFine, TableFine, HeadFine, Changed, Members
  <2>4. Grown(f.alg, c)
    BY <2>1, <2>3, RaisedIsGrown
  <2>5. Grown(t, c)
    BY <1>5, <2>4, GrownFacts
  <2> QED BY <1>3, <1>5, <2>1, <2>2, <2>3, <2>5 DEF ResultFine, Again, FilledFine
<1>10. CASE f.ready /\ Unmatched(f.alg) = 0
  <2>1. CASE f.alg.type = "simple" /\ Conflicts(f.alg) # {}
    <3> DEFINE c == make_consistent(f.alg, f.kb.timestamp)
    <3>1. TableFine(c, f.kb) /\ Changed(f.alg, c, {"column_names", "column_timestamps"})
      BY <1>3, <1>5, <2>1, MakeConsistentIsFine DEF FilledFine
    <3>2. complete(t, k) = Again(c, f.kb)
      BY <1>4, <1>10, <2>1
    <3> HIDE DEF c
    <3>3. /\ c.type = f.alg.type /\ c.alphabet_size = f.alg.alphabet_size
          /\ c.upper_table = f.alg.upper_table /\ c.lower_table = f.alg.lower_table
      BY <1>3, <3>1 DEF FilledFine, TableFine, HeadFine, Changed, Members
    <3>4. Grown(t, c)
      BY <1>5, <3>3, SameRowsIsGrown, GrownFacts
    <3> QED BY <1>3, <1>5, <3>1, <3>2, <3>3, <3>4 DEF ResultFine, Again, FilledFine
  <2>2. CASE ~(f.alg.type = "simple" /\ Conflicts(f.alg) # {})
    BY <1>4, <1>6, <1>10, <2>2
  <2> QED BY <2>1, <2>2
<1> QED BY <1>3, <1>7, <1>8, <1>9, <1>10 DEF FilledFine

(***************************************************************************)
(* complete() of NL*'s table.                                              *)
(***************************************************************************)
LEMMA NLCompleteIsFine ==
    ASSUME NEW k, KnowledgeFine(k), AsksWords(k), NEW t, TableFine(t, k), t.type = "nl"
    PROVE  ResultFine(t, nl_complete(t, k))
<1> DEFINE s == IF t.initialized THEN t ELSE nl_initialize_table(t)
           f == FillTables(s, k)
<1>1. TableFine(s, k) /\ s.initialized /\ Grown(t, s)
  <2>1. CASE t.initialized
    BY <2>1, GrownFacts
  <2>2. CASE ~t.initialized
    <3> DEFINE i == nl_initialize_table(t)
    <3>1. /\ TableFine(i, k) /\ i.initialized
          /\ Changed(t, i, {"upper_table", "lower_table", "initialized", "column_names"})
          /\ Raised(t, i, <<>>)
      BY <2>2, NLInitializeIsFine
    <3> HIDE DEF i
    <3>2. i.type = t.type /\ i.alphabet_size = t.alphabet_size
      BY <3>1 DEF TableFine, HeadFine, Changed, Members
    <3>3. Grown(t, i)
      BY <3>1, <3>2, RaisedIsGrown
    <3> QED BY <2>2, <3>1, <3>3 DEF i
  <2> QED BY <2>1, <2>2 DEF TableFine, HeadFine
<1>2. s.type = t.type
  BY <1>1 DEF Grown
<1> HIDE DEF s
<1>3. FilledFine(s, f)
  BY <1>1, <1>2, FillTablesFilled
<1>4. nl_complete(t, k) = CASE ~f.ready -> f
                            [] f.ready /\ ~is_closed(f.alg) -> Again(nl_close(f.alg), f.kb)
                            [] f.ready /\ is_closed(f.alg) ->
                                  IF NLConflicts(f.alg) # {} THEN Again(nl_make_consistent(f.alg), f.kb)
                                  ELSE f
  BY DEF nl_complete, s
<1> HIDE DEF f
<1>5. Grown(t, f.alg) /\ f.alg.type = "nl" /\ AsksWords(f.kb)
  BY <1>1, <1>3, GrownFacts DEF FilledFine, Grown
<1>6. f.ready /\ is_closed(f.alg) => ResultFine(t, f)
  <2> SUFFICES ASSUME f.ready, is_closed(f.alg) PROVE ResultFine(t, f)
    OBVIOUS
  <2>1. UpperPrimes(f.alg) # <<>>
    BY <1>3, <1>5, ClosedHasPrimes DEF FilledFine
  <2> QED BY <1>3, <1>5, <2>1 DEF FilledFine, ResultFine, HasStates
<1>7. CASE ~f.ready
  BY <1>3, <1>4, <1>5, <1>7 DEF FilledFine, ResultFine
<1>8. CASE f.ready /\ ~is_closed(f.alg)
  <2> DEFINE c == nl_close(f.alg)
  <2>1. /\ TableFine(c, f.kb) /\ Changed(f.alg, c, {"upper_table", "lower_table"})
        /\ \E w : Raised(f.alg, c, w)
    BY <1>3, <1>5, <1>8, NLCloseIsFine DEF FilledFine
  <2>2. nl_complete(t, k) = Again(c, f.kb)
    BY <1>4, <1>8
  <2> HIDE DEF c
  <2>3. c.type = f.alg.type /\ c.alphabet_size = f.alg.alphabet_size
    BY <1>3, <2>1 DEF FilledFine, TableFine, HeadFine, Changed, Members
  <2>4. Grown(f.alg, c)
    BY <2>1, <2>3, RaisedIsGrown
  <2>5. Grown(t, c)
    BY <1>5, <2>4, GrownFacts
  <2> QED BY <1>3, <1>5, <2>1, <2>2, <2>3, <2>5 DEF ResultFine, Again, FilledFine
<1>9. CASE f.ready /\ is_closed(f.alg)
  <2>1. CASE NLConflicts(f.alg) # {}
    <3> DEFINE c == nl_make_consistent(f.alg)
    <3>1. TableFine(c, f.kb) /\ Changed(f.alg, c, {"column_names", "column_timestamps"})
      BY <1>3, <1>5, <2>1, NLMakeConsistentIsFine DEF FilledFine
    <3>2. nl_complete(t, k) = Again(c, f.kb)
      BY <1>4, <1>9, <2>1
    <3> HIDE DEF c
    <3>3. /\ c.type = f.alg.type /\ c.alphabet_size = f.alg.alphabet_size
          /\ c.upper_table = f.alg.upper_table /\ c.lower_table = f.alg.lower_table
      BY <1>3, <3>1 DEF FilledFine, TableFine, HeadFine, Changed, Members
    <3>4. Grown(t, c)
      BY <1>5, <3>3, SameRowsIsGrown, GrownFacts
    <3> QED BY <1>3, <1>5, <3>1, <3>2, <3>3, <3>4 DEF ResultFine, Again, FilledFine
  <2>2. CASE ~(NLConflicts(f.alg) # {})
    BY <1>4, <1>6, <1>9, <2>2
  <2> QED BY <2>1, <2>2
<1> QED BY <1>3, <1>7, <1>8, <1>9 DEF FilledFine

(***************************************************************************)
(* The search for a suffix in Rivest and Schapire's table.                 *)
(***************************************************************************)
LEMMA CexModeOffIsFine ==
    ASSUME NEW k, NEW t, TableFine(t, k), t.type = "rs"
    PROVE  TableFine(CexModeOff(t), k) /\ Grown(t, CexModeOff(t))
<1> DEFINE s == CexModeOff(t)
<1>1. SearchMembers \cup Members \subseteq DOMAIN t /\ HeadFine(t)
  BY DEF TableFine, HeadFine
<1>2. /\ Changed(t, s, SearchMembers)
      /\ s.type = t.type /\ s.alphabet_size = t.alphabet_size /\ s.initialized = t.initialized
      /\ s.counterexample = t.counterexample
      /\ s.cex_front = -1 /\ s.cex_back = -1 /\ s.cex_latest_bad = -1
  BY <1>1 DEF CexModeOff, Changed, SearchMembers, Members
<1> HIDE DEF s
<1>3. HeadFine(s)
  BY <1>1, <1>2 DEF HeadFine, Changed
<1> QED BY <1>2, <1>3, SearchIsFine DEF s

\* A step of the binary search, analyse_counterexample.
LEMMA NarrowedIsFine ==
    ASSUME NEW k, NEW t, TableFine(t, k), t.type = "rs", NEW i \in Int, NEW bad \in BOOLEAN
    PROVE  /\ TableFine(Narrowed(t, i, bad), k) /\ Grown(t, Narrowed(t, i, bad))
           /\ Narrowed(t, i, bad).initialized = t.initialized
<1> DEFINE s == Narrowed(t, i, bad)
<1>1. SearchMembers \cup Members \subseteq DOMAIN t /\ HeadFine(t)
      /\ t.cex_front \in Int /\ t.cex_back \in Int /\ t.cex_latest_bad \in Int
  BY DEF TableFine, HeadFine
<1>2. /\ Changed(t, s, SearchMembers)
      /\ s.type = t.type /\ s.alphabet_size = t.alphabet_size /\ s.initialized = t.initialized
      /\ s.counterexample = t.counterexample
      /\ s.cex_front \in {t.cex_front, i + 1} /\ s.cex_back \in {t.cex_back, i - 1}
      /\ s.cex_latest_bad \in {t.cex_latest_bad, i}
  BY <1>1 DEF Narrowed, Changed, SearchMembers, Members
<1> HIDE DEF s
<1>3. s.cex_front \in Int /\ s.cex_back \in Int /\ s.cex_latest_bad \in Int
  BY <1>1, <1>2
<1>4. HeadFine(s)
  BY <1>1, <1>2, <1>3 DEF HeadFine, Changed
<1> QED BY <1>2, <1>4, SearchIsFine DEF s

\* The end of the binary search: the suffix becomes a column.
LEMMA PickSuffixIsFine ==
    ASSUME NEW k, NEW t, TableFine(t, k), t.type = "rs", t.initialized, NEW now
    PROVE  TableFine(PickSuffix(t, now), k) /\ Grown(t, PickSuffix(t, now))
<1> DEFINE from == IF t.cex_latest_bad > 0 THEN t.cex_latest_bad ELSE 0
           w == SubSeq(t.counterexample, from + 1, Len(t.counterexample))
           c == add_column(t, now, w)
<1>1. t.counterexample \in Word /\ t.cex_latest_bad \in Int
  BY DEF TableFine, HeadFine
<1>2. from \in Nat
  BY <1>1
<1> HIDE DEF from
<1>3. w \in Word
  <2>1. /\ Sequence(t.counterexample) /\ Range(t.counterexample) \subseteq Symbols
    BY <1>1, SequenceOf DEF Word
  <2>2. Len(t.counterexample) \in Int
    BY <2>1, SequenceFacts
  <2>3. Sequence(w) /\ Range(w) \subseteq Range(t.counterexample)
    BY <1>2, <2>1, <2>2, PartFacts
  <2> HIDE DEF w
  <2> QED BY <2>1, <2>3, SequenceWithin DEF Word
<1>4. PickSuffix(t, now) = CexModeOff(c)
  BY DEF PickSuffix, from
<1> HIDE DEF w
<1>5. TableFine(c, k) /\ Changed(t, c, {"column_names", "column_timestamps"})
  BY <1>3, AddColumnIsFine
<1> HIDE DEF c
<1>6. /\ c.type = t.type /\ c.alphabet_size = t.alphabet_size
      /\ c.upper_table = t.upper_table /\ c.lower_table = t.lower_table
  BY <1>5 DEF TableFine, HeadFine, Changed, Members
<1>7. TableFine(CexModeOff(c), k) /\ Grown(c, CexModeOff(c))
  BY <1>5, <1>6, CexModeOffIsFine
<1>8. Grown(t, CexModeOff(c))
  BY <1>6, <1>7, SameRowsIsGrown, GrownFacts
<1> QED BY <1>4, <1>7, <1>8

\* A result in the middle of the search.
SearchResult(t, r) ==
    /\ KnowledgeFine(r.kb) /\ TableFine(r.alg, r.kb) /\ Grown(t, r.alg)
    /\ r.ready = FALSE /\ r.again \in BOOLEAN

\* The search goes on.
LEMMA ProceedIsFine ==
    ASSUME NEW k, KnowledgeFine(k), NEW t, NEW n, TableFine(n, k), Grown(t, n), n.type = "rs", n.initialized
    PROVE  SearchResult(t, Proceed(t, n, k))
<1> DEFINE s == IF t.cex_front # t.cex_back /\ n.cex_front <= n.cex_back
                THEN n ELSE PickSuffix(n, k.timestamp)
<1>1. TableFine(PickSuffix(n, k.timestamp), k) /\ Grown(n, PickSuffix(n, k.timestamp))
  BY PickSuffixIsFine
<1>2. TableFine(s, k) /\ Grown(t, s)
  BY <1>1, GrownFacts
<1>3. Proceed(t, n, k) = Again(s, k)
  BY DEF Proceed
<1> HIDE DEF s
<1> QED BY <1>2, <1>3 DEF SearchResult, Again

\* The search needs an answer, which it asks for unless it is there.
LEMMA AskIsFine ==
    ASSUME NEW k, KnowledgeFine(k), NEW t, TableFine(t, k), t.type = "rs", t.initialized, NEW i \in Int, NEW w
    PROVE  SearchResult(t, Ask(t, i, w, k))
<1> DEFINE l == resolve_or_add_query(k, w)
           new == Reply(l, w)
           bad == new.ans # t.cex_answer
           n == Narrowed(t, i, bad)
<1>1. KnowledgeFine(l) /\ Knows(k, l)
  BY ResolveOrAddIsFine DEF StaysFine
<1>2. new.kb = l
  BY DEF Reply
<1>3. Ask(t, i, w, k) = IF new.ans = NoAnswer \/ t.cex_answer = NoAnswer THEN Result(t, l, FALSE)
                        ELSE Proceed(t, n, l)
  BY <1>2 DEF Ask, Compare
<1> HIDE DEF l, new
<1>4. TableFine(t, l) /\ Grown(t, t)
  BY <1>1, TableLearns, GrownFacts
<1>5. TableFine(n, l) /\ Grown(t, n) /\ n.initialized
  BY <1>4, NarrowedIsFine
<1>6. SearchResult(t, Result(t, l, FALSE))
  BY <1>1, <1>4 DEF Result, SearchResult
<1>7. SearchResult(t, Proceed(t, n, l))
  <2>1. n.type = "rs"
    BY <1>5 DEF Grown
  <2> HIDE DEF n
  <2> QED BY <1>1, <1>5, <2>1, ProceedIsFine
<1> QED BY <1>3, <1>6, <1>7

\* analyse_counterexample, as far as the answers at hand take it.
LEMMA AnalyseIsFine ==
    ASSUME NEW k, KnowledgeFine(k), NEW t, TableFine(t, k), t.type = "rs", t.initialized
    PROVE  SearchResult(t, analyse_counterexample(t, k))
<1> DEFINE cex == IF t.cex_answer # NoAnswer THEN [kb |-> k, ans |-> t.cex_answer]
                  ELSE Reply(resolve_or_add_query(k, t.counterexample), t.counterexample)
           i == (t.cex_front + t.cex_back) \div 2
           s == [t EXCEPT !.cex_answer = cex.ans]
<1>1. KnowledgeFine(cex.kb) /\ Knows(k, cex.kb)
  <2>1. CASE t.cex_answer # NoAnswer
    BY <2>1, KnowsItself
  <2>2. CASE t.cex_answer = NoAnswer
    <3>1. cex.kb = resolve_or_add_query(k, t.counterexample)
      BY <2>2 DEF Reply
    <3> QED BY <3>1, ResolveOrAddIsFine DEF StaysFine
  <2> QED BY <2>1, <2>2
<1>2. \/ analyse_counterexample(t, k) = Result(CexModeOff(t), cex.kb, FALSE)
      \/ analyse_counterexample(t, k) = Ask(s, i, Replaced(t, i), cex.kb)
  BY DEF analyse_counterexample, Checked
<1> HIDE DEF cex
<1>3. TableFine(t, cex.kb)
  BY <1>1, TableLearns
<1>4. TableFine(CexModeOff(t), cex.kb) /\ Grown(t, CexModeOff(t))
  BY <1>3, CexModeOffIsFine
<1>5. TableFine(s, cex.kb) /\ Grown(t, s) /\ s.type = "rs" /\ s.initialized
  <2>1. SearchMembers \cup Members \subseteq DOMAIN t /\ HeadFine(t)
    BY DEF TableFine, HeadFine
  <2>2. /\ Changed(t, s, SearchMembers) /\ s.type = t.type
        /\ s.alphabet_size = t.alphabet_size /\ s.initialized = t.initialized
        /\ s.counterexample = t.counterexample
        /\ s.cex_front = t.cex_front /\ s.cex_back = t.cex_back
        /\ s.cex_latest_bad = t.cex_latest_bad
    BY <2>1 DEF Changed, SearchMembers, Members
  <2> HIDE DEF s
  <2>3. HeadFine(s)
    BY <2>1, <2>2 DEF HeadFine, Changed
  <2> QED BY <1>3, <2>2, <2>3, SearchIsFine
<1> HIDE DEF s
<1>6. i \in Int
  BY DEF TableFine, HeadFine
<1> HIDE DEF i
<1>7. SearchResult(s, Ask(s, i, Replaced(t, i), cex.kb))
  BY <1>1, <1>5, <1>6, AskIsFine
<1>8. SearchResult(t, Ask(s, i, Replaced(t, i), cex.kb))
  BY <1>5, <1>7, GrownFacts DEF SearchResult
<1>9. SearchResult(t, Result(CexModeOff(t), cex.kb, FALSE))
  BY <1>1, <1>4 DEF SearchResult, Result
<1> QED BY <1>2, <1>8, <1>9

(***************************************************************************)
(* complete() of Rivest and Schapire's table.                              *)
(***************************************************************************)
LEMMA RSCompleteIsFine ==
    ASSUME NEW k, KnowledgeFine(k), NEW t, TableFine(t, k), t.type = "rs"
    PROVE  ResultFine(t, rs_complete(t, k))
<1>1. CASE t.initialized /\ t.counterexample_mode
  <2>1. rs_complete(t, k) = analyse_counterexample(t, k)
    BY <1>1 DEF rs_complete
  <2>2. SearchResult(t, rs_complete(t, k))
    BY <1>1, <2>1, AnalyseIsFine
  <2> QED BY <2>2 DEF SearchResult, ResultFine, Grown
<1>2. CASE ~(t.initialized /\ t.counterexample_mode)
  <2> DEFINE init == initialize_table(t, k.timestamp)
             start == [init EXCEPT !.counterexample_mode = FALSE, !.latest_cj = NoConjecture]
             s == IF t.initialized THEN t ELSE start
             f == FillTables(s, k)
  <2>1. TableFine(s, k) /\ s.initialized /\ Grown(t, s)
    <3>1. CASE t.initialized
      BY <3>1, GrownFacts
    <3>2. CASE ~t.initialized
      <4>1. /\ TableFine(init, k) /\ init.initialized
            /\ Changed(t, init, {"upper_table", "lower_table", "initialized", "column_names",
                                 "column_timestamps"})
            /\ Raised(t, init, <<>>)
        BY <3>2, InitializeIsFine
      <4> HIDE DEF init
      <4>2. init.type = t.type /\ init.alphabet_size = t.alphabet_size
        BY <4>1 DEF TableFine, HeadFine, Changed, Members
      <4>3. Grown(t, init)
        BY <4>1, <4>2, RaisedIsGrown
      <4>4. SearchMembers \cup Members \subseteq DOMAIN init /\ HeadFine(init)
        BY <4>1, <4>2 DEF TableFine, HeadFine
      <4>5. /\ Changed(init, start, SearchMembers) /\ start.type = init.type
            /\ start.alphabet_size = init.alphabet_size /\ start.initialized = init.initialized
            /\ start.counterexample = init.counterexample
            /\ start.cex_front = init.cex_front /\ start.cex_back = init.cex_back
            /\ start.cex_latest_bad = init.cex_latest_bad
        BY <4>4 DEF Changed, SearchMembers, Members
      <4> HIDE DEF start
      <4>6. HeadFine(start)
        BY <4>4, <4>5 DEF HeadFine, Changed
      <4>7. TableFine(start, k) /\ Grown(init, start)
        BY <4>1, <4>5, <4>6, SearchIsFine
      <4> QED BY <3>2, <4>1, <4>3, <4>5, <4>7, GrownFacts
    <3> QED BY <3>1, <3>2 DEF TableFine, HeadFine
  <2>2. rs_complete(t, k) = IF f.ready /\ Unmatched(f.alg) > 0
                            THEN Again(close(f.alg, f.kb.timestamp), f.kb) ELSE f
    BY <1>2 DEF rs_complete
  <2>3. s.type = "rs"
    BY <2>1 DEF Grown
  <2> HIDE DEF s
  <2>4. FilledFine(s, f)
    BY <2>1, <2>3, FillTablesFilled
  <2> HIDE DEF f
  <2>5. Grown(t, f.alg) /\ f.alg.type = "rs"
    BY <2>1, <2>4, GrownFacts DEF FilledFine, Grown
  <2>6. ResultFine(t, f)
    BY <2>4, <2>5 DEF FilledFine, ResultFine, HasStates
  <2>7. CASE f.ready /\ Unmatched(f.alg) > 0
    <3> DEFINE c == close(f.alg, f.kb.timestamp)
    <3>1. /\ TableFine(c, f.kb) /\ Changed(f.alg, c, {"upper_table", "lower_table"})
          /\ \E w : Raised(f.alg, c, w)
      BY <2>4, <2>7, CloseIsFine DEF FilledFine
    <3>2. rs_complete(t, k) = Again(c, f.kb)
      BY <2>2, <2>7
    <3> HIDE DEF c
    <3>3. c.type = f.alg.type /\ c.alphabet_size = f.alg.alphabet_size
      BY <2>4, <3>1 DEF FilledFine, TableFine, HeadFine, Changed, Members
    <3>4. Grown(f.alg, c)
      BY <3>1, <3>3, RaisedIsGrown
    <3>5. Grown(t, c)
      BY <2>5, <3>4, GrownFacts
    <3> QED BY <2>4, <2>5, <3>1, <3>2, <3>3, <3>5 DEF ResultFine, Again, FilledFine
  <2> QED BY <2>2, <2>6, <2>7
<1> QED BY <1>1, <1>2

-----------------------------------------------------------------------------
(* advance(). *)

\* The calls that complete() makes of itself.
ActivateBody(t, r, n) == Activated(r, n)
Activate == INSTANCE LoopRules WITH Body <- ActivateBody, Inv <- ResultFine

\* One call that complete() makes of itself.
LEMMA ActivatedIsFine ==
    ASSUME NEW t, NEW r, ResultFine(t, r), NEW n
    PROVE  ResultFine(t, Activated(r, n))
<1>1. CASE ~r.again
  BY <1>1 DEF Activated
<1>2. CASE r.again
  <2> DEFINE c == Activated(r, n)
  <2>0. KnowledgeFine(r.kb) /\ TableFine(r.alg, r.kb) /\ (r.alg.type = "nl" => AsksWords(r.kb))
        /\ r.alg.type \in {"simple", "col", "rs", "nl"}
    BY DEF ResultFine, TableFine, HeadFine
  <2>1. ResultFine(r.alg, c)
    <3>1. CASE r.alg.type = "rs"
      BY <1>2, <2>0, <3>1, RSCompleteIsFine DEF Activated
    <3>2. CASE r.alg.type = "nl"
      BY <1>2, <2>0, <3>2, NLCompleteIsFine DEF Activated
    <3>3. CASE r.alg.type \in {"simple", "col"}
      BY <1>2, <2>0, <3>3, CompleteIsFine DEF Activated
    <3> QED BY <2>0, <3>1, <3>2, <3>3
  <2> HIDE DEF c
  <2>2. Grown(t, c.alg)
    BY <2>1, GrownFacts DEF ResultFine
  <2> QED BY <2>1, <2>2 DEF ResultFine, c
<1> QED BY <1>1, <1>2 DEF ResultFine

\* complete(), all its calls taken together.
LEMMA CompletedIsFine ==
    ASSUME KnowledgeFine(kb), TableFine(alg, kb), alg.type = "nl" => AsksWords(kb)
    PROVE  ResultFine(alg, Completed)
<1> DEFINE base == Again(alg, kb)
           seq == [n \in 1..MaxActivations |-> n]
<1>1. ResultFine(alg, base)
  BY GrownFacts DEF ResultFine, Again
<1>2. Completed = Activate!Loop(alg, base, seq)
  BY DEF Completed, Activate!Loop, Activate!FoldLeft, Activate!MapThenFoldSet, Activate!Max, FoldLeft,
         MapThenFoldSet, Max, ActivateBody
<1>3. MaxActivations \in Nat /\ DOMAIN seq = 1..MaxActivations
  BY MaxActivationsAssumption
<1>4. \A i \in 1..MaxActivations : \A x : ResultFine(alg, x) => ResultFine(alg, ActivateBody(alg, x, seq[i]))
  <2> HIDE DEF seq
  <2> QED BY ActivatedIsFine DEF ActivateBody
<1> HIDE DEF base, seq
<1>5. ResultFine(alg, Activate!Loop(alg, base, seq))
  BY <1>1, <1>3, <1>4, Activate!FoldRule
<1> QED BY <1>2, <1>5

ConjectureFine(c) == c # NoConjecture => c.state_count \in Nat \ {0}

(***************************************************************************)
(* A conjecture has a state.                                               *)
(***************************************************************************)
LEMMA StatesAreThere ==
    ASSUME NEW k, NEW t, TableFine(t, k), HasStates(t)
    PROVE  /\ derive_conjecture(t).state_count \in Nat \ {0}
           /\ t.type = "nl" => nl_derive_conjecture(t).state_count \in Nat \ {0}
<1>1. Sequence(t.upper_table) /\ t.upper_table # <<>>
  BY DEF TableFine, RowsFine, HasStates
<1>2. Len(t.upper_table) \in Nat /\ DOMAIN t.upper_table = 1..Len(t.upper_table) /\ Len(t.upper_table) # 0
  BY <1>1, SequenceFacts
<1>3. Len(StateRows(t)) \in Nat \ {0}
  <2> DEFINE n == Len(t.upper_table)
             all == [i \in DOMAIN t.upper_table |-> i]
             S == {i \in DOMAIN t.upper_table : \A j \in 1..(i - 1) :
                      t.upper_table[j].acceptance # t.upper_table[i].acceptance}
  <2>1. StateRows(t) = OnlyIn(all, S)
    BY DEF StateRows
  <2>2. n \in Nat /\ n # 0 /\ all = [i \in 1..n |-> all[i]] /\ \A i \in 1..n : all[i] = i
    BY <1>2
  <2>3. 1 \in S
    BY <1>2
  <2> HIDE DEF all, S, n
  <2>4. Sequence(all) /\ Range(all) = {all[i] : i \in 1..n}
    BY <2>2, FunctionToSequence
  <2>5. 1 \in Range(all)
    BY <2>2, <2>4
  <2>6. Sequence(OnlyIn(all, S)) /\ Range(OnlyIn(all, S)) = Range(all) \cap S
    BY <2>4, KeptFacts
  <2>7. Range(OnlyIn(all, S)) # {}
    BY <2>3, <2>5, <2>6
  <2> QED BY <2>1, <2>6, <2>7, SequenceFacts
<1>4. t.type = "nl" => Len(UpperPrimes(t)) \in Nat \ {0}
  <2> SUFFICES ASSUME t.type = "nl" PROVE Len(UpperPrimes(t)) \in Nat \ {0}
    OBVIOUS
  <2>1. Sequence(UpperPrimes(t))
    BY <1>1, KeptFacts DEF UpperPrimes
  <2>2. UpperPrimes(t) # <<>>
    BY DEF HasStates
  <2> QED BY <2>1, <2>2, SequenceFacts
<1> QED BY <1>3, <1>4 DEF derive_conjecture, nl_derive_conjecture

(***************************************************************************)
(* advance() leaves the table fine and returns a conjecture with a state.  *)
(***************************************************************************)
LEMMA DeliveredIsFine ==
    ASSUME NEW t, NEW r, ResultFine(t, r)
    PROVE  LET d == Delivered(r)
           IN  /\ KnowledgeFine(d.kb) /\ TableFine(d.alg, d.kb) /\ (d.alg.type = "nl" => AsksWords(d.kb))
               /\ Grown(t, d.alg)
               /\ ConjectureFine(d.conjecture)
               /\ r.ready => d.conjecture # NoConjecture
<1> DEFINE m == rs_remember(r.alg)
           c == IF ~r.ready THEN NoConjecture
                ELSE IF r.alg.type = "nl" THEN nl_derive_conjecture(r.alg)
                ELSE derive_conjecture(r.alg)
           a == IF r.ready /\ r.alg.type = "rs" THEN m ELSE r.alg
<1>1. Delivered(r) = [kb |-> r.kb, conjecture |-> c, alg |-> a]
  BY DEF Delivered
<1>2. KnowledgeFine(r.kb) /\ TableFine(r.alg, r.kb) /\ (r.alg.type = "nl" => AsksWords(r.kb))
      /\ Grown(t, r.alg) /\ (r.ready => HasStates(r.alg))
  BY DEF ResultFine
<1>3. ConjectureFine(c) /\ (r.ready => c # NoConjecture)
  <2>1. ASSUME r.ready PROVE c.state_count \in Nat \ {0}
    <3>1. CASE r.alg.type = "nl"
      BY <1>2, <2>1, <3>1, StatesAreThere
    <3>2. CASE r.alg.type # "nl"
      BY <1>2, <2>1, <3>2, StatesAreThere
    <3> QED BY <3>1, <3>2
  <2>2. NoConjecture.state_count = 0
    BY DEF NoConjecture
  <2>3. ~r.ready => c = NoConjecture
    OBVIOUS
  <2> HIDE DEF c
  <2>4. ASSUME r.ready PROVE c # NoConjecture
    BY <2>1, <2>2, <2>4
  <2> QED BY <2>1, <2>3, <2>4 DEF ConjectureFine
<1> HIDE DEF c
<1>4. TableFine(a, r.kb) /\ Grown(t, a)
  <2>1. CASE r.ready /\ r.alg.type = "rs"
    <3>1. SearchMembers \cup Members \subseteq DOMAIN r.alg /\ HeadFine(r.alg)
      BY <1>2, <2>1 DEF TableFine, HeadFine
    <3>2. /\ Changed(r.alg, m, SearchMembers) /\ m.type = r.alg.type
          /\ m.alphabet_size = r.alg.alphabet_size /\ m.initialized = r.alg.initialized
          /\ m.counterexample = r.alg.counterexample
          /\ m.cex_front = r.alg.cex_front /\ m.cex_back = r.alg.cex_back
          /\ m.cex_latest_bad = r.alg.cex_latest_bad
      BY <3>1 DEF rs_remember, Changed, SearchMembers, Members
    <3> HIDE DEF m
    <3>3. HeadFine(m)
      BY <3>1, <3>2 DEF HeadFine, Changed
    <3>4. TableFine(m, r.kb) /\ Grown(r.alg, m)
      BY <1>2, <3>2, <3>3, SearchIsFine
    <3> QED BY <1>2, <2>1, <3>4, GrownFacts
  <2>2. CASE ~(r.ready /\ r.alg.type = "rs")
    BY <1>2, <2>2
  <2> QED BY <2>1, <2>2
<1>5. a.type = r.alg.type
  BY <1>2, <1>4 DEF Grown
<1> HIDE DEF a
<1> QED BY <1>1, <1>2, <1>3, <1>4, <1>5

-----------------------------------------------------------------------------
(* Counterexamples. *)

(***************************************************************************)
(* A counterexample is a word, and an alphabet that has its letters is one.*)
(***************************************************************************)
LEMMA CounterexampleFacts ==
    ASSUME target \in Targets, NEW m, NEW w \in Counterexamples(m, MaxCounterexample),
           NEW t, Alphabet(t.alphabet_size)
    PROVE  /\ w \in Word
           /\ Alphabet(AlphabetOf(t, w))
           /\ AlphabetOf(t, w) = t.alphabet_size \/ AlphabetOf(t, w) <= target.input_alphabet_size
<1> DEFINE asize == target.input_alphabet_size
           S == {t.alphabet_size} \cup {w[i] + 1 : i \in DOMAIN w}
<1>1. Alphabet(asize)
  BY TargetsAssumption DEF Teachable
<1>2. PICK n \in 0..MaxCounterexample : w \in [1..n -> 0..(asize - 1)]
  BY DEF Counterexamples, Wordlets
<1>3. n \in Nat /\ asize \in Nat /\ t.alphabet_size \in Nat
  BY <1>1, <1>2, MaxCounterexampleAssumption DEF Alphabet
<1> HIDE DEF asize
<1>4. w \in [1..n -> Symbols]
  BY <1>1, <1>2 DEF Alphabet
<1>5. w \in Word
  BY <1>3, <1>4, SeqDef DEF Word
<1>6. DOMAIN w = 1..n /\ \A i \in 1..n : w[i] \in Nat /\ w[i] + 1 <= asize
  BY <1>2, <1>3
<1>7. S \in SUBSET Nat /\ S # {}
  BY <1>3, <1>6
<1>8. \A j \in S : j <= asize \/ j = t.alphabet_size
  BY <1>6
<1>9. IsFiniteSet(S)
  <2>1. IsFiniteSet(DOMAIN w)
    BY <1>3, <1>6, FS_Interval
  <2>2. IsFiniteSet({w[i] + 1 : i \in DOMAIN w})
    <3> DEFINE f == [i \in DOMAIN w |-> w[i] + 1]
    <3>1. f \in Surjection(DOMAIN w, {w[i] + 1 : i \in DOMAIN w})
      BY DEF Surjection
    <3> HIDE DEF f
    <3> QED BY <2>1, <3>1, FS_Surjection
  <2> QED BY <2>2, FS_Singleton, FS_Union
<1>10. AlphabetOf(t, w) = Max(S)
  BY DEF AlphabetOf
<1> HIDE DEF S
<1>11. Max(S) \in S
  <2>1. S \subseteq Int
    BY <1>7
  <2> QED BY <1>7, <1>9, <2>1, FiniteSetHasMax
<1>12. Max(S) \in Nat /\ (Max(S) <= asize \/ Max(S) = t.alphabet_size)
  BY <1>7, <1>8, <1>11
<1>13. Alphabet(Max(S))
  <2>1. CASE Max(S) = t.alphabet_size
    BY <2>1
  <2>2. CASE Max(S) <= asize
    <3>1. 0..(Max(S) - 1) \subseteq 0..(asize - 1)
      BY <1>3, <1>12, <2>2
    <3> QED BY <1>1, <1>12, <3>1 DEF Alphabet
  <2> QED BY <1>12, <2>1, <2>2
<1> QED BY <1>5, <1>10, <1>12, <1>13 DEF asize

(***************************************************************************)
(* The prefixes and the suffixes of a word.                                *)
(***************************************************************************)
LEMMA PrefixWords ==
    ASSUME NEW w \in Word
    PROVE  /\ Len(w) \in Nat
           /\ \A i \in 1..Len(w) : SubSeq(w, 1, Len(w) - i + 1) \in Word
<1>1. Sequence(w) /\ Range(w) \subseteq Symbols /\ Len(w) \in Nat
  BY SequenceOf, SequenceFacts DEF Word
<1>2. ASSUME NEW i \in 1..Len(w) PROVE SubSeq(w, 1, Len(w) - i + 1) \in Word
  <2> DEFINE n == Len(w) - i + 1
  <2>1. n \in Int /\ n <= Len(w) /\ 1 \in Nat /\ 1 > 0
    BY <1>1
  <2> HIDE DEF n
  <2>2. Sequence(SubSeq(w, 1, n)) /\ Range(SubSeq(w, 1, n)) \subseteq Range(w)
    BY <1>1, <2>1, PartFacts
  <2>3. SubSeq(w, 1, n) \in Word
    BY <1>1, <2>2, SequenceWithin DEF Word
  <2> QED BY <2>3 DEF n
<1> QED BY <1>1, <1>2

\* The suffixes that add_counterexample makes columns of.
SuffixesOf(w) == [i \in 1..Len(w) |-> SubSeq(w, i, Len(w))]
FirstSuffixes(w, columns) ==
    LET old == {i \in DOMAIN SuffixesOf(w) : SuffixesOf(w)[i] \in Range(columns)}
    IN  SubSeq(SuffixesOf(w), 1, Min({Len(w) + 1} \cup old) - 1)

\* The suffixes that become columns are words and not empty.
LEMMA SuffixWords ==
    ASSUME NEW w \in Word, NEW columns
    PROVE  LET new == FirstSuffixes(w, columns)
           IN  \E n \in Nat : DOMAIN new = 1..n /\ \A i \in 1..n : new[i] \in Word /\ new[i] # <<>>
<1> DEFINE s == SuffixesOf(w)
           old == {i \in DOMAIN s : s[i] \in Range(columns)}
           m == Min({Len(w) + 1} \cup old)
           new == FirstSuffixes(w, columns)
<1>1. Sequence(w) /\ Range(w) \subseteq Symbols /\ Len(w) \in Nat
  BY SequenceOf, SequenceFacts DEF Word
<1>2. ASSUME NEW i \in 1..Len(w) PROVE SubSeq(w, i, Len(w)) \in Word /\ SubSeq(w, i, Len(w)) # <<>>
  <2> DEFINE v == SubSeq(w, i, Len(w))
  <2>1. i \in Nat /\ i > 0 /\ Len(w) \in Int /\ Len(w) <= Len(w) /\ i <= Len(w)
    BY <1>1
  <2>2. Sequence(v) /\ Range(v) \subseteq Range(w) /\ Len(v) = Len(w) - i + 1
    BY <1>1, <2>1, PartFacts
  <2> HIDE DEF v
  <2>3. v \in Word
    BY <1>1, <2>2, SequenceWithin DEF Word
  <2>4. Len(v) # 0
    BY <2>1, <2>2
  <2>5. v # <<>>
    BY <2>2, <2>4, SequenceFacts
  <2> QED BY <2>3, <2>5 DEF v
<1>3. DOMAIN s = 1..Len(w) /\ \A i \in 1..Len(w) : s[i] \in Word /\ s[i] # <<>>
  BY <1>2 DEF SuffixesOf
<1>4. s = [i \in 1..Len(w) |-> s[i]]
  BY DEF SuffixesOf
<1> HIDE DEF s
<1>5. Sequence(s) /\ Len(s) = Len(w)
  BY <1>1, <1>4, FunctionToSequence
<1>6. {Len(w) + 1} \cup old \in SUBSET Nat /\ {Len(w) + 1} \cup old # {}
  BY <1>1, <1>3
<1>7. m \in {Len(w) + 1} \cup old
  <2> DEFINE X == {Len(w) + 1} \cup old
  <2>1. X \in SUBSET Nat /\ X # {}
    BY <1>6
  <2> HIDE DEF X
  <2>2. Min(X) \in X
    BY <2>1, SmallestOf
  <2> QED BY <2>2 DEF X
<1>8. m \in Nat /\ m >= 1 /\ m - 1 <= Len(w)
  BY <1>1, <1>3, <1>7
<1>9. new = SubSeq(s, 1, m - 1)
  BY DEF FirstSuffixes, s
<1> HIDE DEF m, new
<1>10. /\ Sequence(new) /\ Len(new) = IF 1 <= m - 1 THEN (m - 1) - 1 + 1 ELSE 0
       /\ \A i \in 1..((m - 1) - 1 + 1) : new[i] = s[1 + i - 1]
  <2>1. m - 1 \in Int /\ m - 1 <= Len(s) /\ 1 \in Nat /\ 1 > 0
    BY <1>5, <1>8
  <2> QED BY <1>5, <1>9, <2>1, PartFacts
<1>11. Len(new) = m - 1 /\ m - 1 \in Nat
  BY <1>8, <1>10
<1>12. DOMAIN new = 1..(m - 1)
  BY <1>10, <1>11, SequenceFacts
<1>13. \A i \in 1..(m - 1) : new[i] = s[i] /\ i \in 1..Len(w)
  BY <1>1, <1>8, <1>10
<1>14. \A i \in 1..(m - 1) : new[i] \in Word /\ new[i] # <<>>
  BY <1>3, <1>13
<1> QED BY <1>11, <1>12, <1>14 DEF new

\* Loops that add words as rows or columns to p's table.
StillFine(p, s) == TableFine(s, p.kb) /\ Grown(p.alg, s)
AddWordBody(now, s, v) == add_word_to_upper_table(s, now, v, TRUE)
AddColumnBody(now, s, v) == add_column(s, now, v)
NLAddColumnBody(now, s, v) == nl_add_column(s, v)
AddAllWords(t, now, words) == LET add(s, v) == add_word_to_upper_table(s, now, v, TRUE)
                              IN  FoldLeft(add, t, words)
AddAllColumns(t, now, words) == LET add(s, v) == add_column(s, now, v) IN FoldLeft(add, t, words)
NLAddAllColumns(t, words) == FoldLeft(nl_add_column, t, words)
AddWords == INSTANCE LoopRules WITH Body <- AddWordBody, Inv <- StillFine
AddColumns == INSTANCE LoopRules WITH Body <- AddColumnBody, Inv <- StillFine
NLAddColumns == INSTANCE LoopRules WITH Body <- NLAddColumnBody, Inv <- StillFine

(***************************************************************************)
(* Words that become rows, and words that become columns.                  *)
(***************************************************************************)
LEMMA WordsAdded ==
    ASSUME NEW k, NEW t, TableFine(t, k), NEW now, NEW n \in Nat, NEW words, DOMAIN words = 1..n,
           \A i \in 1..n : words[i] \in Word
    PROVE  LET s == AddAllWords(t, now, words)
           IN  TableFine(s, k) /\ Grown(t, s)
<1> DEFINE s == AddAllWords(t, now, words)
           p == [alg |-> t, kb |-> k]
<1>1. s = AddWords!Loop(now, t, words)
  BY DEF AddAllWords, AddWords!Loop, AddWords!FoldLeft, AddWords!MapThenFoldSet, AddWords!Max, FoldLeft,
         MapThenFoldSet, Max, AddWordBody
<1>2. p.alg = t /\ p.kb = k
  OBVIOUS
<1> HIDE DEF s, p
<1>3. StillFine(p, t)
  BY <1>2, GrownFacts DEF StillFine
<1>4. ASSUME NEW i \in 1..n, NEW x, StillFine(p, x)
      PROVE  StillFine(p, AddWordBody(now, x, words[i]))
  <2> DEFINE y == add_word_to_upper_table(x, now, words[i], TRUE)
  <2>1. TableFine(x, k) /\ Grown(t, x) /\ words[i] \in Word
    BY <1>2, <1>4 DEF StillFine
  <2>2. TableFine(y, k) /\ Raised(x, y, words[i]) /\ Changed(x, y, {"upper_table", "lower_table"})
    BY <2>1, AddWordIsFine
  <2>3. AddWordBody(now, x, words[i]) = y
    BY DEF AddWordBody
  <2> HIDE DEF y
  <2>4. y.type = x.type /\ y.alphabet_size = x.alphabet_size
    BY <2>1, <2>2 DEF TableFine, HeadFine, Changed, Members
  <2>5. Grown(x, y)
    BY <2>2, <2>4, RaisedIsGrown
  <2> QED BY <1>2, <2>1, <2>2, <2>3, <2>5, GrownFacts DEF StillFine
<1>5. StillFine(p, AddWords!Loop(now, t, words))
  BY <1>3, <1>4, AddWords!FoldRule
<1> QED BY <1>1, <1>2, <1>5 DEF StillFine, s

\* add_column for each of them, one after the other.
LEMMA ColumnsAdded ==
    ASSUME NEW k, NEW t, TableFine(t, k), t.type # "nl", NEW now, NEW n \in Nat, NEW words,
           DOMAIN words = 1..n, \A i \in 1..n : words[i] \in Word /\ words[i] # <<>>
    PROVE  LET s == AddAllColumns(t, now, words)
           IN  TableFine(s, k) /\ Grown(t, s)
<1> DEFINE s == AddAllColumns(t, now, words)
           p == [alg |-> t, kb |-> k]
<1>1. s = AddColumns!Loop(now, t, words)
  BY DEF AddAllColumns, AddColumns!Loop, AddColumns!FoldLeft, AddColumns!MapThenFoldSet, AddColumns!Max, FoldLeft,
         MapThenFoldSet, Max, AddColumnBody
<1>2. p.alg = t /\ p.kb = k
  OBVIOUS
<1> HIDE DEF s, p
<1>3. StillFine(p, t)
  BY <1>2, GrownFacts DEF StillFine
<1>4. ASSUME NEW i \in 1..n, NEW x, StillFine(p, x)
      PROVE  StillFine(p, AddColumnBody(now, x, words[i]))
  <2> DEFINE y == add_column(x, now, words[i])
  <2>1. TableFine(x, k) /\ Grown(t, x) /\ words[i] \in Word /\ words[i] # <<>> /\ x.type # "nl"
    BY <1>2, <1>4 DEF StillFine, Grown
  <2>2. TableFine(y, k) /\ Changed(x, y, {"column_names", "column_timestamps"})
    BY <2>1, AddColumnIsFine
  <2>3. AddColumnBody(now, x, words[i]) = y
    BY DEF AddColumnBody
  <2> HIDE DEF y
  <2>4. /\ y.type = x.type /\ y.alphabet_size = x.alphabet_size
        /\ y.upper_table = x.upper_table /\ y.lower_table = x.lower_table
    BY <2>1, <2>2 DEF TableFine, HeadFine, Changed, Members
  <2>5. Grown(x, y)
    BY <2>4, SameRowsIsGrown
  <2> QED BY <1>2, <2>1, <2>2, <2>3, <2>5, GrownFacts DEF StillFine
<1>5. StillFine(p, AddColumns!Loop(now, t, words))
  BY <1>3, <1>4, AddColumns!FoldRule
<1> QED BY <1>1, <1>2, <1>5 DEF StillFine, s

\* The same for NL*.
LEMMA NLColumnsAdded ==
    ASSUME NEW k, NEW t, TableFine(t, k), t.type = "nl", NEW n \in Nat, NEW words,
           DOMAIN words = 1..n, \A i \in 1..n : words[i] \in Word /\ words[i] # <<>>
    PROVE  LET s == NLAddAllColumns(t, words)
           IN  TableFine(s, k) /\ Grown(t, s)
<1> DEFINE s == NLAddAllColumns(t, words)
           p == [alg |-> t, kb |-> k]
<1>1. s = NLAddColumns!Loop(0, t, words)
  BY DEF NLAddAllColumns, NLAddColumns!Loop, NLAddColumns!FoldLeft, NLAddColumns!MapThenFoldSet, NLAddColumns!Max,
         FoldLeft, MapThenFoldSet, Max, NLAddColumnBody
<1>2. p.alg = t /\ p.kb = k
  OBVIOUS
<1> HIDE DEF s, p
<1>3. StillFine(p, t)
  BY <1>2, GrownFacts DEF StillFine
<1>4. ASSUME NEW i \in 1..n, NEW x, StillFine(p, x)
      PROVE  StillFine(p, NLAddColumnBody(0, x, words[i]))
  <2> DEFINE y == nl_add_column(x, words[i])
  <2>1. TableFine(x, k) /\ Grown(t, x) /\ words[i] \in Word /\ words[i] # <<>> /\ x.type = "nl"
    BY <1>2, <1>4 DEF StillFine, Grown
  <2>2. TableFine(y, k) /\ Changed(x, y, {"column_names", "column_timestamps"})
    BY <2>1, NLAddColumnIsFine
  <2>3. NLAddColumnBody(0, x, words[i]) = y
    BY DEF NLAddColumnBody
  <2> HIDE DEF y
  <2>4. /\ y.type = x.type /\ y.alphabet_size = x.alphabet_size
        /\ y.upper_table = x.upper_table /\ y.lower_table = x.lower_table
    BY <2>1, <2>2 DEF TableFine, HeadFine, Changed, Members
  <2>5. Grown(x, y)
    BY <2>4, SameRowsIsGrown
  <2> QED BY <1>2, <2>1, <2>2, <2>3, <2>5, GrownFacts DEF StillFine
<1>5. StillFine(p, NLAddColumns!Loop(0, t, words))
  BY <1>3, <1>4, NLAddColumns!FoldRule
<1> QED BY <1>1, <1>2, <1>5 DEF StillFine, s

\* s is t after a counterexample.
Refined(k, t, s) ==
    TableFine(s, k) /\ s.type = t.type /\ (HasSuccessors(t) => HasSuccessors(s))

\* What keeps the rows refines a table.
LEMMA RefinedFacts ==
    /\ \A k, t, s : TableFine(s, k) /\ Grown(t, s) => Refined(k, t, s)
    /\ \A k, t, s, u : Refined(k, t, s) /\ TableFine(u, k) /\ Grown(s, u) => Refined(k, t, u)
BY DEF Refined, Grown

\* A table with the successors by the new letters refines one without.
LEMMA ExtendedKeepsSuccessors ==
    ASSUME NEW k, NEW t, TableFine(t, k), NEW s, TableFine(s, k), Extended(t, s, Words(t.upper_table))
    PROVE  Refined(k, t, s)
<1>1. /\ t.alphabet_size \in Nat /\ s.alphabet_size \in Nat
      /\ s.type = t.type /\ s.upper_table = t.upper_table
  BY DEF Extended, TableFine, HeadFine, Alphabet, Changed, Members
<1>2. ASSUME HasSuccessors(t), NEW w \in Words(s.upper_table), NEW a \in 0..(s.alphabet_size - 1)
      PROVE  InTables(s, Append(w, a))
  <2>1. CASE a \in 0..(t.alphabet_size - 1)
    BY <1>1, <1>2, <2>1 DEF HasSuccessors, Extended, InTables
  <2>2. CASE a \in t.alphabet_size..(s.alphabet_size - 1)
    BY <1>1, <1>2, <2>2 DEF Extended, InTables
  <2>3. a \in 0..(t.alphabet_size - 1) \/ a \in t.alphabet_size..(s.alphabet_size - 1)
    BY <1>1, <1>2
  <2> QED BY <2>1, <2>2, <2>3
<1> QED BY <1>1, <1>2 DEF Refined, HasSuccessors

(***************************************************************************)
(* add_counterexample of the four algorithms.                              *)
(***************************************************************************)
LEMMA SimpleCounterexampleIsFine ==
    ASSUME NEW k, NEW t, TableFine(t, k), t.type = "simple", NEW w \in Word, Alphabet(AlphabetOf(t, w)),
           NEW now, NEW garbage
    PROVE  Refined(k, t, simple_add_counterexample(t, now, w, garbage))
<1> DEFINE g == increase_alphabet_size(t, AlphabetOf(t, w), garbage)
           prefixes == [i \in 1..Len(w) |-> SubSeq(w, 1, Len(w) - i + 1)]
           s == AddAllWords(g, now, prefixes)
<1>1. simple_add_counterexample(t, now, w, garbage) = IF InTables(t, w) THEN t ELSE s
  BY DEF simple_add_counterexample, AddAllWords
<1>2. TableFine(g, k) /\ Refined(k, t, g)
  <2>1. TableFine(g, k) /\ Extended(t, g, Words(t.upper_table))
    BY IncreaseIsFine
  <2> HIDE DEF g
  <2> QED BY <2>1, ExtendedKeepsSuccessors
<1> HIDE DEF g
<1>3. Len(w) \in Nat /\ DOMAIN prefixes = 1..Len(w) /\ \A i \in 1..Len(w) : prefixes[i] \in Word
  BY PrefixWords
<1> HIDE DEF prefixes
<1>4. TableFine(s, k) /\ Grown(g, s)
  BY <1>2, <1>3, WordsAdded
<1> HIDE DEF s
<1>5. Refined(k, t, s)
  BY <1>2, <1>4, RefinedFacts
<1>6. Refined(k, t, t)
  BY GrownFacts, RefinedFacts
<1> QED BY <1>1, <1>5, <1>6

\* add_counterexample of the column variant.
LEMMA ColCounterexampleIsFine ==
    ASSUME NEW k, NEW t, TableFine(t, k), t.type = "col", NEW w \in Word, Alphabet(AlphabetOf(t, w)),
           NEW now, NEW garbage
    PROVE  Refined(k, t, col_add_counterexample(t, now, w, garbage))
<1> DEFINE g == increase_alphabet_size(t, AlphabetOf(t, w), garbage)
           new == FirstSuffixes(w, t.column_names)
           s == AddAllColumns(g, now, new)
<1>1. col_add_counterexample(t, now, w, garbage) = IF w \in Range(t.column_names) THEN t ELSE s
  BY DEF col_add_counterexample, AddAllColumns, FirstSuffixes, SuffixesOf
<1>2. TableFine(g, k) /\ Refined(k, t, g)
  <2>1. TableFine(g, k) /\ Extended(t, g, Words(t.upper_table))
    BY IncreaseIsFine
  <2> HIDE DEF g
  <2> QED BY <2>1, ExtendedKeepsSuccessors
<1> HIDE DEF g
<1>3. PICK n \in Nat : DOMAIN new = 1..n /\ \A i \in 1..n : new[i] \in Word /\ new[i] # <<>>
  BY SuffixWords
<1> HIDE DEF new
<1>4. g.type # "nl"
  BY <1>2 DEF Refined
<1>5. TableFine(s, k) /\ Grown(g, s)
  BY <1>2, <1>3, <1>4, ColumnsAdded
<1> HIDE DEF s
<1>6. Refined(k, t, s)
  BY <1>2, <1>5, RefinedFacts
<1>7. Refined(k, t, t)
  BY GrownFacts, RefinedFacts
<1> QED BY <1>1, <1>6, <1>7

\* add_counterexample of Rivest and Schapire's algorithm, which stores the counterexample.
LEMMA RSCounterexampleIsFine ==
    ASSUME NEW k, NEW t, TableFine(t, k), t.type = "rs", NEW w \in Word, Alphabet(AlphabetOf(t, w)),
           NEW garbage
    PROVE  Refined(k, t, rs_add_counterexample(t, w, garbage))
<1> DEFINE g == increase_alphabet_size(t, AlphabetOf(t, w), garbage)
           c == [CexModeOff(t) EXCEPT !.latest_cj = NoConjecture, !.latest_cj_statemapping = <<>>]
           s == [t EXCEPT !.counterexample_mode = TRUE, !.counterexample = w,
                          !.cex_answer = NoAnswer, !.cex_front = 0,
                          !.cex_back = Len(w) - 1, !.cex_latest_bad = -1]
<1>0. SearchMembers \cup Members \subseteq DOMAIN t /\ HeadFine(t)
  BY DEF TableFine, HeadFine
<1>1. rs_add_counterexample(t, w, garbage) \in {t, g, c, s}
  BY DEF rs_add_counterexample
<1>2. Refined(k, t, g)
  <2>1. TableFine(g, k) /\ Extended(t, g, Words(t.upper_table))
    BY IncreaseIsFine
  <2> HIDE DEF g
  <2> QED BY <2>1, ExtendedKeepsSuccessors
<1>3. Refined(k, t, c)
  <2>1. TableFine(CexModeOff(t), k) /\ Grown(t, CexModeOff(t))
    BY CexModeOffIsFine
  <2> DEFINE o == CexModeOff(t)
  <2>2. o.type = "rs" /\ TableFine(o, k) /\ Grown(t, o)
    BY <2>1 DEF Grown
  <2>3. c = [o EXCEPT !.latest_cj = NoConjecture, !.latest_cj_statemapping = <<>>]
    OBVIOUS
  <2> HIDE DEF o, c
  <2>4. SearchMembers \cup Members \subseteq DOMAIN o /\ HeadFine(o)
    BY <2>2 DEF TableFine, HeadFine
  <2>5. /\ Changed(o, c, SearchMembers) /\ c.type = o.type
        /\ c.alphabet_size = o.alphabet_size /\ c.initialized = o.initialized
        /\ c.counterexample = o.counterexample
        /\ c.cex_front = o.cex_front /\ c.cex_back = o.cex_back
        /\ c.cex_latest_bad = o.cex_latest_bad
    BY <2>3, <2>4 DEF Changed, SearchMembers, Members
  <2>6. HeadFine(c)
    BY <2>4, <2>5 DEF HeadFine, Changed
  <2>7. TableFine(c, k) /\ Grown(o, c)
    BY <2>2, <2>5, <2>6, SearchIsFine
  <2>8. Refined(k, t, o)
    BY <2>2, RefinedFacts
  <2> QED BY <2>7, <2>8, RefinedFacts
<1>4. Refined(k, t, s)
  <2>1. /\ Changed(t, s, SearchMembers) /\ s.type = t.type
        /\ s.alphabet_size = t.alphabet_size /\ s.initialized = t.initialized
        /\ s.counterexample = w /\ s.cex_front = 0 /\ s.cex_back = Len(w) - 1
        /\ s.cex_latest_bad = -1
    BY <1>0 DEF Changed, SearchMembers, Members
  <2>2. Len(w) - 1 \in Int
    BY PrefixWords
  <2> HIDE DEF s
  <2>3. HeadFine(s)
    BY <1>0, <2>1, <2>2 DEF HeadFine, Changed
  <2>4. TableFine(s, k) /\ Grown(t, s)
    BY <2>1, <2>3, SearchIsFine
  <2> QED BY <2>4, RefinedFacts
<1>5. Refined(k, t, t)
  BY GrownFacts, RefinedFacts
<1> HIDE DEF g, c, s
<1> QED BY <1>1, <1>2, <1>3, <1>4, <1>5

\* add_counterexample of NL*, which leaves new letters to the columns.
LEMMA NLCounterexampleIsFine ==
    ASSUME NEW k, NEW t, TableFine(t, k), t.type = "nl", NEW w \in Word, Alphabet(AlphabetOf(t, w))
    PROVE  LET s == nl_add_counterexample(t, w)
           IN  /\ TableFine(s, k) /\ s.type = t.type
               /\ AlphabetOf(t, w) <= t.alphabet_size => Grown(t, s)
<1> DEFINE new == FirstSuffixes(w, t.column_names)
           c == NLAddAllColumns(t, new)
           asize == AlphabetOf(t, w)
           s == nl_increase_alphabet_size(c, asize)
<1>1. nl_add_counterexample(t, w) = IF w \in Range(t.column_names) THEN t ELSE s
  BY DEF nl_add_counterexample, NLAddAllColumns, FirstSuffixes, SuffixesOf
<1>2. PICK n \in Nat : DOMAIN new = 1..n /\ \A i \in 1..n : new[i] \in Word /\ new[i] # <<>>
  BY SuffixWords
<1> HIDE DEF new
<1>3. TableFine(c, k) /\ Grown(t, c)
  BY <1>2, NLColumnsAdded
<1> HIDE DEF c, asize
<1>4. TableFine(s, k) /\ Extended(c, s, {}) /\ (asize <= c.alphabet_size => s = c)
  BY <1>3, NLIncreaseIsFine DEF asize
<1> HIDE DEF s
<1>5. s.type = c.type
  BY <1>3, <1>4 DEF Extended, TableFine, HeadFine, Changed, Members
<1> QED BY <1>1, <1>3, <1>4, <1>5, GrownFacts DEF Grown, asize

-----------------------------------------------------------------------------
(* sync_to_knowledgebase(), saving and loading. *)

(***************************************************************************)
(* A row keeps the cells that are still known, up to the first that is     *)
(* not.                                                                    *)
(***************************************************************************)
LEMMA SyncedRowIsFine ==
    ASSUME NEW columns, Sequence(columns), NEW old, NEW j, NEW r, RowFine(r, old, j), NEW k
    PROVE  LET s == sync_acceptance(r, columns, k)
           IN  RowFine(s, columns, k) /\ s.index = r.index
<1> DEFINE m == Min({Len(columns), Len(r.acceptance)})
           word(c) == r.index \o columns[c]
           gaps == {c \in 1..m : ~Resolvable(k, word(c))}
           stops == {Cardinality(1..m) + 1} \cup gaps
           n == Min(stops) - 1
           s == sync_acceptance(r, columns, k)
<1>1. Len(columns) \in Nat /\ Len(r.acceptance) \in Nat
  BY SequenceFacts DEF RowFine
<1>2. m \in Nat /\ m <= Len(columns)
  <2> DEFINE X == {Len(columns), Len(r.acceptance)}
  <2>1. X \in SUBSET Nat /\ X # {} /\ Len(columns) \in X
    BY <1>1
  <2> HIDE DEF X
  <2>2. Min(X) \in X /\ Min(X) <= Len(columns)
    BY <2>1, SmallestOf
  <2>3. Min(X) \in Nat
    BY <2>1, <2>2
  <2> QED BY <2>2, <2>3 DEF X
<1>3. s = [r EXCEPT !.acceptance = [c \in 1..n |-> resolve_query(k, word(c))]]
  BY DEF sync_acceptance
<1> HIDE DEF m
<1>4. Cardinality(1..m) = m
  BY <1>2, FS_Interval
<1>5. stops \in SUBSET Nat /\ stops # {} /\ m + 1 \in stops
  BY <1>2, <1>4
<1>6. Min(stops) \in stops /\ \A c \in stops : Min(stops) <= c
  <2> HIDE DEF stops
  <2> QED BY <1>5, SmallestOf
<1>7. \A c \in stops : c \in Nat /\ c >= 1
  BY <1>2, <1>4
<1>8. n \in Nat /\ n <= m
  <2> DEFINE least == Min(stops)
  <2>1. least \in stops /\ least <= m + 1
    BY <1>5, <1>6
  <2>2. least \in Nat /\ least >= 1
    BY <1>7, <2>1
  <2>3. n = least - 1
    OBVIOUS
  <2> HIDE DEF least, n, stops
  <2> QED BY <1>2, <2>1, <2>2, <2>3
<1>9. ASSUME NEW c \in 1..n PROVE Resolvable(k, word(c))
  <2>1. c \in 1..m
    BY <1>2, <1>8
  <2>2. c \notin stops
    <3>1. Min(stops) \in Nat
      BY <1>6, <1>7
    <3>2. c \in Nat /\ c <= Min(stops) - 1
      BY <1>8
    <3>3. ~(Min(stops) <= c)
      <4> HIDE DEF stops
      <4> QED BY <3>1, <3>2
    <3> HIDE DEF stops
    <3> QED BY <1>6, <3>3
  <2> QED BY <2>1, <2>2
<1> HIDE DEF n
<1> DEFINE acc == [c \in 1..n |-> resolve_query(k, word(c))]
<1>10. acc = [c \in 1..n |-> acc[c]] /\ \A c \in 1..n : acc[c] = resolve_query(k, word(c))
  OBVIOUS
<1> HIDE DEF acc
<1>11. Sequence(acc) /\ Len(acc) = n
  BY <1>8, <1>10, FunctionToSequence
<1>12. /\ s = [r EXCEPT !.acceptance = acc]
       /\ {"index", "acceptance"} \subseteq DOMAIN r /\ r.index \in Word
  BY <1>3 DEF RowFine, acc
<1> HIDE DEF s
<1>13. /\ DOMAIN s = DOMAIN r /\ s.index = r.index /\ s.acceptance = acc
       /\ s = [x \in DOMAIN s |-> s[x]]
  BY <1>12
<1>14. n <= Len(columns)
  BY <1>1, <1>2, <1>8
<1> QED BY <1>9, <1>10, <1>11, <1>12, <1>13, <1>14 DEF RowFine, s

\* What sync_tables makes of the rows that it keeps.
SyncedRows(rows, columns, k) == [i \in DOMAIN rows |-> sync_acceptance(rows[i], columns, k)]

\* Rows that sync_to_knowledgebase read anew say what the knowledgebase says.
LEMMA SyncedRowsAreFine ==
    ASSUME NEW columns, Sequence(columns), NEW old, NEW j, NEW rows, RowsFine(rows, old, j), NEW k
    PROVE  /\ RowsFine(SyncedRows(rows, columns, k), columns, k)
           /\ SameWords(rows, SyncedRows(rows, columns, k))
<1> DEFINE s == SyncedRows(rows, columns, k)
           n == Len(rows)
<1>1. /\ Sequence(rows) /\ n \in Nat /\ DOMAIN rows = 1..n
      /\ \A i \in 1..n : rows[i] \in Range(rows)
  BY SequenceFacts DEF RowsFine
<1>2. s = [i \in 1..n |-> s[i]] /\ \A i \in 1..n : s[i] = sync_acceptance(rows[i], columns, k)
  BY <1>1 DEF SyncedRows
<1> HIDE DEF s, n
<1>3. Sequence(s) /\ Len(s) = n /\ Range(s) = {s[i] : i \in 1..n}
  BY <1>1, <1>2, FunctionToSequence
<1>4. ASSUME NEW i \in 1..n PROVE RowFine(s[i], columns, k) /\ s[i].index = rows[i].index
  <2>1. RowFine(rows[i], old, j)
    BY <1>1 DEF RowsFine
  <2>2. LET e == sync_acceptance(rows[i], columns, k)
        IN  RowFine(e, columns, k) /\ e.index = rows[i].index
    BY <2>1, SyncedRowIsFine
  <2> QED BY <1>2, <2>2
<1> QED BY <1>3, <1>4 DEF RowsFine, SameWords, s, n

(***************************************************************************)
(* Rows that are left, and rows that come down.                            *)
(***************************************************************************)
LEMMA KeptRowsAreFine ==
    ASSUME NEW columns, NEW k, NEW rows, RowsFine(rows, columns, k), NEW S
    PROVE  RowsFine(OnlyIn(rows, S), columns, k)
BY KeptFacts DEF RowsFine

\* Rows that come down are unstamped.
Unstamped(rows) == [i \in DOMAIN rows |-> [rows[i] EXCEPT !.lt_timestamp = 0]]

\* A row's timestamp says nothing of its cells.
LEMMA UnstampedAreFine ==
    ASSUME NEW columns, NEW k, NEW rows, RowsFine(rows, columns, k)
    PROVE  RowsFine(Unstamped(rows), columns, k)
<1> DEFINE s == Unstamped(rows)
           n == Len(rows)
<1>1. /\ n \in Nat /\ DOMAIN rows = 1..n
      /\ \A i \in 1..n : RowFine(rows[i], columns, k)
  <2>1. Sequence(rows)
    BY DEF RowsFine
  <2> QED BY <2>1, SequenceFacts DEF RowsFine
<1>2. s = [i \in 1..n |-> s[i]] /\ \A i \in 1..n : s[i] = [rows[i] EXCEPT !.lt_timestamp = 0]
  BY <1>1 DEF Unstamped
<1> HIDE DEF s, n
<1>3. Sequence(s) /\ Range(s) = {s[i] : i \in 1..n}
  BY <1>1, <1>2, FunctionToSequence
<1>4. ASSUME NEW i \in 1..n PROVE RowFine(s[i], columns, k)
  <2>1. s[i] = [rows[i] EXCEPT !.lt_timestamp = 0] /\ RowFine(rows[i], columns, k)
    BY <1>1, <1>2
  <2>2. {"index", "acceptance"} \subseteq DOMAIN rows[i]
    BY <2>1 DEF RowFine
  <2>3. /\ DOMAIN s[i] = DOMAIN rows[i] /\ s[i].index = rows[i].index
        /\ s[i].acceptance = rows[i].acceptance
        /\ s[i] = [x \in DOMAIN s[i] |-> s[i][x]]
    BY <2>1, <2>2
  <2> QED BY <2>1, <2>3 DEF RowFine
<1> QED BY <1>3, <1>4 DEF RowsFine, s

(***************************************************************************)
(* The columns that are left are the first ones.                           *)
(***************************************************************************)
LEMMA SyncedColumnsAreFine ==
    ASSUME NEW k, NEW t, TableFine(t, k), NEW now
    PROVE  LET c == sync_columns(t, now)
           IN  /\ HeadFine(c) /\ ColumnsFine(c) /\ Changed(t, c, {"column_names", "column_timestamps"})
               /\ t.type = "nl" => c.column_names = <<>>
<1> DEFINE S == {i \in DOMAIN t.column_timestamps : t.column_timestamps[i] < now}
           n == Max({0} \cup S)
           names == SubSeq(t.column_names, 1, n)
           stamps == SubSeq(t.column_timestamps, 1, n)
           c == sync_columns(t, now)
<1>1. /\ Members \subseteq DOMAIN t /\ HeadFine(t)
      /\ t.column_names \in Seq(Word) /\ IsInjective(t.column_names)
      /\ t.type # "nl" => Sequence(t.column_timestamps) /\ Len(t.column_timestamps) = Len(t.column_names)
      /\ t.type = "nl" => t.column_timestamps = <<>>
  BY DEF TableFine, HeadFine, ColumnsFine
<1>2. /\ Sequence(t.column_names) /\ Range(t.column_names) \subseteq Word
      /\ Sequence(t.column_timestamps) /\ Len(t.column_timestamps) <= Len(t.column_names)
      /\ t.type = "nl" => Len(t.column_timestamps) = 0
  <2>1. Sequence(t.column_names) /\ Range(t.column_names) \subseteq Word /\ Len(t.column_names) \in Nat
    BY <1>1, SequenceOf, SequenceFacts
  <2> QED BY <1>1, <2>1, EmptySequence
<1>3. Len(t.column_timestamps) \in Nat /\ DOMAIN t.column_timestamps = 1..Len(t.column_timestamps)
      /\ Len(t.column_names) \in Nat
  BY <1>2, SequenceFacts
<1>4. n \in 0..Len(t.column_timestamps)
  <2> DEFINE X == {0} \cup S
  <2>1. X \in SUBSET (0..Len(t.column_timestamps)) /\ X # {}
    BY <1>3
  <2> HIDE DEF X
  <2>2. X \subseteq Int
    BY <1>3, <2>1
  <2>3. IsFiniteSet(X)
    <3>1. IsFiniteSet(0..Len(t.column_timestamps))
      BY <1>3, FS_Interval
    <3> QED BY <2>1, <3>1, FS_Subset
  <2>4. Max(X) \in X
    BY <2>1, <2>2, <2>3, FiniteSetHasMax
  <2>5. Max(X) \in 0..Len(t.column_timestamps)
    BY <2>1, <2>4
  <2> QED BY <2>5 DEF X
<1>5. c = [t EXCEPT !.column_names = names, !.column_timestamps = stamps]
  BY DEF sync_columns
<1> HIDE DEF n
<1>6. n \in Int /\ n <= Len(t.column_names) /\ n <= Len(t.column_timestamps) /\ 1 \in Nat /\ 1 > 0
      /\ n - 1 + 1 = n /\ (IF 1 <= n THEN n - 1 + 1 ELSE 0) = n /\ n \in Nat
  BY <1>2, <1>3, <1>4
<1>7. /\ Sequence(names) /\ Range(names) \subseteq Range(t.column_names) /\ Len(names) = n
      /\ \A i \in 1..n : names[i] = t.column_names[1 + i - 1]
  <2>1. /\ Sequence(names) /\ Range(names) \subseteq Range(t.column_names)
        /\ Len(names) = IF 1 <= n THEN n - 1 + 1 ELSE 0
        /\ \A i \in 1..(n - 1 + 1) : names[i] = t.column_names[1 + i - 1]
    <3> DEFINE ns == t.column_names
    <3>1. names = SubSeq(ns, 1, n) /\ Sequence(ns) /\ n \in Int /\ n <= Len(ns) /\ 1 \in Nat /\ 1 > 0
      BY <1>2, <1>6
    <3> HIDE DEF names, ns
    <3>2. /\ Sequence(SubSeq(ns, 1, n)) /\ Range(SubSeq(ns, 1, n)) \subseteq Range(ns)
          /\ Len(SubSeq(ns, 1, n)) = IF 1 <= n THEN n - 1 + 1 ELSE 0
          /\ \A i \in 1..(n - 1 + 1) : SubSeq(ns, 1, n)[i] = ns[1 + i - 1]
      BY <3>1, PartFacts
    <3> QED BY <3>1, <3>2 DEF ns
  <2> HIDE DEF names
  <2> QED BY <1>6, <2>1
<1>8. Sequence(stamps) /\ Len(stamps) = n
  <2>1. Sequence(stamps) /\ Len(stamps) = IF 1 <= n THEN n - 1 + 1 ELSE 0
    BY <1>2, <1>6, PartFacts
  <2> HIDE DEF stamps
  <2> QED BY <1>6, <2>1
<1> HIDE DEF names, stamps
<1>9. IsInjective(names)
  <2>1. DOMAIN names = 1..n /\ DOMAIN t.column_names = 1..Len(t.column_names)
    BY <1>2, <1>7, SequenceFacts
  <2>2. \A i \in 1..n : names[i] = t.column_names[i] /\ i \in 1..Len(t.column_names)
    <3> SUFFICES ASSUME NEW i \in 1..n PROVE names[i] = t.column_names[i] /\ i \in 1..Len(t.column_names)
      OBVIOUS
    <3>1. 1 + i - 1 = i /\ i \in 1..Len(t.column_names)
      BY <1>3, <1>6
    <3> QED BY <1>7, <3>1
  <2> QED BY <1>1, <2>1, <2>2 DEF IsInjective
<1>10. /\ Changed(t, c, {"column_names", "column_timestamps"})
       /\ c.column_names = names /\ c.column_timestamps = stamps
       /\ c.type = t.type /\ c.alphabet_size = t.alphabet_size /\ c.initialized = t.initialized
  BY <1>1, <1>5 DEF Changed, Members
<1>11. names \in Seq(Word)
  BY <1>2, <1>7, SequenceWithin
<1>12. t.type = "nl" => names = <<>> /\ stamps = <<>>
  BY <1>2, <1>4, <1>7, <1>8, SequenceFacts
<1> HIDE DEF c
<1>13. HeadFine(c)
  <2>1. t.type = "rs" => /\ c.counterexample = t.counterexample /\ c.cex_front = t.cex_front
                         /\ c.cex_back = t.cex_back /\ c.cex_latest_bad = t.cex_latest_bad
    BY <1>1, <1>10 DEF Changed, HeadFine, SearchMembers
  <2> QED BY <1>1, <1>10, <2>1 DEF Changed, HeadFine
<1>14. ColumnsFine(c)
  BY <1>7, <1>8, <1>9, <1>10, <1>11, <1>12 DEF ColumnsFine
<1> QED BY <1>10, <1>12, <1>13, <1>14 DEF c

(***************************************************************************)
(* The rows that are left have the cells that are still known.             *)
(***************************************************************************)
LEMMA SyncTablesIsFine ==
    ASSUME NEW t, HeadFine(t), ColumnsFine(t), t.initialized, NEW old, NEW j,
           RowsFine(t.upper_table, old, j), RowsFine(t.lower_table, old, j), Distinct(t.upper_table),
           NEW k, sync_tables(t, k).initialized
    PROVE  TableFine(sync_tables(t, k), k) /\ sync_tables(t, k).type = t.type
<1> DEFINE now == k.timestamp
           above == Range(t.upper_table)
           D == {r \in above : r.ut_timestamp >= now /\ goes_down(r, now)}
           U == {r \in above : r.ut_timestamp < now}
           L == {r \in Range(t.lower_table) : r.lt_timestamp < now}
           down == OnlyIn(t.upper_table, D)
           upper == OnlyIn(t.upper_table, U)
           rest == OnlyIn(t.lower_table, L)
           lower == rest \o Unstamped(down)
           s == sync_tables(t, k)
<1>0. Members \subseteq DOMAIN t
  BY DEF HeadFine
<1>1. s = IF upper = <<>> \/ lower = <<>> THEN Reset(t)
          ELSE [t EXCEPT !.upper_table = SyncedRows(upper, t.column_names, k),
                         !.lower_table = SyncedRows(lower, t.column_names, k)]
  BY DEF sync_tables, Unstamped, SyncedRows
<1> HIDE DEF D, U, L
<1>2. /\ RowsFine(down, old, j) /\ RowsFine(upper, old, j) /\ RowsFine(rest, old, j)
      /\ Distinct(upper)
  BY KeptRowsAreFine, KeptDistinct DEF RowsFine
<1>3. RowsFine(Unstamped(down), old, j)
  BY <1>2, UnstampedAreFine
<1> HIDE DEF down, rest, upper
<1>4. RowsFine(lower, old, j)
  <2>1. Sequence(rest) /\ Sequence(Unstamped(down))
    BY <1>2, <1>3 DEF RowsFine
  <2>2. Sequence(lower) /\ Range(lower) = Range(rest) \cup Range(Unstamped(down))
    BY <2>1, ConcatFacts
  <2> HIDE DEF lower
  <2> QED BY <1>2, <1>3, <2>2 DEF RowsFine
<1> HIDE DEF lower
<1>5. ~(upper = <<>> \/ lower = <<>>)
  BY <1>0, <1>1 DEF Reset, Members, s
<1> HIDE DEF s
<1>6. /\ Changed(t, s, {"upper_table", "lower_table"})
      /\ s.upper_table = SyncedRows(upper, t.column_names, k)
      /\ s.lower_table = SyncedRows(lower, t.column_names, k)
      /\ s.type = t.type /\ s.initialized = t.initialized /\ s.alphabet_size = t.alphabet_size
      /\ s.column_names = t.column_names /\ s.column_timestamps = t.column_timestamps
  BY <1>0, <1>1, <1>5 DEF Changed, Members
<1>7. Sequence(t.column_names)
  BY SequenceOf DEF ColumnsFine
<1>8. /\ RowsFine(s.upper_table, s.column_names, k) /\ SameWords(upper, s.upper_table)
      /\ RowsFine(s.lower_table, s.column_names, k)
  BY <1>2, <1>4, <1>6, <1>7, SyncedRowsAreFine
<1>9. Distinct(s.upper_table) /\ s.upper_table # <<>>
  BY <1>2, <1>5, <1>8, SameWordsSameSet DEF RowsFine
<1>10. HeadFine(s)
  <2>1. t.type = "rs" => /\ s.counterexample = t.counterexample /\ s.cex_front = t.cex_front
                         /\ s.cex_back = t.cex_back /\ s.cex_latest_bad = t.cex_latest_bad
    BY <1>6 DEF Changed, HeadFine, SearchMembers
  <2> QED BY <1>6, <2>1 DEF Changed, HeadFine
<1>11. ColumnsFine(s) /\ StartFine(s)
  BY <1>6, <1>9 DEF ColumnsFine, StartFine
<1> QED BY <1>6, <1>8, <1>9, <1>10, <1>11 DEF TableFine, s

(***************************************************************************)
(* If something is left, it is fine; nothing is left of NL*'s table.       *)
(***************************************************************************)
LEMMA SyncIsFine ==
    ASSUME NEW j, NEW t, TableFine(t, j), NEW k, sync_to_knowledgebase(t, k).initialized
    PROVE  LET s == sync_to_knowledgebase(t, k)
           IN  TableFine(s, k) /\ s.type = t.type /\ s.type # "nl"
<1> DEFINE c == sync_columns(t, k.timestamp)
           s == sync_to_knowledgebase(t, k)
<1>1. s = IF ~t.initialized THEN t ELSE IF c.column_names = <<>> THEN Reset(c) ELSE sync_tables(c, k)
  BY DEF sync_to_knowledgebase
<1>2. /\ HeadFine(c) /\ ColumnsFine(c) /\ Changed(t, c, {"column_names", "column_timestamps"})
      /\ t.type = "nl" => c.column_names = <<>>
  BY SyncedColumnsAreFine
<1> HIDE DEF c
<1>3. /\ c.type = t.type /\ c.initialized = t.initialized
      /\ c.upper_table = t.upper_table /\ c.lower_table = t.lower_table
      /\ Members \subseteq DOMAIN c
  BY <1>2 DEF TableFine, HeadFine, Changed, Members
<1>4. ~Reset(c).initialized
  BY <1>3 DEF Reset, Members
<1>5. t.initialized /\ c.column_names # <<>> /\ s = sync_tables(c, k)
  BY <1>1, <1>4
<1>6. TableFine(sync_tables(c, k), k) /\ sync_tables(c, k).type = c.type
  <2>1. /\ RowsFine(c.upper_table, t.column_names, j) /\ RowsFine(c.lower_table, t.column_names, j)
        /\ Distinct(c.upper_table) /\ c.initialized
    BY <1>3, <1>5 DEF TableFine
  <2>2. sync_tables(c, k).initialized
    BY <1>5
  <2> QED BY <1>2, <2>1, <2>2, SyncTablesIsFine
<1> QED BY <1>2, <1>3, <1>5, <1>6

(***************************************************************************)
(* A new table is fine, and so is one that was saved and loaded.           *)
(***************************************************************************)
LEMMA NewIsFine ==
    ASSUME NEW type \in {"simple", "col", "rs", "nl"}, NEW asize, Alphabet(asize),
           type = "nl" => Answers \subseteq {"yes", "no"}
    PROVE  LET s == New(type, asize)
           IN  /\ \A k : TableFine(s, k)
               /\ s.type = type /\ s.alphabet_size = asize /\ HasSuccessors(s)
<1> DEFINE s == New(type, asize)
           e == EmptyTable(type, asize)
<1>1. /\ Members \subseteq DOMAIN s /\ s.type = type /\ s.alphabet_size = asize
      /\ s.initialized = FALSE /\ s.column_names = <<>> /\ s.column_timestamps = <<>>
      /\ s.upper_table = <<>> /\ s.lower_table = <<>>
      /\ type = "rs" => /\ SearchMembers \subseteq DOMAIN s
                        /\ s.counterexample = <<>>
                        /\ s.cex_front = -1 /\ s.cex_back = -1 /\ s.cex_latest_bad = -1
  <2>1. CASE type = "rs"
    <3>1. s = EmptyRSTable(asize)
      BY <2>1 DEF New
    <3> HIDE DEF s
    <3> QED BY <2>1, <3>1 DEF EmptyRSTable, Members, SearchMembers
  <2>2. CASE type # "rs"
    <3>1. s = e
      BY <2>2 DEF New
    <3> HIDE DEF s
    <3> QED BY <2>2, <3>1 DEF EmptyTable, Members
  <2> QED BY <2>1, <2>2
<1> HIDE DEF s
<1>2. HeadFine(s)
  <2>1. <<>> \in Word /\ -1 \in Int
    BY EmptyWord
  <2> QED BY <1>1, <2>1 DEF HeadFine
<1>3. ColumnsFine(s)
  <2>1. <<>> \in Seq(Word) /\ IsInjective(<<>>)
    BY DEF IsInjective
  <2>2. Len(<<>>) = Len(<<>>) /\ Sequence(<<>>)
    BY EmptySequence
  <2> QED BY <1>1, <2>1, <2>2 DEF ColumnsFine
<1>4. StartFine(s)
  BY <1>1, EmptySequence DEF StartFine
<1>5. \A k : RowsFine(<<>>, <<>>, k)
  BY EmptySequence DEF RowsFine
<1>6. Distinct(<<>>)
  <2>1. 1..Len(<<>>) = {}
    BY EmptySequence
  <2> QED BY <2>1 DEF Distinct
<1>7. HasSuccessors(s)
  <2>1. Words(<<>>) = {}
    BY DEF Words
  <2> QED BY <1>1, <2>1 DEF HasSuccessors
<1> QED BY <1>1, <1>2, <1>3, <1>4, <1>5, <1>6, <1>7 DEF TableFine, s

\* deserialize() takes a table that was saved for an initialized one.
LEMMA TableReloadIsFine ==
    ASSUME NEW k, NEW t, TableFine(t, k), t.lower_table # <<>>
    PROVE  TableFine([t EXCEPT !.initialized = TRUE], k) /\ Grown(t, [t EXCEPT !.initialized = TRUE])
<1> DEFINE s == [t EXCEPT !.initialized = TRUE]
<1>0. Members \subseteq DOMAIN t /\ HeadFine(t)
  BY DEF TableFine, HeadFine
<1>1. /\ Changed(t, s, {"initialized"}) /\ s.initialized = TRUE
      /\ s.type = t.type /\ s.alphabet_size = t.alphabet_size
      /\ s.column_names = t.column_names /\ s.column_timestamps = t.column_timestamps
      /\ s.upper_table = t.upper_table /\ s.lower_table = t.lower_table
  BY <1>0 DEF Changed, Members
<1> HIDE DEF s
<1>2. HeadFine(s)
  <2>1. t.type = "rs" => /\ s.counterexample = t.counterexample /\ s.cex_front = t.cex_front
                         /\ s.cex_back = t.cex_back /\ s.cex_latest_bad = t.cex_latest_bad
    BY <1>0, <1>1 DEF Changed, HeadFine, SearchMembers
  <2> QED BY <1>0, <1>1, <2>1 DEF Changed, HeadFine
<1>3. ColumnsFine(s) /\ StartFine(s)
  BY <1>1 DEF TableFine, ColumnsFine, StartFine
<1>4. TableFine(s, k)
  BY <1>1, <1>2, <1>3 DEF TableFine
<1> QED BY <1>1, <1>4, SameRowsIsGrown DEF s

\* s can be used in place of t.
Usable(k, t, s) ==
    TableFine(s, k) /\ s.type = t.type /\ s.alphabet_size = t.alphabet_size
    /\ (HasSuccessors(t) => HasSuccessors(s))

\* Saved and loaded, whichever the algorithm, or begun anew.
LEMMA ReloadedIsFine ==
    ASSUME TableFine(alg, kb)
    PROVE  Usable(kb, alg, Reloaded)
<1> DEFINE loaded == CASE alg.type = "rs" -> rs_reload(alg)
                       [] alg.type = "nl" -> nl_reload(alg)
                       [] OTHER -> table_reload(alg)
           new == New(alg.type, alg.alphabet_size)
<1>0. Members \subseteq DOMAIN alg /\ HeadFine(alg)
  BY DEF TableFine, HeadFine
<1>1. Reloaded = IF loaded.alphabet_size = 0 THEN new ELSE loaded
  BY DEF Reloaded
<1>2. Usable(kb, alg, new)
  BY <1>0, NewIsFine DEF Usable, HeadFine
<1>3. CASE alg.type \in {"simple", "col"}
  <2>1. loaded = table_reload(alg)
    BY <1>3
  <2>2. CASE alg.lower_table = <<>>
    <3>1. loaded.alphabet_size = 0
      BY <2>1, <2>2 DEF table_reload, EmptyTable
    <3> QED BY <1>1, <1>2, <3>1
  <2>3. CASE alg.lower_table # <<>>
    <3>1. loaded = [alg EXCEPT !.initialized = TRUE]
      BY <2>1, <2>3 DEF table_reload
    <3>2. Usable(kb, alg, loaded)
      BY <2>3, <3>1, TableReloadIsFine DEF Usable, Grown
    <3> QED BY <1>1, <1>2, <3>2
  <2> QED BY <2>2, <2>3
<1>4. CASE alg.type = "rs"
  <2>1. loaded = rs_reload(alg)
    BY <1>4
  <2>2. CASE alg.lower_table = <<>>
    <3>1. loaded = EmptyRSTable(0)
      BY <2>1, <2>2 DEF rs_reload
    <3>2. New("rs", 0) = EmptyRSTable(0)
      BY DEF New
    <3>3. Alphabet(0)
      BY DEF Alphabet
    <3>4. New("rs", 0).alphabet_size = 0
      BY <3>3, NewIsFine
    <3> QED BY <1>1, <1>2, <3>1, <3>2, <3>4
  <2>3. CASE alg.lower_table # <<>>
    <3> DEFINE i == [alg EXCEPT !.initialized = TRUE]
               o == CexModeOff(i)
               s == [o EXCEPT !.counterexample = <<>>, !.latest_cj = NoConjecture,
                              !.latest_cj_statemapping = <<>>]
    <3>1. loaded = s
      BY <2>1, <2>3 DEF rs_reload, table_reload
    <3>2. TableFine(i, kb) /\ Grown(alg, i)
      BY <2>3, TableReloadIsFine
    <3> HIDE DEF i
    <3>3. i.type = "rs"
      BY <1>4, <3>2 DEF Grown
    <3>4. TableFine(o, kb) /\ Grown(i, o)
      BY <3>2, <3>3, CexModeOffIsFine
    <3> HIDE DEF o
    <3>5. o.type = "rs" /\ SearchMembers \cup Members \subseteq DOMAIN o /\ HeadFine(o)
      BY <3>3, <3>4 DEF TableFine, HeadFine, Grown
    <3>6. /\ Changed(o, s, SearchMembers) /\ s.type = o.type
          /\ s.alphabet_size = o.alphabet_size /\ s.initialized = o.initialized
          /\ s.counterexample = <<>>
          /\ s.cex_front = o.cex_front /\ s.cex_back = o.cex_back
          /\ s.cex_latest_bad = o.cex_latest_bad
      BY <3>5 DEF Changed, SearchMembers, Members
    <3> HIDE DEF s
    <3>7. HeadFine(s)
      BY <3>5, <3>6, EmptyWord DEF HeadFine, Changed
    <3>8. TableFine(s, kb) /\ Grown(o, s)
      BY <3>4, <3>6, <3>7, SearchIsFine
    <3>9. Grown(alg, s)
      BY <3>2, <3>4, <3>8, GrownFacts
    <3> QED BY <1>1, <1>2, <3>1, <3>8, <3>9 DEF Usable, Grown
  <2> QED BY <2>2, <2>3
<1>5. CASE alg.type = "nl"
  <2> DEFINE s == nl_reload(alg)
  <2>1. loaded = s
    BY <1>5
  <2>2. /\ Members \subseteq DOMAIN s /\ s.type = "nl" /\ s.alphabet_size = alg.alphabet_size
        /\ s.column_names = alg.column_names /\ s.column_timestamps = <<>>
        /\ s.initialized = alg.initialized
        /\ s.upper_table = alg.upper_table /\ s.lower_table = alg.lower_table
    BY DEF nl_reload, EmptyTable, Members
  <2> HIDE DEF s
  <2>3. HeadFine(s)
    BY <1>0, <1>5, <2>2 DEF HeadFine
  <2>4. ColumnsFine(s) /\ StartFine(s)
    BY <1>5, <2>2 DEF TableFine, ColumnsFine, StartFine
  <2>5. TableFine(s, kb)
    BY <2>2, <2>3, <2>4 DEF TableFine
  <2>6. Grown(alg, s)
    BY <1>5, <2>2, SameRowsIsGrown
  <2>7. Usable(kb, alg, loaded)
    BY <2>1, <2>5, <2>6 DEF Usable, Grown
  <2> QED BY <1>1, <1>2, <2>7
<1> QED BY <1>0, <1>3, <1>4, <1>5 DEF HeadFine

-----------------------------------------------------------------------------
(* The invariant.                                                            *)

LearnerFine ==
    /\ target \in Targets
    /\ KnowledgeFine(kb) /\ TableFine(alg, kb) /\ (alg.type = "nl" => AsksWords(kb))
    /\ ConjectureFine(conjecture)

\* A learner at its beginning is fine.
LEMMA FineAtFirst == Init => LearnerFine /\ HasSuccessors(alg)
<1> SUFFICES ASSUME Init PROVE LearnerFine /\ HasSuccessors(alg)
  OBVIOUS
<1>1. PICK start \in DOMAIN MaxUndos : alg = New(start[1], start[2])
  BY DEF Init
<1>2. /\ \A k : TableFine(New(start[1], start[2]), k)
      /\ HasSuccessors(New(start[1], start[2]))
  BY StartsAssumption, NewIsFine
<1>3. KnowledgeFine(EmptyKnowledgebase) /\ AsksWords(EmptyKnowledgebase)
  BY EmptySequence DEF EmptyKnowledgebase, KnowledgeFine, AsksWords, is_answered, Ignored
<1> QED BY <1>1, <1>2, <1>3 DEF Init, LearnerFine, ConjectureFine

\* advance() keeps the learner fine, and all rows of its table.
LEMMA AdvanceIsFine ==
    ASSUME LearnerFine, Advance
    PROVE  LearnerFine' /\ Grown(alg, alg')
<1> DEFINE c == Completed
           d == Delivered(c)
<1>1. ResultFine(alg, c)
  BY CompletedIsFine DEF LearnerFine
<1>2. kb' = d.kb /\ conjecture' = d.conjecture /\ alg' = d.alg /\ target' = target
  BY DEF Advance
<1> HIDE DEF c
<1>3. /\ KnowledgeFine(d.kb) /\ TableFine(d.alg, d.kb) /\ (d.alg.type = "nl" => AsksWords(d.kb))
      /\ Grown(alg, d.alg) /\ ConjectureFine(d.conjecture)
  BY <1>1, DeliveredIsFine
<1> HIDE DEF d
<1> QED BY <1>2, <1>3 DEF LearnerFine

\* add_knowledge() keeps the learner fine and does not touch it.
LEMMA AnswerIsFine ==
    ASSUME LearnerFine, AnswerQuery
    PROVE  LearnerFine' /\ alg' = alg
<1>1. /\ kb' = FirstAnswered(kb) /\ kb.required # <<>>
      /\ alg' = alg /\ conjecture' = conjecture /\ target' = target
  BY DEF AnswerQuery
<1>2. /\ KnowledgeFine(FirstAnswered(kb)) /\ Knows(kb, FirstAnswered(kb))
      /\ AsksWords(kb) => AsksWords(FirstAnswered(kb))
  BY <1>1, FirstAnsweredIsFine DEF LearnerFine
<1>3. TableFine(alg, FirstAnswered(kb))
  BY <1>2, TableLearns DEF LearnerFine
<1> QED BY <1>1, <1>2, <1>3 DEF LearnerFine

\* The letters of the language that NL* learns are those that it started with.
LettersKnown == alg.type = "nl" => target.input_alphabet_size <= alg.alphabet_size

\* add_counterexample() keeps the learner fine.
LEMMA CounterexampleIsFine ==
    ASSUME LearnerFine, AddCounterexample
    PROVE  /\ LearnerFine' /\ alg'.type = alg.type
           /\ LettersKnown /\ HasSuccessors(alg) => LettersKnown' /\ HasSuccessors(alg')
<1>1. PICK w \in Counterexamples(conjecture, MaxCounterexample), garbage \in Garbage :
         alg' = add_counterexample(w, garbage)
  BY DEF AddCounterexample
<1>2. kb' = kb /\ target' = target /\ conjecture' = NoConjecture
  BY DEF AddCounterexample
<1>3. /\ TableFine(alg, kb) /\ alg.type \in {"simple", "col", "rs", "nl"} /\ Alphabet(alg.alphabet_size)
      /\ target \in Targets
  BY DEF LearnerFine, TableFine, HeadFine
<1>4. /\ w \in Word /\ Alphabet(AlphabetOf(alg, w))
      /\ AlphabetOf(alg, w) = alg.alphabet_size \/ AlphabetOf(alg, w) <= target.input_alphabet_size
  BY <1>1, <1>3, CounterexampleFacts
<1>5. CASE alg.type # "nl"
  <2>1. Refined(kb, alg, alg')
    <3>1. CASE alg.type = "simple"
      BY <1>1, <1>3, <1>4, <3>1, SimpleCounterexampleIsFine DEF add_counterexample
    <3>2. CASE alg.type = "col"
      BY <1>1, <1>3, <1>4, <3>2, ColCounterexampleIsFine DEF add_counterexample
    <3>3. CASE alg.type = "rs"
      BY <1>1, <1>3, <1>4, <3>3, RSCounterexampleIsFine DEF add_counterexample
    <3> QED BY <1>3, <1>5, <3>1, <3>2, <3>3
  <2> QED BY <1>2, <1>5, <2>1 DEF Refined, LearnerFine, ConjectureFine, LettersKnown
<1>6. CASE alg.type = "nl"
  <2>1. alg' = nl_add_counterexample(alg, w)
    BY <1>1, <1>6 DEF add_counterexample
  <2>2. LET s == nl_add_counterexample(alg, w)
        IN  /\ TableFine(s, kb) /\ s.type = alg.type
            /\ AlphabetOf(alg, w) <= alg.alphabet_size => Grown(alg, s)
    BY <1>3, <1>4, <1>6, NLCounterexampleIsFine
  <2>3. /\ TableFine(alg', kb) /\ alg'.type = alg.type
        /\ AlphabetOf(alg, w) <= alg.alphabet_size => Grown(alg, alg')
    BY <2>1, <2>2
  <2>4. LettersKnown => AlphabetOf(alg, w) <= alg.alphabet_size
    <3>1. alg.alphabet_size \in Nat /\ target.input_alphabet_size \in Nat /\ AlphabetOf(alg, w) \in Nat
      BY <1>3, <1>4, TargetsAssumption DEF Alphabet, Teachable
    <3> QED BY <1>4, <1>6, <3>1 DEF LettersKnown
  <2> QED BY <1>2, <2>3, <2>4 DEF LearnerFine, ConjectureFine, LettersKnown, Grown
<1> QED BY <1>5, <1>6

\* undo() and sync_to_knowledgebase() keep the learner fine.
LEMMA UndoAndSyncIsFine ==
    ASSUME LearnerFine, UndoAndSync
    PROVE  LearnerFine'
<1>1. PICK count : LET k == undo(kb, count)
                       synced == sync_to_knowledgebase(alg, k)
                   IN  /\ kb' = k
                       /\ alg' = IF synced.initialized THEN synced
                                 ELSE New(alg.type, alg.alphabet_size)
  BY DEF UndoAndSync
<1>2. target' = target /\ conjecture' = NoConjecture
  BY DEF UndoAndSync
<1> DEFINE k == undo(kb, count)
           synced == sync_to_knowledgebase(alg, k)
<1>3. kb' = k /\ alg' = IF synced.initialized THEN synced ELSE New(alg.type, alg.alphabet_size)
  BY <1>1
<1>4. KnowledgeFine(k) /\ (AsksWords(kb) => AsksWords(k))
  BY UndoIsFine DEF LearnerFine
<1> HIDE DEF k
<1>5. CASE synced.initialized
  <2>1. TableFine(synced, k) /\ synced.type # "nl"
    BY <1>5, SyncIsFine DEF LearnerFine
  <2> QED BY <1>2, <1>3, <1>4, <1>5, <2>1 DEF LearnerFine, ConjectureFine
<1>6. CASE ~synced.initialized
  <2>1. TableFine(New(alg.type, alg.alphabet_size), k) /\ New(alg.type, alg.alphabet_size).type = alg.type
    <3>1. /\ alg.type \in {"simple", "col", "rs", "nl"} /\ Alphabet(alg.alphabet_size)
          /\ alg.type = "nl" => Answers \subseteq {"yes", "no"}
      BY DEF LearnerFine, TableFine, HeadFine
    <3> QED BY <3>1, NewIsFine
  <2>2. alg' = New(alg.type, alg.alphabet_size)
    BY <1>3, <1>6
  <2> QED BY <1>2, <1>3, <1>4, <2>1, <2>2 DEF LearnerFine, ConjectureFine
<1> QED BY <1>5, <1>6

\* serialize() and deserialize() keep the learner fine.
LEMMA SaveAndLoadIsFine ==
    ASSUME LearnerFine, SaveAndLoad
    PROVE  LearnerFine' /\ Usable(kb, alg, alg')
<1>1. alg' = Reloaded /\ kb' = kb /\ conjecture' = conjecture /\ target' = target
  BY DEF SaveAndLoad
<1>2. Usable(kb, alg, Reloaded)
  BY ReloadedIsFine DEF LearnerFine
<1> QED BY <1>1, <1>2 DEF LearnerFine, Usable

\* Whatever the user does, the learner stays fine.
LEMMA LearnerStaysFine ==
    ASSUME LearnerFine, [Next]_vars
    PROVE  LearnerFine'
<1>1. CASE Advance
  BY <1>1, AdvanceIsFine
<1>2. CASE AnswerQuery
  BY <1>2, AnswerIsFine
<1>3. CASE AddCounterexample
  BY <1>3, CounterexampleIsFine
<1>4. CASE UndoAndSync
  BY <1>4, UndoAndSyncIsFine
<1>5. CASE SaveAndLoad
  BY <1>5, SaveAndLoadIsFine
<1>6. CASE UNCHANGED vars
  BY <1>6 DEF vars, LearnerFine
<1> QED BY <1>1, <1>2, <1>3, <1>4, <1>5, <1>6 DEF Next

(***************************************************************************)
(* The learner is always fine.                                             *)
(***************************************************************************)
THEOREM LearnerAlwaysFine == Spec => []LearnerFine
<1>1. Init => LearnerFine
  BY FineAtFirst
<1>2. LearnerFine /\ [Next]_vars => LearnerFine'
  BY LearnerStaysFine
<1> QED BY <1>1, <1>2, PTL DEF Spec

(***************************************************************************)
(* However the table is filled, grows, shrinks by an undo or is loaded:    *)
(* every cell of it can be resolved in the knowledgebase, to the answer    *)
(* that is in the cell.                                                    *)
(***************************************************************************)
THEOREM TableIsKnown == Spec => []CellsKnown
<1>1. LearnerFine => CellsKnown
  <2> SUFFICES ASSUME LearnerFine, NEW r \in Rows, NEW c \in DOMAIN r.acceptance
               PROVE  LET w == r.index \o alg.column_names[c]
                      IN  Resolvable(kb, w) /\ resolve_query(kb, w) = r.acceptance[c]
    BY DEF CellsKnown
  <2>1. RowFine(r, alg.column_names, kb)
    BY DEF Rows, LearnerFine, TableFine, RowsFine
  <2>2. c \in 1..Len(r.acceptance)
    BY <2>1, SequenceFacts DEF RowFine
  <2> QED BY <2>1, <2>2 DEF RowFine
<1> QED BY <1>1, LearnerAlwaysFine, PTL

(***************************************************************************)
(* The type invariant: in particular the upper rows remain distinct words  *)
(* and the columns distinct, and a conjecture has a state.                 *)
(***************************************************************************)
THEOREM TypesAreRight == Spec => []TypeOK
<1>1. LearnerFine => TypeOK
  <2> SUFFICES ASSUME LearnerFine PROVE TypeOK
    OBVIOUS
  <2>1. TableFine(alg, kb) /\ ConjectureFine(conjecture)
    BY DEF LearnerFine
  <2>2. \A r \in Rows : r.index \in Word /\ Len(r.acceptance) <= Len(alg.column_names)
    BY <2>1 DEF Rows, TableFine, RowsFine, RowFine
  <2>3. IsInjective([i \in DOMAIN alg.upper_table |-> alg.upper_table[i].index])
    <3>1. DOMAIN alg.upper_table = 1..Len(alg.upper_table)
      BY <2>1, SequenceFacts DEF TableFine, RowsFine
    <3> QED BY <2>1, <3>1 DEF TableFine, Distinct, IsInjective
  <2>4. alg.type # "nl" => Len(alg.column_names) = Len(alg.column_timestamps)
    BY <2>1 DEF TableFine, ColumnsFine
  <2>5. IsInjective(alg.column_names)
    BY <2>1 DEF TableFine, ColumnsFine
  <2>6. conjecture # NoConjecture => conjecture.state_count > 0
    BY <2>1 DEF ConjectureFine
  <2> QED BY <2>2, <2>3, <2>4, <2>5, <2>6 DEF TypeOK
<1> QED BY <1>1, LearnerAlwaysFine, PTL

(***************************************************************************)
(* If the successors are there, as long as nothing is undone, close(),     *)
(* make_consistent(), new letters and counterexamples never lose one.      *)
(***************************************************************************)
NothingUndone == \A start \in DOMAIN MaxUndos : MaxUndos[start] = 0
\* NL* is started with all the letters of the languages.
AlphabetsGiven ==
    \A start \in DOMAIN MaxUndos, m \in Targets :
        start[1] = "nl" => m.input_alphabet_size <= start[2]

SuccessorsKept == LearnerFine /\ undos = 0 /\ LettersKnown /\ HasSuccessors(alg)

\* Without undos, whatever the user does, the successors stay.
LEMMA SuccessorsStay ==
    ASSUME SuccessorsKept, [Next]_vars
    PROVE  SuccessorsKept'
<1>1. LearnerFine' /\ LearnerFine
  BY LearnerStaysFine DEF SuccessorsKept
<1>2. CASE Advance
  <2>1. Grown(alg, alg')
    BY <1>1, <1>2, AdvanceIsFine
  <2>2. undos' = undos /\ target' = target
    BY <1>2 DEF Advance
  <2> QED BY <1>1, <2>1, <2>2 DEF SuccessorsKept, Grown, LettersKnown
<1>3. CASE AnswerQuery
  <2>1. alg' = alg /\ undos' = undos /\ target' = target
    BY <1>3 DEF AnswerQuery
  <2> QED BY <1>1, <2>1 DEF SuccessorsKept, LettersKnown
<1>4. CASE AddCounterexample
  <2>1. LettersKnown' /\ HasSuccessors(alg')
    BY <1>1, <1>4, CounterexampleIsFine DEF SuccessorsKept
  <2>2. undos' = undos
    BY <1>4 DEF AddCounterexample
  <2> QED BY <1>1, <2>1, <2>2 DEF SuccessorsKept
<1>5. CASE UndoAndSync
  BY <1>5 DEF UndoAndSync, SuccessorsKept
<1>6. CASE SaveAndLoad
  <2>1. Usable(kb, alg, alg')
    BY <1>1, <1>6, SaveAndLoadIsFine
  <2>2. undos' = undos /\ target' = target
    BY <1>6 DEF SaveAndLoad
  <2> QED BY <1>1, <2>1, <2>2 DEF SuccessorsKept, Usable, LettersKnown
<1>7. CASE UNCHANGED vars
  BY <1>1, <1>7 DEF vars, SuccessorsKept, LettersKnown
<1> QED BY <1>2, <1>3, <1>4, <1>5, <1>6, <1>7 DEF Next

(***************************************************************************)
(* The rows that make_consistent and derive_conjecture look up unseen are  *)
(* there, if nothing is undone and NL* knows the alphabet.                 *)
(***************************************************************************)
THEOREM SuccessorsStayPresent ==
    ASSUME NothingUndone, AlphabetsGiven
    PROVE  Spec => []SuccessorsPresent
<1>1. Init => SuccessorsKept
  <2> SUFFICES ASSUME Init PROVE SuccessorsKept
    OBVIOUS
  <2>1. PICK start \in DOMAIN MaxUndos : alg = New(start[1], start[2]) /\ undos = MaxUndos[start]
    BY DEF Init
  <2>2. New(start[1], start[2]).type = start[1] /\ New(start[1], start[2]).alphabet_size = start[2]
    BY StartsAssumption, NewIsFine
  <2>3. target \in Targets
    BY DEF Init
  <2>4. LettersKnown
    BY <2>1, <2>2, <2>3 DEF LettersKnown, AlphabetsGiven
  <2> QED BY <2>1, <2>4, FineAtFirst DEF SuccessorsKept, NothingUndone
<1>2. SuccessorsKept /\ [Next]_vars => SuccessorsKept'
  BY SuccessorsStay
<1>3. SuccessorsKept => SuccessorsPresent
  <2> SUFFICES ASSUME SuccessorsKept, NEW r \in Range(alg.upper_table), NEW a \in 0..(alg.alphabet_size - 1)
               PROVE  InTables(alg, Append(r.index, a))
    BY DEF SuccessorsPresent
  <2>1. r.index \in Words(alg.upper_table)
    BY WordsOf DEF SuccessorsKept, LearnerFine, TableFine, RowsFine
  <2> QED BY <2>1 DEF SuccessorsKept, HasSuccessors
<1> QED BY <1>1, <1>2, <1>3, PTL DEF Spec

-----------------------------------------------------------------------------
(* conjecture_ready(). *)

\* A result f that is ready and leaves what the conjecture is read from as it is in t.
SameTable(t, f) ==
    /\ f.ready /\ f.again = FALSE
    /\ f.alg.type = t.type /\ f.alg.alphabet_size = t.alphabet_size
    /\ f.alg.column_names = t.column_names
    /\ f.alg.upper_table = t.upper_table /\ f.alg.lower_table = t.lower_table

(***************************************************************************)
(* Filling a full table changes nothing.                                   *)
(***************************************************************************)
LEMMA FullStaysSame ==
    ASSUME NEW k, KnowledgeFine(k), NEW t, TableFine(t, k), t.initialized, FullTable(t)
    PROVE  SameTable(t, FillTables(t, k))
<1>2. LET f == FillTables(t, k)
      IN  /\ f.again = FALSE /\ f.ready
          /\ Changed(t, f.alg, {"upper_table", "lower_table"})
          /\ f.alg.upper_table = t.upper_table /\ f.alg.lower_table = t.lower_table
  BY FillTablesIsFine
<1>3. Members \subseteq DOMAIN t
  BY DEF TableFine, HeadFine
<1> QED BY <1>2, <1>3 DEF Changed, Members, SameTable

\* complete() on a table for which conjecture_ready() said yes.
LEMMA ReadyCompletes ==
    ASSUME NEW k, KnowledgeFine(k), NEW t, TableFine(t, k),
           \/ t.type \in {"simple", "col"} /\ conjecture_ready(t)
           \/ t.type = "nl" /\ nl_conjecture_ready(t)
    PROVE  LET c == IF t.type = "nl" THEN nl_complete(t, k) ELSE complete(t, k)
           IN  c.ready /\ ~c.again
<1> DEFINE f == FillTables(t, k)
<1>1. t.initialized /\ columns_filled(t)
  BY DEF conjecture_ready, nl_conjecture_ready
<1>2. /\ f.ready /\ f.again = FALSE
      /\ f.alg.type = t.type /\ f.alg.alphabet_size = t.alphabet_size
      /\ f.alg.column_names = t.column_names
      /\ f.alg.upper_table = t.upper_table /\ f.alg.lower_table = t.lower_table
  <2>1. FullTable(t)
    BY <1>1 DEF columns_filled, FullTable, Full
  <2>2. SameTable(t, FillTables(t, k))
    BY <1>1, <2>1, FullStaysSame
  <2> QED BY <2>2 DEF SameTable
<1>3. CASE t.type \in {"simple", "col"} /\ conjecture_ready(t)
  <2>1. complete(t, k) = CASE ~f.ready -> f
                           [] f.ready /\ Unmatched(f.alg) > 0 ->
                                 Again(close(f.alg, f.kb.timestamp), f.kb)
                           [] f.ready /\ Unmatched(f.alg) = 0 ->
                                 IF f.alg.type = "simple" /\ Conflicts(f.alg) # {}
                                 THEN Again(make_consistent(f.alg, f.kb.timestamp), f.kb)
                                 ELSE f
    BY <1>1 DEF complete
  <2> HIDE DEF f
  <2>2. Unmatched(f.alg) = Unmatched(t)
    BY <1>2 DEF Unmatched
  <2>3. Conflicts(f.alg) = Conflicts(t)
    BY <1>2 DEF Conflicts, search_tables
  <2>4. Unmatched(t) = 0 /\ (t.type = "simple" => Conflicts(t) = {})
    BY <1>3 DEF conjecture_ready
  <2>5. complete(t, k) = f
    BY <1>2, <2>1, <2>2, <2>3, <2>4
  <2> QED BY <1>2, <1>3, <2>5
<1>4. CASE t.type = "nl" /\ nl_conjecture_ready(t)
  <2>1. nl_complete(t, k) = CASE ~f.ready -> f
                              [] f.ready /\ ~is_closed(f.alg) -> Again(nl_close(f.alg), f.kb)
                              [] f.ready /\ is_closed(f.alg) ->
                                    IF NLConflicts(f.alg) # {} THEN Again(nl_make_consistent(f.alg), f.kb)
                                    ELSE f
    BY <1>1 DEF nl_complete
  <2> HIDE DEF f
  <2>2. UpperPrimes(f.alg) = UpperPrimes(t)
    BY <1>2 DEF UpperPrimes, row_is_prime, AllRows
  <2>3. is_closed(f.alg) <=> is_closed(t)
    BY <1>2, <2>2 DEF is_closed
  <2>4. NLConflicts(f.alg) = NLConflicts(t)
    BY <1>2 DEF NLConflicts, search_tables
  <2>5. is_closed(t) /\ NLConflicts(t) = {}
    BY <1>4 DEF nl_conjecture_ready
  <2>6. nl_complete(t, k) = f
    BY <1>2, <2>1, <2>3, <2>4, <2>5
  <2> QED BY <1>2, <1>4, <2>6
<1> QED BY <1>3, <1>4

\* The calls of complete() have come to an end.
Ended(t, r) == r.ready /\ ~r.again
End == INSTANCE LoopRules WITH Body <- ActivateBody, Inv <- Ended

(***************************************************************************)
(* If conjecture_ready() says so, advance() returns a conjecture.          *)
(***************************************************************************)
THEOREM ReadyIsReady == Spec => []ReadyMeansReady
<1>1. LearnerFine => ReadyMeansReady
  <2> SUFFICES ASSUME LearnerFine, conjecture = NoConjecture, alg.type # "rs",
                      IF alg.type = "nl" THEN nl_conjecture_ready(alg) ELSE conjecture_ready(alg)
               PROVE  Delivered(Completed).conjecture # NoConjecture
    BY DEF ReadyMeansReady
  <2>1. /\ KnowledgeFine(kb) /\ TableFine(alg, kb) /\ (alg.type = "nl" => AsksWords(kb))
        /\ alg.type \in {"simple", "col", "nl"}
    BY DEF LearnerFine, TableFine, HeadFine
  <2> DEFINE base == Again(alg, kb)
             seq == [n \in 1..MaxActivations |-> n]
             first == ActivateBody(alg, base, seq[1])
  <2>2. first = IF alg.type = "nl" THEN nl_complete(alg, kb) ELSE complete(alg, kb)
    BY <2>1 DEF ActivateBody, Activated, Again
  <2>3. Ended(alg, first)
    BY <2>1, <2>2, ReadyCompletes DEF Ended
  <2>4. Completed = End!Loop(alg, base, seq)
    BY DEF Completed, End!Loop, End!FoldLeft, End!MapThenFoldSet, End!Max, FoldLeft,
           MapThenFoldSet, Max, ActivateBody
  <2>5. MaxActivations \in Nat /\ MaxActivations > 0 /\ DOMAIN seq = 1..MaxActivations
    BY MaxActivationsAssumption
  <2>6. \A i \in 1..MaxActivations : \A x : Ended(alg, x) => Ended(alg, ActivateBody(alg, x, seq[i]))
    BY DEF Ended, ActivateBody, Activated
  <2> HIDE DEF base, seq
  <2>7. Ended(alg, End!Loop(alg, base, seq))
    BY <2>3, <2>5, <2>6, End!FoldAfterFirst
  <2>8. ResultFine(alg, Completed)
    BY <2>1, CompletedIsFine
  <2>9. Completed.ready
    BY <2>4, <2>7 DEF Ended
  <2> QED BY <2>8, <2>9, DeliveredIsFine
<1> QED BY <1>1, LearnerAlwaysFine, PTL

=============================================================================
