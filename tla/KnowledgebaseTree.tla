------------------------- MODULE KnowledgebaseTree -------------------------
(***************************************************************************)
(* The data type behind class knowledgebase<answer> of libalf: a tree of   *)
(* words, each node holding what is known about its word.  A knowledgebase *)
(* is a value here (a record with one field per data member of the class)  *)
(* and each method is an operator from knowledgebase to knowledgebase, so  *)
(* that the state machines of this project compose methods the way the     *)
(* C++ code calls them.                                                    *)
(*                                                                         *)
(* Abstracted: the statistics nodecount and resolved_queries (only their    *)
(* own getters read them), the padding of node::children with NULL, and    *)
(* the answer left behind in a node that is no longer answered.            *)
(***************************************************************************)
EXTENDS SequencesExt, Integers

CONSTANTS
    Symbols,    \* the letters: non-negative ints, as find_or_create_child needs
    Answers,    \* what a membership query can be answered with
    NoAnswer,   \* stands for the answer of a node that has none
    Filter,     \* my_filter: the words it decides, with its answer for each
    TSMod       \* 2^32 in the build: the clock is an unsigned int

ASSUME SymbolsAssumption == Symbols \subseteq Nat
ASSUME AnswersAssumption == Answers # {} /\ NoAnswer \notin Answers
ASSUME FilterAssumption ==
    /\ DOMAIN Filter \subseteq Seq(Symbols)
    /\ \A w \in DOMAIN Filter : Filter[w] \in Answers
ASSUME TSModAssumption == TSMod \in Nat /\ TSMod > 1

Word == Seq(Symbols)

(***************************************************************************)
(* The subsequence of s made of the elements that are in S: what is left   *)
(* of a std::list after list::remove of everything else.  (Written by rank *)
(* rather than by recursion so that facts about it can be proved.)         *)
(***************************************************************************)
KeptIndices(s, S) == {i \in 1..Len(s) : s[i] \in S}
Rank(I, i) == Cardinality({j \in I : j <= i})
OnlyIn(s, S) ==
    LET I == KeptIndices(s, S)
    IN  [n \in 1..Cardinality(I) |-> s[CHOOSE i \in I : Rank(I, i) = n]]

-----------------------------------------------------------------------------
(* Nodes and their status. *)

Status == {"ignore", "required", "answered"}

Node == [status : Status, ts : Nat, ans : Answers \cup {NoAnswer}]

Ignored == [status |-> "ignore", ts |-> 0, ans |-> NoAnswer]
Required(t) == [status |-> "required", ts |-> t, ans |-> NoAnswer]
Answered(t, a) == [status |-> "answered", ts |-> t, ans |-> a]

WordsWith(k, s) == {w \in DOMAIN k.node : k.node[w].status = s}

is_answered(k, w) == w \in DOMAIN k.node /\ k.node[w].status = "answered"

EmptyKnowledgebase ==
    [node |-> [w \in {<<>>} |-> Ignored], required |-> <<>>,
     answercount |-> 0, largest_symbol |-> 0, timestamp |-> 1]

\* Mutant: the descendant is created without the nodes on the way to it.
find_or_create_detached(k, W) ==
    [k EXCEPT !.node = [v \in DOMAIN @ \cup W |->
                           IF v \in DOMAIN k.node THEN k.node[v] ELSE Ignored]]

\* Every word of W and all its prefixes exist afterwards; new nodes are ignored.
find_or_create(k, W) ==
    LET new == (UNION {Prefixes(w) : w \in W}) \ DOMAIN k.node
        labels == UNION {{w[i] + 1 : i \in DOMAIN w} : w \in W}
    IN  [k EXCEPT !.node = [v \in DOMAIN @ \cup new |->
                               IF v \in new THEN Ignored ELSE k.node[v]],
                  !.largest_symbol = Max({@} \cup labels)]

\* Mutant: a node that is required already is queued once more.
mark_required_again(k, ws) ==
    LET open == OnlyIn(ws, WordsWith(k, "ignore") \cup WordsWith(k, "required"))
    IN  [k EXCEPT !.node = [v \in DOMAIN @ |->
                               IF v \in Range(open) THEN Required(k.timestamp)
                                                    ELSE k.node[v]],
                  !.required = @ \o open]

\* mark_required() on each word of ws, all of which exist, in that order.
mark_required(k, ws) ==
    LET fresh == OnlyIn(ws, WordsWith(k, "ignore"))
    IN  [k EXCEPT !.node = [v \in DOMAIN @ |->
                               IF v \in Range(fresh) THEN Required(k.timestamp)
                                                     ELSE k.node[v]],
                  !.required = @ \o fresh]

\* set_answer(): the first answer stays, and a second one only compares.
set_answer(k, w, a) ==
    IF is_answered(k, w) THEN k
    ELSE [k EXCEPT !.node[w] = Answered(k.timestamp, a),
                   !.required = OnlyIn(@, Word \ {w}),
                   !.answercount = @ + 1,
                   !.timestamp = @ + 1]

\* Mutants: ignore() forgets the list, or the count.
ignore_keeps_query(k, W) ==
    [k EXCEPT !.node = [v \in DOMAIN @ |-> IF v \in W THEN Ignored ELSE k.node[v]],
              !.answercount = @ - Cardinality(W \cap WordsWith(k, "answered"))]
ignore_keeps_count(k, W) ==
    [k EXCEPT !.node = [v \in DOMAIN @ |-> IF v \in W THEN Ignored ELSE k.node[v]],
              !.required = OnlyIn(@, Word \ W)]

\* ignore() on every node of W.
ignore(k, W) ==
    [k EXCEPT !.node = [v \in DOMAIN @ |-> IF v \in W THEN Ignored ELSE k.node[v]],
              !.required = OnlyIn(@, Word \ W),
              !.answercount = @ - Cardinality(W \cap WordsWith(k, "answered"))]

\* root->cleanup(): branches that hold neither an answer nor a query go; the
\* root stays.
cleanup(k) ==
    LET live == DOMAIN k.node \ WordsWith(k, "ignore")
        kept == DOMAIN k.node \cap ({<<>>} \cup UNION {Prefixes(w) : w \in live})
    IN  [k EXCEPT !.node = [v \in kept |-> k.node[v]]]

-----------------------------------------------------------------------------
(* The public methods. *)

clear == EmptyKnowledgebase

clear_queries(k) == cleanup(ignore(k, Range(k.required)))

\* Mutants: the first tick to be undone survives; the clock is not put back.
undo_too_little(k, count) ==
    LET limit == (k.timestamp - count) % TSMod
        since == {w \in DOMAIN k.node : k.node[w].ts > limit}
    IN  cleanup([ignore(k, since) EXCEPT !.timestamp = IF limit < 1 THEN 1 ELSE limit])
undo_keeps_clock(k, count) ==
    LET limit == (k.timestamp - count) % TSMod
        since == {w \in DOMAIN k.node : k.node[w].ts >= limit}
    IN  cleanup(ignore(k, since))

\* The comparison is made in unsigned arithmetic, so a count that is larger
\* than the clock wraps around.
undo(k, count) ==
    LET limit == (k.timestamp - count) % TSMod
        since == {w \in DOMAIN k.node : k.node[w].ts >= limit}
    IN  cleanup([ignore(k, since) EXCEPT !.timestamp = IF limit < 1 THEN 1 ELSE limit])

add_knowledge(k, w, a) == set_answer(find_or_create(k, {w}), w, a)

add_or_alter_knowledge(k, w, a) ==
    set_answer(ignore(find_or_create(k, {w}), {w}), w, a)

\* The prefixes of w that are at most prefix_count letters shorter, then w.
add_query(k, w, prefix_count) ==
    LET first == IF prefix_count > Len(w) THEN 0 ELSE Len(w) - prefix_count
    IN  mark_required(find_or_create(k, {w}),
                      [i \in 1..(Len(w) - first + 1) |-> SubSeq(w, 1, first + i - 1)])

\* resolve_query(): the answer, from the knowledgebase or the filter.
Resolvable(k, w) == is_answered(k, w) \/ w \in DOMAIN Filter
resolve_query(k, w) == IF is_answered(k, w) THEN k.node[w].ans ELSE Filter[w]

resolve_or_add_query(k, w) ==
    LET f == find_or_create(k, {w})
    IN  IF is_answered(f, w) THEN f
        ELSE IF w \in DOMAIN Filter THEN set_answer(f, w, Filter[w])
        ELSE mark_required(f, <<w>>)

recursive_different(k, other) ==
    \E w \in WordsWith(k, "answered") \cap WordsWith(other, "answered") :
        k.node[w].ans # other.node[w].ans

\* Mutant: the clock is rewound after each word and never ticks.
merge_without_tick(k, other) ==
    LET known == WordsWith(other, "answered")
        new == known \ WordsWith(k, "answered")
        f == find_or_create(k, known)
    IN  IF recursive_different(k, other) THEN k
        ELSE [f EXCEPT !.node = [v \in DOMAIN @ |->
                                    IF v \in new
                                    THEN Answered(k.timestamp, other.node[v].ans)
                                    ELSE f.node[v]],
                       !.required = OnlyIn(@, Word \ new),
                       !.answercount = @ + Cardinality(new)]

\* All that is new gets one and the same timestamp; the clock ticks once, even
\* when there is nothing new.
merge_knowledgebase(k, other) ==
    LET known == WordsWith(other, "answered")
        new == known \ WordsWith(k, "answered")
        f == find_or_create(k, known)
    IN  IF recursive_different(k, other) THEN k
        ELSE [f EXCEPT !.node = [v \in DOMAIN @ |->
                                    IF v \in new
                                    THEN Answered(k.timestamp, other.node[v].ans)
                                    ELSE f.node[v]],
                       !.required = OnlyIn(@, Word \ new),
                       !.answercount = @ + Cardinality(new),
                       !.timestamp = @ + 1]

\* One answer per query, in the order of the list; any mismatch empties the
\* knowledgebase.
deserialize_query_acceptances(k, size, acceptances) ==
    LET n == Len(k.required)
        pos(w) == CHOOSE i \in 1..n : k.required[i] = w
    IN  IF size # n \/ Len(acceptances) < n THEN clear
        ELSE [k EXCEPT !.node = [v \in DOMAIN @ |->
                            IF v \in Range(k.required)
                            THEN Answered(k.timestamp + pos(v) - 1, acceptances[pos(v)])
                            ELSE k.node[v]],
                       !.required = <<>>,
                       !.answercount = @ + n,
                       !.timestamp = @ + n]

\* A knowledgebase of its own that holds only the queries; its timestamps are
\* the positions in the list.
create_query_tree(k) ==
    LET n == Len(k.required)
        pos(w) == CHOOSE i \in 1..n : k.required[i] = w
        f == find_or_create(EmptyKnowledgebase, Range(k.required))
    IN  [f EXCEPT !.node = [v \in DOMAIN @ |->
                               IF v \in Range(k.required) THEN Required(pos(v))
                                                          ELSE Ignored],
                  !.required = k.required,
                  !.timestamp = n + 1]

check_largest_symbol(k) ==
    [k EXCEPT !.largest_symbol =
        Max({0} \cup {w[Len(w)] : w \in DOMAIN k.node \ {<<>>}})]

\* What is read back: label, timestamp, status and answer of every node; the
\* clock and the counters are computed anew, and the list of queries stays empty.
deserialize_subtree(node) ==
    LET answered == {w \in DOMAIN node : node[w].status = "answered"}
    IN  [node |-> node, required |-> <<>>,
         answercount |-> Cardinality(answered),
         largest_symbol |->
            Max({0} \cup {w[Len(w)] + 1 : w \in DOMAIN node \ {<<>>}}),
         timestamp |-> Max({1} \cup {node[w].ts + 1 : w \in DOMAIN node})]

\* serialize(), then deserialize() into a fresh object.
reload(k) == deserialize_subtree(k.node)

=============================================================================
