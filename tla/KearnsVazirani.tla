--------------------------- MODULE KearnsVazirani ---------------------------
(***************************************************************************)
(* kearns_vazirani: a learner that keeps a binary tree.  Its leaves are    *)
(* the states found so far, each with a word that leads there; its inner   *)
(* nodes hold words that tell states apart: the leaves to the right of a   *)
(* node are those whose word followed by the node's word is accepted.      *)
(* Work is done in tasks, which stop where an answer is missing and go on  *)
(* from there in the next call of advance().                               *)
(*                                                                         *)
(* The learner is a record; nodes are numbered in the order in which they  *)
(* are allocated, and NULL is 0.  run_buffer, the prefixes of the binary   *)
(* search and transition_label are functions of the other fields, so they  *)
(* are computed where they are used.  split_node_task walks a std::set of  *)
(* addresses; here it walks it in the order of allocation, which decides   *)
(* nothing but the order of queries.                                       *)
(***************************************************************************)
EXTENDS Conjecture

CONSTANT Accept \* the answer that is true; "does only support bool as <answer>"

ASSUME BoolAssumption ==
    Accept \in Answers /\ \E other \in Answers \ {Accept} : Answers = {Accept, other}

NULL == 0
\* What n rounds make of a state; a loop that ends before that has rounds left that
\* change nothing.
Repeated(Round(_), start, n) ==
    LET state[i \in 0..n] == IF i = 0 THEN start ELSE Round(state[i - 1])
    IN  state[n]
Bool(b) == CHOOSE a \in Answers : (a = Accept) = b

EmptyTree(binary, asize) ==
    [use_binary_search |-> binary, alphabet_size |-> asize, initial_phase |-> TRUE,
     node |-> <<>>, root |-> NULL, initial_state |-> NULL,
     leaf_node_count |-> 0, inner_node_count |-> 0, tasks |-> <<>>]

leaf_node(label, level, parent, id, accepting, asize) ==
    [leaf |-> TRUE, label |-> label, level |-> level, parent |-> parent, id |-> id,
     accepting |-> accepting, incoming |-> {},
     transitions |-> [a \in 0..(asize - 1) |-> NULL]]

inner_node(label, level, parent, left, right) ==
    [leaf |-> FALSE, label |-> label, level |-> level, parent |-> parent,
     left |-> left, right |-> right]

is_leaf(t, n) == t.node[n].leaf

simulate_run(t, w) ==
    FoldLeft(LAMBDA n, a : t.node[n].transitions[a], t.initial_state, w)

\* Climbs from the deeper node, or from both if they are on one level.
Climb(t, p) ==
    LET up(x, y) == IF t.node[x].level >= t.node[y].level THEN t.node[x].parent ELSE x
    IN  IF p[1] = p[2] THEN p ELSE <<up(p[1], p[2]), up(p[2], p[1])>>
least_commont_ancestor(t, n, m) ==
    Repeated(LAMBDA p : Climb(t, p), <<n, m>>, Len(t.node))[1]

\* Where word ends up below node n, as far as the answers are known; the query
\* that is missing is added.
SiftOn(t, k, n, query) ==
    IF ~is_answered(k, query) THEN [kb |-> k, at |-> n, again |-> FALSE]
    ELSE [kb |-> k, at |-> IF k.node[query].ans = Accept THEN t.node[n].right
                                                         ELSE t.node[n].left, again |-> TRUE]
SiftRound(t, w, s) ==
    IF ~s.again \/ is_leaf(t, s.at) THEN s
    ELSE SiftOn(t, resolve_or_add_query(s.kb, w \o t.node[s.at].label), s.at,
                w \o t.node[s.at].label)
Sift(t, k, w, n) ==
    Repeated(LAMBDA s : SiftRound(t, w, s), [kb |-> k, at |-> n, again |-> TRUE], Len(t.node))

-----------------------------------------------------------------------------
(* The tasks. *)

compute_transition_task(t, source, symbol) ==
    [kind |-> "transition", source |-> source, symbol |-> symbol, at |-> t.root]

linearsearch_task(t, w) ==
    [kind |-> "linear", counterexample |-> w, position |-> 1,
     prefix |-> SubSeq(w, 1, 1), at |-> t.root]

\* Where each prefix was sifted to so far; the empty word is at the initial state.
FreshBuffer(t, w) ==
    [i \in 0..Len(w) |-> IF i = 0 THEN t.initial_state ELSE t.root]

\* Mutant: the last letter is left out of the search.
binarysearch_task_short(t, w) ==
    [kind |-> "binary", counterexample |-> w, position |-> (1 + Len(w)) \div 2,
     left |-> 1, right |-> Max({1, Len(w) - 1}), sift |-> FreshBuffer(t, w)]

binarysearch_task(t, w) ==
    [kind |-> "binary", counterexample |-> w, position |-> (1 + Len(w)) \div 2,
     left |-> 1, right |-> Len(w), sift |-> FreshBuffer(t, w)]

\* Mutant: the word that is extended is always the root's.
split_node_task_at_root(t, node, prefix, letter, reached, sifted) ==
    [kind |-> "split", node |-> node, leaf_label |-> prefix,
     inner_label |-> <<letter>> \o t.node[t.root].label]

\* The leaf is split by the letter after the prefix and the word that tells apart
\* where the longer prefix is and where the conjecture takes it.
split_node_task(t, node, prefix, letter, reached, sifted) ==
    [kind |-> "split", node |-> node, leaf_label |-> prefix,
     inner_label |-> <<letter>> \o t.node[least_commont_ancestor(t, reached, sifted)].label]

add_last(t, task) == [t EXCEPT !.tasks = Append(@, task)]

\* What perform() leaves behind; alg and kb include what the task did to them.
Outcome(t, k, task, done) ==
    [alg |-> t, kb |-> k, task |-> task, done |-> done, again |-> FALSE]
\* A search goes on at another position.
Again(t, k, task) == [Outcome(t, k, task, FALSE) EXCEPT !.again = TRUE]

\* Mutant: the target does not learn of its new source.
SetTransition_one_way(t, source, symbol, leaf) ==
    [t EXCEPT !.node[source].transitions[symbol] = leaf]

SetTransition(t, source, symbol, leaf) ==
    [t EXCEPT !.node[source].transitions[symbol] = leaf,
              !.node[leaf].incoming = @ \cup {source}]

ComputedTransition(t, task, s) ==
    IF is_leaf(t, s.at)
    THEN Outcome(SetTransition(t, task.source, task.symbol, s.at), s.kb, task, TRUE)
    ELSE Outcome(t, s.kb, [task EXCEPT !.at = s.at], FALSE)

\* The transitions of all nodes, by source and letter.
Transitions(t) ==
    FoldLeft(\o, <<>>,
             [n \in 1..Len(t.node) |-> [a \in 1..t.alphabet_size |-> <<n, a - 1>>]])

\* Mutant: loops at the leaf are forgotten.
Redirected_no_loops(t, leaf) ==
    OnlyIn(Transitions(t),
           {p \in (t.node[leaf].incoming \ {leaf}) \X (0..(t.alphabet_size - 1)) :
               t.node[p[1]].transitions[p[2]] = leaf})

\* The transitions to a leaf that is split.
Redirected(t, leaf) ==
    OnlyIn(Transitions(t),
           {p \in t.node[leaf].incoming \X (0..(t.alphabet_size - 1)) :
               t.node[p[1]].transitions[p[2]] = leaf})

\* Mutant: the level stays.
Lowered_on_level(n, inner) == [n EXCEPT !.parent = inner, !.incoming = {}]

Lowered(n, inner) == [n EXCEPT !.level = @ + 1, !.parent = inner, !.incoming = {}]

\* The leaf old goes below a new inner node, next to a new leaf; all transitions
\* that led to it, and those of the new leaf, are to be computed.
SplitAt(t, task, a, old, new, inner) ==
    LET o == t.node[old]
        instead(n) == IF n = old THEN inner ELSE n
        kept == [t.node EXCEPT ![old] = Lowered(@, inner),
                               ![o.parent].left = instead(@),
                               ![o.parent].right = instead(@)]
        made == <<leaf_node(task.leaf_label, o.level + 1, inner, t.leaf_node_count,
                            o.accepting, t.alphabet_size),
                  inner_node(task.inner_label, o.level, o.parent,
                             IF a = Accept THEN old ELSE new,
                             IF a = Accept THEN new ELSE old)>>
        todo == Redirected(t, old) \o [i \in 1..t.alphabet_size |-> <<new, i - 1>>]
    IN  [t EXCEPT !.node = kept \o made,
                  !.leaf_node_count = @ + 1,
                  !.tasks = @ \o [i \in DOMAIN todo |->
                                compute_transition_task(t, todo[i][1], todo[i][2])]]

Split(t, k, task, query) ==
    IF ~is_answered(k, query) THEN Outcome(t, k, task, FALSE)
    ELSE Outcome(SplitAt(t, task, k.node[query].ans, task.node,
                         Len(t.node) + 1, Len(t.node) + 2), k, task, TRUE)

\* No bad prefix is a matter for the logger.
Scanned(t, k, task) == Outcome(t, k, task, TRUE)

(***************************************************************************)
(* The linear search sifts the prefixes of the counterexample one by one   *)
(* until the conjecture takes one elsewhere than sifting does.             *)
(***************************************************************************)
LinearStep(t, task, s) ==
    IF ~is_leaf(t, s.at) THEN Outcome(t, s.kb, [task EXCEPT !.at = s.at], FALSE)
    ELSE IF simulate_run(t, task.prefix) # s.at
         THEN LET before == SubSeq(task.counterexample, 1, task.position - 1)
              IN  Outcome(add_last(t, split_node_task(t, simulate_run(t, before), before,
                                        task.counterexample[task.position],
                                        simulate_run(t, task.prefix), s.at)),
                          s.kb, task, TRUE)
    ELSE IF task.position = Len(task.counterexample) THEN Scanned(t, s.kb, task)
    ELSE Again(t, s.kb,
             [task EXCEPT !.position = @ + 1, !.at = t.root,
                          !.prefix = SubSeq(task.counterexample, 1, task.position + 1)])
LinearRound(r) ==
    IF r.again THEN LinearStep(r.alg, r.task, Sift(r.alg, r.kb, r.task.prefix, r.task.at))
    ELSE r
LinearSearch(t, k, task) ==
    Repeated(LinearRound, Again(t, k, task), Len(task.counterexample))

(***************************************************************************)
(* The binary search looks for a position where sifting and the conjecture *)
(* agree before the letter and disagree after it.                          *)
(***************************************************************************)
Prefix(task, i) == SubSeq(task.counterexample, 1, i)
Agree(t, task, i) == simulate_run(t, Prefix(task, i)) = task.sift[i]

\* The half that is left after the letter at the present position was looked at.
Halved(t, task) ==
    LET left == IF Agree(t, task, task.position) THEN task.position + 1 ELSE task.left
        right == IF Agree(t, task, task.position) THEN task.right ELSE task.position - 1
    IN  [task EXCEPT !.left = left, !.right = right, !.position = (left + right) \div 2]

BinaryStep(t, k, task, i) ==
    IF ~(is_leaf(t, task.sift[i]) /\ is_leaf(t, task.sift[i - 1]))
    THEN Outcome(t, k, task, FALSE)
    ELSE IF Agree(t, task, i - 1) /\ ~Agree(t, task, i)
    THEN Outcome(add_last(t, split_node_task(t, task.sift[i - 1], Prefix(task, i - 1),
                                 task.counterexample[i],
                                 simulate_run(t, Prefix(task, i)), task.sift[i])),
                 k, task, TRUE)
    ELSE IF task.left < task.right THEN Again(t, k, Halved(t, task))
    ELSE Scanned(t, k, task)

SiftedBefore(t, task, i, s) ==
    BinaryStep(t, s.kb, [task EXCEPT !.sift[i - 1] = s.at], i)
SiftedAt(t, task, i, s) ==
    SiftedBefore(t, [task EXCEPT !.sift[i] = s.at], i,
                 Sift(t, s.kb, Prefix(task, i - 1), task.sift[i - 1]))
BinaryRound(r) ==
    IF r.again
    THEN SiftedAt(r.alg, r.task, r.task.position,
                  Sift(r.alg, r.kb, Prefix(r.task, r.task.position), r.task.sift[r.task.position]))
    ELSE r
BinarySearch(t, k, task) ==
    Repeated(BinaryRound, Again(t, k, task), Len(task.counterexample))

-----------------------------------------------------------------------------
(* Performing them. *)

perform(t, k, task) ==
    CASE task.kind = "transition" ->
           ComputedTransition(t, task, Sift(t, k, Append(t.node[task.source].label,
                                                         task.symbol), task.at))
      [] task.kind = "linear" -> LinearSearch(t, k, task)
      [] task.kind = "binary" -> BinarySearch(t, k, task)
      [] task.kind = "split" ->
           Split(t, resolve_or_add_query(k, task.leaf_label \o task.inner_label), task,
                 task.leaf_label \o task.inner_label)

\* One round over the list, tasks added on the way included: a search adds a split,
\* and a split the transitions that it makes necessary.
WorkOn(r, i) ==
    IF r.done THEN [alg |-> [r.alg EXCEPT !.tasks = RemoveAt(@, i)], kb |-> r.kb, next |-> i]
    ELSE [alg |-> [r.alg EXCEPT !.tasks[i] = r.task], kb |-> r.kb, next |-> i + 1]
WorkRound(s) ==
    IF s.next > Len(s.alg.tasks) THEN s
    ELSE WorkOn(perform(s.alg, s.kb, s.alg.tasks[s.next]), s.next)
Work(t, k) ==
    Repeated(WorkRound, [alg |-> t, kb |-> k, next |-> 1],
             Len(t.tasks) + 2 + (Len(t.node) + 1) * t.alphabet_size)

\* A new task is tried at once, and kept if it cannot be finished.
Tried(r) == [alg |-> IF r.done THEN r.alg ELSE add_last(r.alg, r.task), kb |-> r.kb]
TryAll(t, k, tasks) ==
    FoldLeft(LAMBDA s, task : Tried(perform(s.alg, s.kb, task)),
             [alg |-> t, kb |-> k], tasks)

-----------------------------------------------------------------------------
(* The public methods. *)

\* The tree of the first counterexample w: w and the empty word, which has answer a.
Grown(t, w, a) ==
    LET low == IF a = Accept THEN w ELSE <<>>
        high == IF a = Accept THEN <<>> ELSE w
        id(word) == IF word = <<>> THEN 0 ELSE 1
    IN  [t EXCEPT !.node = <<leaf_node(low, 1, 3, id(low), FALSE, t.alphabet_size),
                             leaf_node(high, 1, 3, id(high), TRUE, t.alphabet_size),
                             inner_node(<<>>, 0, NULL, 1, 2)>>,
                  !.root = 3, !.initial_state = IF a = Accept THEN 2 ELSE 1,
                  !.initial_phase = FALSE,
                  !.leaf_node_count = 2, !.inner_node_count = 1]

\* Both leaves in turn, for each letter.
FirstTasks(t) ==
    [i \in 1..(2 * t.alphabet_size) |->
        compute_transition_task(t, 2 - (i % 2), (i - 1) \div 2)]

Started(t, k, w) ==
    IF ~is_answered(k, <<>>) THEN [alg |-> t, kb |-> k]
    ELSE TryAll(Grown(t, w, k.node[<<>>].ans), k, FirstTasks(Grown(t, w, k.node[<<>>].ans)))

\* Refused while there is work to do, and if it is known to be no counterexample.
add_counterexample(t, k, w) ==
    IF \/ t.tasks # <<>>
       \/ w = <<>>
       \/ /\ Resolvable(k, w)
          /\ ~t.initial_phase
          /\ resolve_query(k, w) = Bool(t.node[simulate_run(t, w)].accepting)
    THEN [alg |-> t, kb |-> k]
    ELSE IF t.initial_phase THEN Started(t, resolve_or_add_query(k, <<>>), w)
    ELSE TryAll(t, k, <<IF t.use_binary_search THEN binarysearch_task(t, w)
                                              ELSE linearsearch_task(t, w)>>)

\* The leaves that can be reached, in the order in which they are met.
Met(t, n, order, a) ==
    IF t.node[n].transitions[a] \in Range(order) THEN order
    ELSE Append(order, t.node[n].transitions[a])
Processed(t, s) ==
    IF s.next > Len(s.order) THEN s
    ELSE [order |-> FoldLeft(LAMBDA o, a : Met(t, s.order[s.next], o, a), s.order,
                             [a \in 1..t.alphabet_size |-> a - 1]),
          next |-> s.next + 1]
Discover(t) ==
    Repeated(LAMBDA s : Processed(t, s), [order |-> <<t.initial_state>>, next |-> 1],
             Len(t.node)).order

\* Leaves become states by their place in the order.
Machine(t, order) ==
    LET state(n) == (CHOOSE i \in DOMAIN order : order[i] = n) - 1
    IN  Deterministic(Len(order), t.alphabet_size,
            [q \in 0..(Len(order) - 1) |-> [a \in 0..(t.alphabet_size - 1) |->
                state(t.node[order[q + 1]].transitions[a])]],
            [q \in 0..(Len(order) - 1) |-> Bool(t.node[order[q + 1]].accepting)])

derive_conjecture(t, k) ==
    IF t.initial_phase
    THEN Deterministic(1, t.alphabet_size,
             [q \in {0} |-> [a \in 0..(t.alphabet_size - 1) |-> 0]],
             [q \in {0} |-> k.node[<<>>].ans])
    ELSE Machine(t, Discover(t))

\* advance() asks for the empty word at first and works on its tasks later.
Derived(r) ==
    [alg |-> r.alg, kb |-> r.kb,
     conjecture |-> IF IF r.alg.initial_phase THEN is_answered(r.kb, <<>>)
                                              ELSE r.alg.tasks = <<>>
                    THEN derive_conjecture(r.alg, r.kb) ELSE NoConjecture]
advance(t, k) ==
    Derived(IF t.initial_phase THEN [alg |-> t, kb |-> resolve_or_add_query(k, <<>>)]
            ELSE Work(t, k))

\* What serialize() leaves of the learner itself: writing a linear search throws
\* its prefix away.
Written(task) == IF task.kind = "linear" THEN [task EXCEPT !.prefix = <<>>] ELSE task

serialized(t) == [t EXCEPT !.tasks = [i \in DOMAIN @ |-> Written(t.tasks[i])]]

\* deserialize(): a binary search forgets how far it sifted.
Loaded(t, task) ==
    IF task.kind = "binary"
    THEN [task EXCEPT !.sift = FreshBuffer(t, task.counterexample)] ELSE task

\* serialize(), then deserialize() into a fresh object.
tree_reload(t) == [t EXCEPT !.tasks = [i \in DOMAIN @ |-> Loaded(t, t.tasks[i])]]

=============================================================================
