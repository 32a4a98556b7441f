---------------------------- MODULE StateMerging ----------------------------
(***************************************************************************)
(* Two offline algorithms that merge the nodes of a knowledgebase: RPNI    *)
(* and DeLeTe2.  Both walk over the nodes in graded lexicographic order.   *)
(***************************************************************************)
EXTENDS Conjecture

Known(base) == WordsWith(base, "answered")

\* Graded lexicographic order of words.
Smaller(v, w) ==
    \/ Len(v) < Len(w)
    \/ /\ Len(v) = Len(w)
       /\ \E i \in DOMAIN v : v[i] < w[i] /\ SubSeq(v, 1, i - 1) = SubSeq(w, 1, i - 1)

\* The nodes in the order of kIterator_lex_graded.
lex_graded(base) ==
    LET W == DOMAIN base.node
        rank == [w \in W |-> 1 + Cardinality({v \in W : Smaller(v, w)})]
    IN  [i \in 1..Cardinality(W) |-> CHOOSE w \in W : rank[w] = i]

Children(base, w) == {a \in Symbols : Append(w, a) \in DOMAIN base.node}

\* The automaton that accepts nothing, for a knowledgebase without answers.
RejectAll(alphabet_size, delta) ==
    [state_count |-> 1, input_alphabet_size |-> alphabet_size, initial_states |-> {0},
     output_mapping |-> (0 :> FALSE), transitions |-> (0 :> delta)]

-----------------------------------------------------------------------------
(* RPNI.  An equivalence relation is a set of pairs of nodes, candidates   *)
(* are the pairs that the merge under way adds to it.                      *)

Class(equivalences, n) == {p[2] : p \in {e \in equivalences : e[1] = n}}

\* The next pairs of a merge: the children by the same letter.
Pending(base, A, B) ==
    {<<Append(p[1], a), Append(p[2], a)>> :
        <<p, a>> \in {s \in (A \X B) \X Symbols :
            /\ Append(s[1][1], s[2]) \in DOMAIN base.node
            /\ Append(s[1][2], s[2]) \in DOMAIN base.node}}

\* The merge of the nodes of pair p: their classes are united, provided that no answers
\* contradict each other, and so are the classes of their successors.
RECURSIVE add(_, _, _, _)
add(base, equivalences, merge, p) ==
    LET known == equivalences \cup merge.candidates
        A == Class(known, p[1])
        B == Class(known, p[2])
    IN  IF p \in known \/ ~merge.ok THEN merge
        ELSE IF \E v \in A \cap Known(base), w \in B \cap Known(base) :
                    base.node[v].ans # base.node[w].ans
        THEN [merge EXCEPT !.ok = FALSE]
        ELSE FoldSet(LAMBDA q, m : add(base, equivalences, m, q),
                     [merge EXCEPT !.candidates = @ \cup (A \X B) \cup (B \X A)],
                     Pending(base, A, B))

\* Mutant: the candidates of a merge that failed stay.
add_if_possible_kept(base, equivalences, a, b) ==
    equivalences \cup add(base, equivalences, [ok |-> TRUE, candidates |-> {}], <<a, b>>).candidates

\* The candidates become equivalences if the merge went well, and are dropped otherwise.
add_if_possible(base, equivalences, a, b) ==
    LET merge == add(base, equivalences, [ok |-> TRUE, candidates |-> {}], <<a, b>>)
    IN  IF merge.ok THEN equivalences \cup merge.candidates ELSE equivalences

\* Every node that is not yet equivalent to a smaller one is merged with the first smaller
\* node that is the smallest of its class and allows it.
merge_states(base) ==
    LET order == lex_graded(base)
        smaller(w) == SelectSeq(order, LAMBDA v : Smaller(v, w))
        merged(E, w) == \E v \in DOMAIN base.node : Smaller(v, w) /\ <<w, v>> \in E
        smallest(E, v) == ~ \E u \in Class(E, v) : Smaller(u, v)
        merge(E, w) == FoldLeft(LAMBDA F, v : IF merged(F, w) \/ ~smallest(F, v) THEN F
                                              ELSE add_if_possible(base, F, w, v),
                                E, smaller(w))
    IN  FoldLeft(merge, {<<w, w>> : w \in DOMAIN base.node}, order)

\* The automaton whose states are the classes, or none if a class holds contradictory
\* answers.  States are numbered by their smallest words: the code's order is that of
\* pointers, any numbering.
equivalence_relation2automaton(base, equivalences, ignoring_states_accept) ==
    LET representative == [w \in DOMAIN base.node |->
                              CHOOSE v \in Class(equivalences, w) :
                                  \A u \in Class(equivalences, w) : ~Smaller(u, v)]
        representatives == {representative[w] : w \in DOMAIN base.node}
        mapping == [w \in DOMAIN base.node |->
                       Cardinality({v \in representatives : Smaller(v, representative[w])})]
        members(q) == {w \in DOMAIN base.node : mapping[w] = q}
        answers(q) == {base.node[w].ans : w \in members(q) \cap Known(base)}
        states == 0..(Cardinality(representatives) - 1)
    IN  IF \E q \in states : Cardinality(answers(q)) > 1 THEN NoConjecture
        ELSE [state_count |-> Cardinality(representatives),
              input_alphabet_size |-> base.largest_symbol,
              initial_states |-> {mapping[<<>>]},
              output_mapping |-> [q \in states |->
                  IF answers(q) = {} THEN ignoring_states_accept ELSE TRUE \in answers(q)],
              transitions |-> [q \in states |->
                  [a \in UNION {Children(base, w) : w \in members(q)} |->
                      {mapping[Append(w, a)] : w \in {v \in members(q) :
                                                         a \in Children(base, v)}}]]]

RPNI(base, alphabet_size) ==
    IF Known(base) = {} THEN RejectAll(alphabet_size, <<>>)
    ELSE LET ret == equivalence_relation2automaton(base, merge_states(base), FALSE)
         IN  [ret EXCEPT !.input_alphabet_size = IF @ < alphabet_size THEN alphabet_size ELSE @]

-----------------------------------------------------------------------------
(* DeLeTe2: a nondeterministic automaton of prefixes that do not include   *)
(* each other both ways.                                                   *)

\* Mutant: the diagonals are walked from the beginning.
diagonals_forwards(N) == [j \in 1..(2 * N - 1) |-> j + 1]

\* The diagonals of a matrix with N rows, by the sum of row and column.
diagonals(N) == [j \in 1..(2 * N - 1) |-> 2 * N + 1 - j]

\* The pairs <<a, b>> of nodes such that no word leads from a to an accepted and from b
\* to a rejected word.  The diagonals of the matrix of pairs are walked from its end.
generate_inclusion_relation(base) ==
    LET pref == lex_graded(base)
        N == Len(pref)
        clash(a, b) == /\ is_answered(base, a) /\ base.node[a].ans = TRUE
                       /\ is_answered(base, b) /\ base.node[b].ans = FALSE
        good(inclusions, a, b) ==
            \/ a = b
            \/ /\ ~clash(a, b)
               /\ \A i \in Children(base, a) \cap Children(base, b) :
                     <<Append(a, i), Append(b, i)>> \in inclusions
        diagonal(inclusions, k) ==
            inclusions \cup {p \in {<<pref[i], pref[k - i]>> :
                                       i \in {j \in 1..N : k - j \in 1..N}} :
                                good(inclusions, p[1], p[2])}
    IN  FoldLeft(diagonal, {}, diagonals(N))

\* One prefix: it is merged with a state that it includes and is included by, or becomes
\* a state with the transitions from and to the states so far.
delete2_visit(base, inclusions, m, w) ==
    LET includes(a, b) == <<a, b>> \in inclusions
        extends_merged == \E v \in m.merged : IsPrefix(v, w)
        sid == Len(m.states)
        states == Append(m.states, w)
        arcs == {<<i, a, sid>> : <<i, a>> \in
                    {s \in (0..sid) \X Symbols :
                        /\ s[2] \in Children(base, states[s[1] + 1])
                        /\ includes(w, Append(states[s[1] + 1], s[2]))}}
                \cup {<<sid, s[2], s[1]>> : s \in
                    {r \in (0..(sid - 1)) \X Symbols :
                        /\ r[2] \in Children(base, w)
                        /\ includes(states[r[1] + 1], Append(w, r[2]))}}
    IN  IF extends_merged THEN m
        ELSE IF \E v \in Range(m.states) : includes(w, v) /\ includes(v, w)
        THEN [m EXCEPT !.merged = @ \cup {w}]
        ELSE [m EXCEPT !.states = states,
                       !.initial = @ \cup (IF includes(w, <<>>) THEN {sid} ELSE {}),
                       !.arcs = @ \cup arcs]

DeLeTe2(base, alphabet_size) ==
    LET inclusions == generate_inclusion_relation(base)
        m == FoldLeft(LAMBDA n, w : delete2_visit(base, inclusions, n, w),
                      [states |-> <<>>, merged |-> {}, initial |-> {}, arcs |-> {}],
                      lex_graded(base))
        ids == 0..(Len(m.states) - 1)
    IN  IF Known(base) = {} THEN RejectAll(1, <<>>)
        ELSE [state_count |-> Len(m.states), input_alphabet_size |-> alphabet_size,
              initial_states |-> m.initial,
              output_mapping |-> [q \in ids |->
                  /\ is_answered(base, m.states[q + 1])
                  /\ base.node[m.states[q + 1]].ans = TRUE],
              transitions |-> [q \in ids |->
                  [a \in {s[2] : s \in {r \in m.arcs : r[1] = q}} |->
                      {s[3] : s \in {r \in m.arcs : r[1] = q /\ r[2] = a}}]]]

=============================================================================
