-------------------------- MODULE FiniteAutomaton --------------------------
(***************************************************************************)
(* The finite_automaton interface of libAMoRE++ with its deterministic and *)
(* nondeterministic classes, and the glue that libalf's users put on it    *)
(* (amore_alf_glue.h).                                                     *)
(*                                                                         *)
(* An object is [det, a]: a is the dfa or nfa of libAMoRE it owns, or NULL *)
(* or HalfBuilt after a failed deserialize.  Words are sequences of libAMoRE's letters  *)
(* 1..alphabet_size (the interface counts from 0).                         *)
(***************************************************************************)
EXTENDS AmoreMinimalNfa, AmoreMonoid, AmoreRegex

\* No automaton, and one that a failed deserialize left without its arrays.
NULL == [highest_state |-> 0 - 1]
HalfBuilt == [highest_state |-> 0 - 2]

Deterministic(a) == [det |-> TRUE, a |-> a]
Nondeterministic(a) == [det |-> FALSE, a |-> a]

get_state_count(fa) == fa.a.highest_state + 1
initial_states(fa) == IF fa.det THEN {fa.a.init} ELSE fa.a.init
final_states(fa) == fa.a.final
HasEpsilon(fa) == ~fa.det /\ fa.a.is_eps

\* All moves, those of the empty letter only if the automaton may have some.
get_transitions(fa) ==
    IF fa.det THEN {<<l, q, fa.a.delta[l][q]>> : l \in Letters(fa.a), q \in States(fa.a)}
    ELSE IF fa.a.is_eps THEN fa.a.delta ELSE LetterMoves(fa.a)

EmptyMoves(fa) == {m \in get_transitions(fa) : m[1] = 0}

RECURSIVE epsilon_closure(_, _), inverted_epsilon_closure(_, _)
epsilon_closure(fa, S) ==
    LET more == S \cup {m[3] : m \in {e \in EmptyMoves(fa) : e[2] \in S}}
    IN  IF more = S THEN S ELSE epsilon_closure(fa, more)
inverted_epsilon_closure(fa, S) ==
    LET more == S \cup {m[2] : m \in {e \in EmptyMoves(fa) : e[3] \in S}}
    IN  IF more = S THEN S ELSE inverted_epsilon_closure(fa, more)

successor_states(fa, S, l) ==
    LET closed == epsilon_closure(fa, S)
    IN  epsilon_closure(fa, {m[3] : m \in {t \in get_transitions(fa) : t[1] = l /\ t[2] \in closed}})
predecessor_states(fa, S, l) ==
    LET closed == inverted_epsilon_closure(fa, S)
    IN  inverted_epsilon_closure(fa,
            {m[2] : m \in {t \in get_transitions(fa) : t[1] = l /\ t[3] \in closed}})

\* The same over all letters.
AllSuccessors(fa, S) == UNION {successor_states(fa, S, l) : l \in Letters(fa.a)}
AllPredecessors(fa, S) == UNION {predecessor_states(fa, S, l) : l \in Letters(fa.a)}

run(fa, from, word) == FoldLeft(LAMBDA S, l : successor_states(fa, S, l), from, word)

contains(fa, word) ==
    fa.a # NULL /\ run(fa, initial_states(fa), word) \cap final_states(fa) # {}

-----------------------------------------------------------------------------
(* shortest_run(): a queue of runs <<state, prefix>>; empty moves go to    *)
(* the front of an NFA's queue.                                            *)

\* What a visited state adds: an NFA looks at states first, a DFA at letters first.
NextRuns(fa, at, prefix, visited) ==
    LET n == get_state_count(fa)
        k == fa.a.alphabet_size
        key(m) == IF fa.det THEN m[1] ELSE m[3] * k + m[1]
        moves == {m \in get_transitions(fa) : /\ m[1] > 0 /\ m[2] = at
                                              /\ fa.det \/ m[3] \notin visited}
        inOrder == InOrder(moves, LAMBDA m1, m2 : key(m1) < key(m2))
    IN  [i \in DOMAIN inOrder |-> <<inOrder[i][3], Append(prefix, inOrder[i][1])>>]

NextEmpty(fa, at, prefix, visited) ==
    LET goals == {m[3] : m \in {e \in EmptyMoves(fa) : e[2] = at}} \ visited
        inOrder == InOrder(goals, LAMBDA p, q : p > q)
    IN  [i \in DOMAIN inOrder |-> <<inOrder[i], prefix>>]

RECURSIVE Search_run(_, _, _, _)
Search_run(fa, fifo, to, visited) ==
    IF fifo = <<>> THEN [reachable |-> FALSE, word |-> <<>>]
    ELSE LET at == Head(fifo)[1]
             prefix == Head(fifo)[2]
             seen == visited \cup {at}
         IN  IF at \in visited THEN Search_run(fa, Tail(fifo), to, visited)
             ELSE IF at \in to THEN [reachable |-> TRUE, word |-> prefix]
             ELSE Search_run(fa, NextEmpty(fa, at, prefix, seen) \o Tail(fifo)
                                   \o NextRuns(fa, at, prefix, seen), to, seen)

shortest_run(fa, from, to) ==
    LET first == InOrder(from, LAMBDA p, q : p < q)
    IN  Search_run(fa, [i \in DOMAIN first |-> <<first[i], <<>>>>], to, {})

get_sample_word(fa) == shortest_run(fa, initial_states(fa), final_states(fa))
is_empty(fa) == ~get_sample_word(fa).reachable

\* States from which nothing is accepted or which no run reaches.
negative_sink(fa) ==
    LET RECURSIVE Closed(_, _)
        Closed(S, back) ==
            LET next == IF back THEN inverted_epsilon_closure(fa, AllPredecessors(fa, S))
                        ELSE epsilon_closure(fa, AllSuccessors(fa, S))
            IN  IF next \subseteq S THEN S ELSE Closed(S \cup next, back)
    IN  States(fa.a) \ (Closed(inverted_epsilon_closure(fa, final_states(fa)), TRUE)
                          \cap Closed(epsilon_closure(fa, initial_states(fa)), FALSE))

-----------------------------------------------------------------------------
(* The operations that make automata.                                      *)

remove_epsilon_transitions(fa) ==
    Nondeterministic(IF fa.a.is_eps THEN enfa2nfa(fa.a) ELSE clonenfa(fa.a))

determinize(fa) ==
    IF fa.det THEN fa ELSE Deterministic(nfa2dfa(remove_epsilon_transitions(fa).a))
nondeterminize(fa) == Nondeterministic(IF fa.det THEN dfa2nfa(fa.a) ELSE clonenfa(fa.a))

is_universal(fa) == is_empty(Deterministic(compldfa(determinize(fa).a)))

reverse_language(fa) ==
    Nondeterministic([NewNfa(get_state_count(fa), fa.a.alphabet_size, HasEpsilon(fa),
                             final_states(fa), initial_states(fa),
                             {<<m[1], m[3], m[2]>> : m \in get_transitions(fa)})
                      EXCEPT !.minimal = FALSE])

lang_union(fa, other) == Nondeterministic(unionfa(nondeterminize(fa).a, nondeterminize(other).a))
lang_concat(fa, other) == Nondeterministic(concatfa(nondeterminize(fa).a, nondeterminize(other).a))
lang_intersect(fa, other) == Deterministic(insecfa(determinize(fa).a, determinize(other).a, FALSE))
lang_difference(fa, other) == Deterministic(insecfa(determinize(fa).a, determinize(other).a, TRUE))
lang_symmetric_difference(fa, other) ==
    lang_union(lang_difference(fa, other), lang_difference(other, fa))

\* An NFA is determinized without a look at its empty moves.
lang_complement(fa) ==
    IF fa.det THEN Deterministic(compldfa(fa.a))
    ELSE Nondeterministic(dfa2nfa(compldfa(nfa2dfa(fa.a))))

minimize(fa) == Deterministic(dfamdfa(fa.a))

\* nondeterministic_finite_automaton::minimize(): the objects that may result.
minimize_nfa(fa) == {Nondeterministic(n) : n \in nfa2mnfa(fa.a, dfamdfa(nfa2dfa(fa.a)))}

co_determinize(fa, min) ==
    LET rcod == determinize(reverse_language(fa))
    IN  reverse_language(IF min THEN minimize(rcod) ELSE rcod)

\* For a DFA the last of the given states counts.  The minimal flag stays.
set_initial_states(fa, S) ==
    IF ~fa.det THEN [fa EXCEPT !.a.init = S]
    ELSE IF S = {} THEN fa ELSE [fa EXCEPT !.a.init = Max(S)]
set_final_states(fa, S) == [fa EXCEPT !.a.final = S]

-----------------------------------------------------------------------------
(* Yes and no questions.                                                   *)

lang_subset_of(fa, other) == inclusion(determinize(fa).a, determinize(other).a, TRUE)
lang_disjoint_to(fa, other) == inclusion(determinize(fa).a, determinize(other).a, FALSE)
SameLanguage(fa, other) == lang_subset_of(fa, other) /\ lang_subset_of(other, fa)

is_folu(fa) == folutest(fa.a)
\* "Get minimized automaton" copies the automaton as it is.
to_monoid(fa) == dfa2mon(determinize(fa).a)

-----------------------------------------------------------------------------
(* antichain__is_superset_of(): game states <<state of other, set of       *)
(* states of this, word>>; this is no superset if one with initial states  *)
(* on both sides is reached.                                               *)

superset_check_winning_condition(this_initial, other_initial, g) ==
    g[1] \in other_initial /\ this_initial \subseteq g[2]

\* Mutant: states without successors are forgotten.
Controllable_live(fa, S, l) ==
    {q \in States(fa.a) : LET next == successor_states(fa, {q}, l)
                          IN  next \subseteq S /\ next # {}}

\* One letter back from a game state: the states that the letter takes into the set.
Controllable(fa, S, l) ==
    {q \in States(fa.a) : LET next == successor_states(fa, {q}, l)
                          IN  next \subseteq S /\ (next = {} \/ \E p \in S :
                                                     q \in predecessor_states(fa, {p}, l))}

\* The game states before g, in the order in which the loops meet them.
Extended(fa, other, g) ==
    LET goals(l) == InOrder(predecessor_states(other, {g[1]}, l), LAMBDA p, q : p < q)
        one(l) == [i \in DOMAIN goals(l) |-> <<goals(l)[i], Controllable(fa, g[2], l), <<l>> \o g[3]>>]
    IN  FoldLeft(LAMBDA s, l : s \o one(l), <<>>, [l \in Letters(fa.a) |-> l])

\* A game state with more states obsoletes one with fewer.
Covered(set, g) == \E h \in set : h[1] = g[1] /\ g[2] \subseteq h[2]
Inserted(set, g) ==
    IF Covered(set, g) THEN set
    ELSE {h \in set : ~(h[1] = g[1] /\ h[2] \subseteq g[2])} \cup {g}

RECURSIVE Attract(_, _, _, _)
Attract(fa, other, attractor, extension) ==
    LET this_initial == epsilon_closure(fa, initial_states(fa))
        other_initial == epsilon_closure(other, initial_states(other))
        next == FoldSet(LAMBDA g, s : s \o Extended(fa, other, g), <<>>, extension)
        winning == {i \in DOMAIN next :
                      superset_check_winning_condition(this_initial, other_initial, next[i])}
        found == {g \in FoldLeft(Inserted, {}, next) : ~Covered(attractor, g)}
    IN  IF extension = {} THEN [holds |-> TRUE, word |-> <<>>]
        ELSE IF winning # {} THEN [holds |-> FALSE, word |-> next[Min(winning)][3]]
        ELSE Attract(fa, other, FoldSet(LAMBDA g, set : Inserted(set, g), attractor, found), found)

antichain__is_superset_of(fa, other) ==
    LET this_final == inverted_epsilon_closure(fa, final_states(fa))
        first == {<<q, States(fa.a) \ this_final, <<>>>> :
                    q \in inverted_epsilon_closure(other, final_states(other))}
        won == {g \in first : superset_check_winning_condition(
                  epsilon_closure(fa, initial_states(fa)),
                  epsilon_closure(other, initial_states(other)), g)}
    IN  IF fa.a.alphabet_size # other.a.alphabet_size \/ won # {}
        THEN [holds |-> FALSE, word |-> <<>>]
        ELSE Attract(fa, other, first, first)

-----------------------------------------------------------------------------
(* amore_alf_glue.h: does the hypothesis have the model's language?        *)

automaton_antichain_equivalence_query(model, hypothesis) ==
    LET superset == antichain__is_superset_of(model, hypothesis)
    IN  IF ~superset.holds THEN superset ELSE antichain__is_superset_of(hypothesis, model)

automaton_classic_equivalence_query(model, hypothesis) ==
    LET more == get_sample_word(lang_difference(model, hypothesis))
        fewer == get_sample_word(lang_difference(hypothesis, model))
    IN  IF more.reachable THEN [holds |-> FALSE, word |-> more.word]
        ELSE [holds |-> ~fewer.reachable, word |-> fewer.word]

\* AntichainFrom is 8 in the source.
automaton_equivalence_query(model, hypothesis, AntichainFrom) ==
    IF \E fa \in {model, hypothesis} : ~fa.det /\ get_state_count(fa) >= AntichainFrom
    THEN automaton_antichain_equivalence_query(model, hypothesis)
    ELSE automaton_classic_equivalence_query(model, hypothesis)

-----------------------------------------------------------------------------
(* serialize() and deserialize(): a sequence of numbers, its length first. *)

\* The moves as a stream, sorted as the loops meet them.
Stream(moves, n) ==
    LET inOrder == InOrder(moves, LAMBDA m1, m2 :
                       (m1[1] * n + m1[2]) * n + m1[3] < (m2[1] * n + m2[2]) * n + m2[3])
    IN  FlattenSeq([i \in DOMAIN inOrder |-> <<inOrder[i][2], inOrder[i][1] - 1, inOrder[i][3]>>])

Counted(S) == <<Cardinality(S)>> \o InOrder(S, LAMBDA p, q : p < q)

serialize(fa) ==
    IF fa.a = NULL THEN <<>>
    ELSE LET body == <<IF fa.det THEN 1 ELSE 0, fa.a.alphabet_size, get_state_count(fa)>>
                     \o Counted(initial_states(fa)) \o Counted(final_states(fa))
                     \o <<Cardinality(get_transitions(fa))>>
                     \o Stream(get_transitions(fa), get_state_count(fa))
         IN  <<Len(body)>> \o body

\* A dfa's delta without the moves that are not given: they go to a new sink.
Completed(n, alphabet_size, moves) ==
    LET sink == \E q \in 0..(n - 1), l \in 1..alphabet_size : \A m \in moves : m[1] # l \/ m[2] # q
        goal(l, q) == {m[3] : m \in {t \in moves : t[1] = l /\ t[2] = q}}
        states == 0..(IF sink THEN n ELSE n - 1)
    IN  [l \in 1..alphabet_size |-> [q \in states |-> IF goal(l, q) = {} THEN n ELSE Max(goal(l, q))]]

\* What a stream says, or NULL: the fields of the header, then what they count.
Parsed(ser) ==
    LET inits == ser[5]
        finals == ser[6 + inits]
        moves == ser[7 + inits + finals]
        first == 7 + inits + finals
    IN  IF Len(ser) < 7 \/ Len(ser) # ser[1] + 1 THEN NULL
        ELSE IF Len(ser) < 6 + inits \/ Len(ser) < first THEN NULL
        ELSE IF Len(ser) # first + 3 * moves THEN NULL
        ELSE [alphabet_size |-> ser[3], n |-> ser[4],
              init |-> {ser[5 + i] : i \in 1..inits},
              final |-> {ser[6 + inits + i] : i \in 1..finals},
              moves |-> {<<ser[first + 3 * i - 1] + 1, ser[first + 3 * i - 2], ser[first + 3 * i]>> :
                            i \in 1..moves}]

\* The objects that may result.  The final flags are allocated before the sink is added:
\* whether the sink is final is whatever lies behind them.
deserialize(ser) ==
    LET p == Parsed(ser)
        det == ser[2] = 1
        null == {[det |-> det, a |-> NULL]}
        inRange == /\ p.init \cup p.final \subseteq 0..(p.n - 1)
                   /\ \A m \in p.moves : /\ m[1] \in (IF det THEN 1 ELSE 0)..p.alphabet_size
                                         /\ {m[2], m[3]} \subseteq 0..(p.n - 1)
        delta == Completed(p.n, p.alphabet_size, p.moves)
        n == Cardinality(DOMAIN delta[1])
        halfBuilt == {[det |-> det, a |-> HalfBuilt]}
        contradicts == det /\ \E m, o \in p.moves : m # o /\ m[1] = o[1] /\ m[2] = o[2]
    IN  IF p = NULL THEN null
        ELSE IF p.alphabet_size < 1 \/ p.n < 1 THEN halfBuilt
        ELSE IF ~inRange THEN null
        ELSE IF contradicts THEN halfBuilt
        ELSE IF ~det
        THEN {Nondeterministic(NewNfa(p.n, p.alphabet_size, TRUE, p.init, p.final, p.moves))}
        ELSE IF ser[5] # 1 THEN null
        ELSE {Deterministic(NewDfa(n, p.alphabet_size, Max(p.init), p.final \cup garbage, delta, FALSE)) :
                garbage \in (IF n > p.n THEN {{}, {p.n}} ELSE {{}})}

\* construct(): a DFA is built in place, and its final states are allocated with the sink;
\* an NFA goes through serialize and deserialize.
construct(is_dfa, alphabet_size, n, initial, final, moves) ==
    LET delta == Completed(n, alphabet_size, moves)
    IN  IF is_dfa
        THEN IF \/ Cardinality(initial) # 1
                \/ \E m \in moves : m[1] = 0 \/ \E o \in moves : m[1] = o[1] /\ m[2] = o[2] /\ m # o
             THEN NULL
             ELSE Deterministic(NewDfa(Cardinality(DOMAIN delta[1]), alphabet_size, Max(initial),
                                       final, delta, FALSE))
        ELSE Nondeterministic(NewNfa(n, alphabet_size, TRUE, initial, final, moves))
=============================================================================
