------------------------------ MODULE Automata ------------------------------
(***************************************************************************)
(* A program that keeps one automaton of libAMoRE++ and works on it: reads *)
(* it from a text or a stream, replaces it by the result of an operation,  *)
(* asks questions about it.  Operands come from a small library.           *)
(*                                                                         *)
(* fa is the object, did the last operation with its operand and answers.  *)
(***************************************************************************)
EXTENDS FiniteAutomaton, AmoreGenrex, AmoreClasses, TLC

CONSTANTS
    AlphabetSize,   \* letters 1..AlphabetSize
    Texts,          \* regular expressions a program may give
    Streams,        \* streams a program may deserialize
    Conjectures,    \* automata of libalf: [is_dfa, n, initial, final, moves]
    Others,         \* operands
    AntichainFrom,  \* the number of states from which the antichain algorithm is used
    Careless,       \* what the program does not take care of: see Safe
    MaxStates,      \* an automaton with more states is not used further
    MaxMonoid,      \* a larger monoid is not classified
    MaxOperations,  \* operations in a row
    WordLength,     \* words that are compared
    WitnessLength   \* words that may follow or precede them

VARIABLES fa, did, operations

vars == <<fa, did, operations>>

-----------------------------------------------------------------------------
(* Languages, by definition.                                               *)

WordsUpTo(n) == UNION {[1..k -> 1..AlphabetSize] : k \in 0..n}
Words == WordsUpTo(WordLength)
Witnesses == WordsUpTo(WitnessLength)

RECURSIVE Spread(_, _)
Spread(moves, S) ==
    LET more == S \cup {m[3] : m \in {e \in moves : e[1] = 0 /\ e[2] \in S}}
    IN  IF more = S THEN S ELSE Spread(moves, more)

\* The states in which runs from S with the label word end.
RunOn(moves, S, word) ==
    FoldLeft(LAMBDA T, l : Spread(moves, {m[3] : m \in {t \in moves : t[1] = l /\ t[2] \in T}}),
             Spread(moves, S), word)
Reading(x, S, word) == RunOn(get_transitions(x), S, word)
Accepts(x, word) == Reading(x, initial_states(x), word) \cap final_states(x) # {}

Splits(word) == {<<SubSeq(word, 1, i), SubSeq(word, i + 1, Len(word))>> : i \in 0..Len(word)}

RECURSIVE Matches(_, _)
Matches(e, word) ==
    CASE e.op = "@" -> word = <<>>
      [] e.op = "%" -> FALSE
      [] e.op = "~" -> ~Matches(e.sons[1], word)
      [] e.op = "U" -> Matches(e.sons[1], word) \/ Matches(e.sons[2], word)
      [] e.op = "&" -> Matches(e.sons[1], word) /\ Matches(e.sons[2], word)
      [] e.op = "-" -> Matches(e.sons[1], word) /\ ~Matches(e.sons[2], word)
      [] e.op = "." -> \E s \in Splits(word) : Matches(e.sons[1], s[1]) /\ Matches(e.sons[2], s[2])
      [] e.op \in {"*", "+"} ->
            \/ word = <<>> /\ e.op = "*"
            \/ \E s \in Splits(word) : /\ s[1] # <<>> \/ s[2] = <<>>
                                       /\ Matches(e.sons[1], s[1])
                                       /\ s[2] = <<>> \/ Matches(Unary("*", e.sons[1]), s[2])
      [] OTHER -> word = <<Number(e.op)>>

RECURSIVE Repeats(_, _)
\* One or more accepted words in a row.
Repeats(x, word) ==
    Accepts(x, word) \/ \E s \in Splits(word) : s[1] # <<>> /\ s[2] # <<>> /\ Accepts(x, s[1])
                                                /\ Repeats(x, s[2])

RECURSIVE Shuffles(_, _)
\* The pairs of words that may be shuffled to this one.
Shuffles(word, pairs) ==
    IF word = <<>> THEN pairs
    ELSE Shuffles(Tail(word), {<<Append(p[1], Head(word)), p[2]>> : p \in pairs}
                              \cup {<<p[1], Append(p[2], Head(word))>> : p \in pairs})

\* What the result of an operation on x and y accepts.
Meaning(op, x, y, w) ==
    CASE op \in {"determinize", "nondeterminize", "minimize", "remove_epsilon_transitions",
                 "co_determinize", "serialize", "to_regex"} -> Accepts(x, w)
      [] op = "lang_complement" -> ~Accepts(x, w)
      [] op = "reverse_language" -> Accepts(x, Reverse(w))
      [] op = "lang_union" -> Accepts(x, w) \/ Accepts(y, w)
      [] op = "lang_intersect" -> Accepts(x, w) /\ Accepts(y, w)
      [] op = "lang_difference" -> Accepts(x, w) /\ ~Accepts(y, w)
      [] op = "lang_symmetric_difference" -> Accepts(x, w) # Accepts(y, w)
      [] op = "lang_concat" -> \E s \in Splits(w) : Accepts(x, s[1]) /\ Accepts(y, s[2])
      [] op = "shuffle" -> \E p \in Shuffles(w, {<<<<>>, <<>>>>}) : Accepts(x, p[1]) /\ Accepts(y, p[2])
      [] op = "leftquot" -> \E v \in Witnesses : Accepts(y, v) /\ Accepts(x, v \o w)
      [] op = "rightquot" -> \E v \in Witnesses : Accepts(y, v) /\ Accepts(x, w \o v)
      [] op = "star" -> w = <<>> \/ Repeats(x, w)
      [] op = "plus" -> Repeats(x, w)
      [] op = "minL" -> Accepts(x, w) /\ \A s \in Splits(w) : s[2] = <<>> \/ ~Accepts(x, s[1])
      [] op = "maxL" -> Accepts(x, w) /\ \A v \in Witnesses : v = <<>> \/ ~Accepts(x, w \o v)
      [] op = "pref" -> \E v \in Witnesses : Accepts(x, w \o v)
      [] op = "suff" -> \E v \in Witnesses : Accepts(x, v \o w)

-----------------------------------------------------------------------------
Built(x) == x.a \notin {NULL, HalfBuilt}
Usable(x) == Built(x) /\ get_state_count(x) <= MaxStates
GoesOn(x) == Usable(x) /\ operations < MaxOperations

\* What a careful program watches: empty moves ("epsilon") only where they are looked at.
Safe(x) == EmptyMoves(x) = {} \/ "epsilon" \in Careless

\* nfa2mnfa() loses moves with superfluous states ("superfluous"), and a minimal NFA that it
\* makes of lines it should not have taken may be wrong ("lines").
MinimizesRight(x, result) ==
    /\ Productive(x.a) = States(x.a) \/ "superfluous" \in Careless
    /\ ~result.a.minimal \/ LinesInOrder(Basis(minimize(determinize(x)).a)) \/ "lines" \in Careless

Init == /\ fa \in Others
        /\ did = [op |-> "start", with |-> NULL]
        /\ operations = 0

Replace(op, with, result) ==
    /\ operations' = operations + 1
    /\ fa' = result
    /\ did' = [op |-> op, with |-> with]

\* An object is made once: what came before does not matter to it.

\* nondeterministic_finite_automaton(rex, success), for an expression without %, ~, & and -
\* that rex2nfa() can read; a text that is not an expression leaves no nfa.
FromText ==
    /\ did.op = "start"
    /\ \E text \in Texts :
        LET tree == rexFromString(AlphabetSize, text)
        IN  \/ tree = {} /\ Replace("from_text", text, Nondeterministic(NULL))
            \/ \E e \in tree : /\ Standard(e) /\ Readable(e)
                              /\ Replace("from_text", text, Nondeterministic(rex2nfa(AlphabetSize, e)))

\* genrex2nfa() of the library, for all expressions but those with a "%" that it cannot
\* optimize away.
FromGeneralized ==
    /\ did.op = "start"
    /\ \E text \in Texts : \E e \in rexFromString(AlphabetSize, text) :
        /\ ~Standard(e) /\ ReadableTree(Optimized(e))
        /\ Replace("from_text", text, Nondeterministic(genrex2nfa(AlphabetSize, e)))

FromStream ==
    /\ did.op = "start"
    /\ \E ser \in Streams : \E x \in deserialize(ser) : Replace("from_stream", ser, x)

\* automaton_libalf2amore()
FromConjecture ==
    /\ did.op = "start"
    /\ \E c \in Conjectures :
        Replace("from_conjecture", c,
                construct(c.is_dfa, AlphabetSize, c.n, c.initial, c.final, c.moves))

SaveAndLoad ==
    /\ GoesOn(fa)
    /\ \E x \in deserialize(serialize(fa)) : Replace("serialize", NULL, x)

\* to_regex(), and an automaton from its text; for an empty language the text is "%".
ThroughText ==
    /\ GoesOn(fa) /\ Safe(fa)
    /\ \E tree \in nfa2rex(nondeterminize(fa).a) :
        LET again == rexFromString(AlphabetSize, infix(tree, 0))
        IN  Replace("to_regex", NULL,
                    IF again = {} THEN Nondeterministic(NULL)
                    ELSE Nondeterministic(rex2nfa(AlphabetSize, CHOOSE e \in again : TRUE)))

\* Operations on the object alone.
Unaries(x) ==
    {<<"determinize", determinize(x)>>, <<"nondeterminize", nondeterminize(x)>>,
     <<"reverse_language", reverse_language(x)>>, <<"lang_complement", lang_complement(x)>>,
     <<"co_determinize", co_determinize(x, FALSE)>>, <<"co_determinize", co_determinize(x, TRUE)>>}
    \cup (IF x.det THEN {<<"minimize", minimize(x)>>}
          ELSE {<<"remove_epsilon_transitions", remove_epsilon_transitions(x)>>})

Transform == /\ GoesOn(fa) /\ Safe(fa)
             /\ \E u \in Unaries(fa) : Replace(u[1], NULL, u[2])

\* Of an NFA; a conjecture of libalf may have more states than others.
Minimize ==
    /\ Built(fa) /\ ~fa.det /\ Safe(fa)
    /\ GoesOn(fa) \/ did.op = "from_conjecture"
    /\ \E result \in minimize_nfa(fa) :
        MinimizesRight(fa, result) /\ Replace("minimize", NULL, result)

Combine ==
    /\ GoesOn(fa) /\ Safe(fa)
    /\ \E other \in Others :
        \/ Replace("lang_union", other, lang_union(fa, other))
        \/ Replace("lang_concat", other, lang_concat(fa, other))
        \/ Replace("lang_intersect", other, lang_intersect(fa, other))
        \/ Replace("lang_difference", other, lang_difference(fa, other))
        \/ Replace("lang_symmetric_difference", other, lang_symmetric_difference(fa, other))

\* The transformations of libAMoRE that libAMoRE++ does not offer, on its structures: those
\* on NFAs not on one with room for empty moves, maxL, pref and suff on a minimal DFA.
UseLibrary ==
    /\ GoesOn(fa)
    /\ \/ /\ ~fa.det /\ ~fa.a.is_eps
          /\ \/ Replace("star", NULL, Nondeterministic(starnfa(fa.a, FALSE)))
             \/ Replace("plus", NULL, Nondeterministic(starnfa(fa.a, TRUE)))
             \/ Replace("reverse_language", NULL, Nondeterministic(revnfa(fa.a)))
             \/ \E other \in Others :
                  Replace("shuffle", other, Nondeterministic(shuffle(fa.a, nondeterminize(other).a)))
       \/ /\ fa.det
          /\ \/ Replace("minL", NULL, Deterministic(minL(fa.a)))
             \/ \E other \in {o \in Others : o.det} :
                  \/ Replace("leftquot", other, Nondeterministic(leftquot(fa.a, other.a)))
                  \/ Replace("rightquot", other, Deterministic(rightquot(fa.a, other.a)))
       \/ /\ fa.det /\ fa.a.minimal
          /\ \/ Replace("maxL", NULL, Deterministic(maxL(fa.a)))
             \/ Replace("pref", NULL, Deterministic(pref(fa.a)))
             \/ Replace("suff", NULL, Nondeterministic(suff(fa.a)))

\* Not on the automaton that minimize() made: it would go on to claim that it is minimal.
SetStates ==
    /\ GoesOn(fa)
    /\ ~fa.a.minimal
    /\ \E S \in SUBSET States(fa.a) :
        \/ S # {} /\ Replace("set_initial_states", S, set_initial_states(fa, S))
        \/ Replace("set_final_states", S, set_final_states(fa, S))

\* Questions leave the automaton as it is.
Ask ==
    /\ Usable(fa) /\ Safe(fa) /\ did.op # "ask"
    /\ \E other \in Others :
         /\ did' = [op |-> "ask", with |-> other,
                    empty |-> is_empty(fa), sample |-> get_sample_word(fa).word,
                    universal |-> is_universal(fa), sink |-> negative_sink(fa),
                    subset |-> lang_subset_of(fa, other), disjoint |-> lang_disjoint_to(fa, other),
                    superset |-> antichain__is_superset_of(fa, other),
                    equivalent |-> automaton_equivalence_query(fa, other, AntichainFrom)]
         /\ UNCHANGED <<fa, operations>>

\* What the tests and transformations of its monoid say of a minimal automaton; whether it is
\* star-free (sf) may be asked before or after the D-classes are computed.
Classified(mon, ds, sf) ==
    [op |-> "classify", with |-> mon, sf |-> sf, dd1 |-> testdd1(mon), folu |-> is_folu(fa),
     props |-> proptest(mon), language |-> empty_full_lan(fa.a), ds |-> ds, rs |-> mon2rel(mon),
     sfexp |-> IF sf THEN mon2sfx(fa.a, mon, ds) ELSE <<>>]

Classify ==
    /\ Usable(fa) /\ fa.det /\ fa.a.minimal /\ did.op # "classify"
    /\ \E mon \in {to_monoid(fa)} :
        /\ Len(mon.no2trans) <= MaxMonoid
        /\ \E ds \in {mon2dcl(mon)} : \E sf \in {sftest(mon), test_htrivial(ds)} :
                did' = Classified(mon, ds, sf)
    /\ UNCHANGED <<fa, operations>>

Next == \/ FromText \/ FromGeneralized \/ FromStream \/ FromConjecture \/ SaveAndLoad \/ ThroughText
        \/ Transform \/ Minimize \/ Combine \/ UseLibrary \/ SetStates \/ Ask \/ Classify

Spec == Init /\ [][Next]_vars

-----------------------------------------------------------------------------
\* What a conjecture of libalf accepts: missing moves of a DFA reject.
ConjectureAccepts(c, word) == RunOn(c.moves, c.initial, word) \cap c.final # {}

\* Every operation of libAMoRE++ and libAMoRE gives an automaton for the language that its
\* name says, whatever operations made its arguments.
OperationsRight ==
    [][operations' > operations /\ Built(fa') =>
        CASE did'.op = "from_text" ->
                LET e == CHOOSE t \in rexFromString(AlphabetSize, did'.with) : TRUE
                IN  \A w \in Words : Accepts(fa', w) = Matches(e, w)
          [] did'.op = "from_conjecture" ->
                \A w \in Words : Accepts(fa', w) = ConjectureAccepts(did'.with, w)
          [] did'.op = "from_stream" ->
                LET p == Parsed(did'.with)
                IN  \A w \in Words : Accepts(fa', w) =
                        ConjectureAccepts([moves |-> p.moves, initial |-> p.init, final |-> p.final], w)
          [] did'.op \in {"set_initial_states", "set_final_states"} -> TRUE
          [] OTHER -> \A w \in Words : Accepts(fa', w) = Meaning(did'.op, fa, did'.with, w)]_vars

\* The ways to compare languages agree with the languages and with each other: the inclusion
\* test of libAMoRE for all words but the empty one, which it does not look at, the antichain
\* algorithm and the equivalence query of libalf's teachers for all words, with a
\* counterexample that tells the languages apart.
QuestionsRight ==
    did.op = "ask" =>
        LET other == did.with
            both == {w \in Witnesses : Accepts(fa, w) /\ Accepts(other, w)}
            more == {w \in Witnesses : Accepts(fa, w) /\ ~Accepts(other, w)}
            fewer == {w \in Witnesses : ~Accepts(fa, w) /\ Accepts(other, w)}
        IN  /\ did.empty <=> (both \cup more = {})
            /\ ~did.empty => did.sample \in both \cup more
            /\ did.universal <=> \A w \in Witnesses : Accepts(fa, w)
            /\ more \ {<<>>} # {} => ~did.subset
            /\ did.subset \/ more # {}
            /\ both \ {<<>>} # {} => ~did.disjoint
            /\ did.disjoint \/ both # {}
            /\ did.superset.holds <=> fewer = {}
            /\ ~did.superset.holds => did.superset.word \in fewer
            /\ did.equivalent.holds <=> (more \cup fewer = {})
            /\ ~did.equivalent.holds => did.equivalent.word \in more \cup fewer
            /\ \A q \in States(fa.a) : q \in did.sink <=>
                    ~ \E w, v \in Witnesses : Len(w) < MaxStates /\ Len(v) < MaxStates
                                              /\ q \in Reading(fa, initial_states(fa), w)
                                              /\ Reading(fa, {q}, v) \cap final_states(fa) # {}

RECURSIVE AcceptedFrom(_, _, _)
\* The words up to WitnessLength that an NFA without empty moves accepts: word and what may
\* follow it when the states S are reached.
AcceptedFrom(na, S, word) ==
    IF S = {} THEN {}
    ELSE (IF S \cap na.final # {} THEN {word} ELSE {})
         \cup (IF Len(word) = WitnessLength THEN {}
               ELSE UNION {AcceptedFrom(na, Successors(na, S, l), Append(word, l)) : l \in Letters(na)})

\* The languages of NFAs with n states, as far as Witnesses tell.
LanguagesWith ==
    [n \in 1..2 |->
        {AcceptedFrom([final |-> final, delta |-> delta, alphabet_size |-> AlphabetSize], initial, <<>>) :
            initial \in {0..q : q \in 0..(n - 1)}, final \in SUBSET (0..(n - 1)),
            delta \in SUBSET ((1..AlphabetSize) \X (0..(n - 1)) \X (0..(n - 1)))}]

\* An automaton that claims to be minimal is: the states of a DFA are reachable, and no two of
\* them accept the same words; no NFA with fewer states accepts the words that an NFA does.
MinimalMeansMinimal ==
    Built(fa) /\ fa.a.minimal =>
        IF fa.det
        THEN LET from(q) == {w \in Words : Accepts([fa EXCEPT !.a.init = q], w)}
             IN  /\ \A q \in States(fa.a) : shortest_run(fa, {fa.a.init}, {q}).reachable
                 /\ \A p, q \in States(fa.a) : p # q => from(p) # from(q)
        ELSE \A n \in DOMAIN LanguagesWith :
                n < get_state_count(fa) => AcceptedFrom(fa.a, fa.a.init, <<>>) \notin LanguagesWith[n]

\* A word of generators is in ((u.A* & A*.v) - A*.w.A*) for one element, given the elements
\* for all shorter words.
Expressed(sfexp, m, w, of) ==
    /\ \E i \in DOMAIN w : \E n \in of[SubSeq(w, 1, i - 1)] : <<n, w[i]>> \in sfexp[m].u
    /\ \E i \in DOMAIN w : \E n \in of[SubSeq(w, i + 1, Len(w))] : <<w[i], n>> \in sfexp[m].v
    /\ \A i, j \in DOMAIN w : i < j =>
          \A n \in of[SubSeq(w, i + 1, j - 1)] : <<w[i], n, w[j]>> \notin sfexp[m].w0
    /\ \A i \in DOMAIN w : w[i] \notin sfexp[m].w1

\* Each expression of mon2sfx.c stands for the words of generators of its element.
ExpressionsRight(mon, sfexp) ==
    LET ofLength(k, of) == [w \in [1..k -> 1..mon.gno] |-> {m \in DOMAIN sfexp : Expressed(sfexp, m, w, of)}]
        of == FoldLeft(LAMBDA f, k : f @@ ofLength(k, f), (<<>> :> {0}), [k \in 1..WordLength |-> k])
        element(w) == FoldLeft(LAMBDA e, g : mon.gensucc[e + 1][g], 0, w)
    IN  \A w \in DOMAIN of \ {<<>>} : of[w] = {element(w)} \cap DOMAIN sfexp

\* The D-classes are the sets of elements that generate the same two-sided ideal, cut into
\* H-classes of one size; the regular ones are those with an idempotent.
EggBoxesRight(mon, ds) ==
    LET ideal(e) == Product(mon, Product(mon, Elements(mon), {e}), Elements(mon))
        ideals == [e \in Elements(mon) |-> ideal(e)]
    IN  /\ \A i \in DOMAIN ds :
              LET D == {e \in Elements(mon) : ideals[e] = ideals[ds[i].org]}
              IN  /\ Members(mon, ds[i]) = D
                  /\ SizeOf(ds[i]) = Cardinality(D)
                  /\ ds[i].regular <=> \E e \in D : idempotent(e, mon)
        /\ Count(ds) = Cardinality(Elements(mon))

\* A product of an element and a generator whose word is not that of an element has the left
\* side of a relation as a suffix, or has the zero as a factor; no relation implies another.
RelationsRight(mon, rs) ==
    LET suffix(v, w) == Len(v) <= Len(w) /\ SubSeq(w, Len(w) - Len(v) + 1, Len(w)) = v
    IN  /\ \A e \in Elements(mon), g \in 1..mon.gno :
              LET goes == mon.gensucc[e + 1][g]
              IN  \/ mon.word[goes + 1] = Side(mon, <<e, g>>)
                  \/ \E i \in DOMAIN rs : suffix(Side(mon, rs[i]), Side(mon, <<e, g>>))
                  \/ goes = zero(mon) /\ zero(mon) \in {e, g}
        /\ \A i, j \in DOMAIN rs : i # j => ~suffix(Side(mon, rs[i]), Side(mon, rs[j]))

\* The classes found by tests on the monoid of a minimal automaton are those of its language,
\* and contain each other as the classes do.
ClassesRight ==
    did.op = "classify" =>
        LET goes(w) == [q \in States(fa.a) |-> FoldLeft(LAMBDA s, l : fa.a.delta[l][s], q, w)]
            long == {w \in Witnesses : Len(w) \in (get_state_count(fa) - 1)..WitnessLength}
            counts == \E w \in Witnesses : \E q \in States(fa.a) :
                        goes(w)[q] # q /\ goes(w)[goes(w)[q]] = q
            p == did.props
        IN  /\ counts => ~did.sf
            /\ p.nilpotent <=> Cardinality({Accepts(fa, w) : w \in long}) = 1
            /\ p.definite /\ p.revdefinite => p.nilpotent
            /\ p.definite \/ p.revdefinite => p.gendefinite
            /\ p.gendefinite => p.localtest
            /\ p.localtest => did.dd1
            /\ did.dd1 => did.sf
            /\ did.language = "empty" => is_empty(fa)
            /\ did.language = "full" => is_universal(fa)
            /\ EggBoxesRight(did.with, did.ds)
            /\ RelationsRight(did.with, did.rs)
            /\ did.sf => ExpressionsRight(did.with, did.sfexp)

\* "if(q1 is final and q2 is not final) then L(dfa1) is not a subset of L(dfa2)", for each
\* pair of states: lang_subset_of() tells whether one language contains the other.
InclusionRight ==
    did.op = "ask" =>
        (did.subset <=> \A w \in Witnesses : Accepts(fa, w) => Accepts(did.with, w))

\* remove_epsilon_transitions(): an automaton without empty moves, for the same language.
EmptyMovesRemoved ==
    [][operations' > operations /\ did'.op = "remove_epsilon_transitions" =>
        /\ EmptyMoves(fa') = {}
        /\ \A w \in Words : Accepts(fa', w) = Accepts(fa, w)]_vars
=============================================================================
