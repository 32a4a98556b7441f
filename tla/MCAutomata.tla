----------------------------- MODULE MCAutomata -----------------------------
\* Automata over the letters 1 and 2 with up to three states.
EXTENDS Automata

MCNothing == {}
MCEpsilon == {"epsilon"}

\* {empty word}; an even number of letters 1; words that end with 1.
OnlyEmpty == Deterministic(NewDfa(2, 2, 0, {0}, <<(0 :> 1) @@ (1 :> 1), (0 :> 1) @@ (1 :> 1)>>, FALSE))
Even == Deterministic(NewDfa(2, 2, 0, {0}, <<(0 :> 1) @@ (1 :> 0), (0 :> 0) @@ (1 :> 1)>>, FALSE))
EndsWith1 == Nondeterministic(NewNfa(2, 2, FALSE, {0}, {1}, {<<1, 0, 0>>, <<2, 0, 0>>, <<1, 0, 1>>}))
MCOthers == {OnlyEmpty, Even, EndsWith1}

MCTexts == {<<"a", "(", "a", "U", "b", ")", "*">>, <<"@", "U", "a", "b", "+">>,
            <<"(", "a", ")", "b", ")">>, <<"a", "U">>, <<"a", "b", "*", "U", "b", ".", "a">>,
            <<"~", "(", "a", "b", ")">>, <<"b", "(", "a", "*", "-", "a", ")", "*">>,
            <<"(", "b", "&", "~", "a", ")", "+", "U", "%", "&", "a", "U", "~", "~", "b", "a">>,
            <<"~", "(", "a", "(", "~", "b", ")", "*", "U", "b", ")">>,
            <<"~", "(", "@", "U", "(", "a", "&", "a", "b", "*", ")", "(", "~", "a", ")", "b", ")">>}

\* A DFA, an NFA, a stream cut off, a state that does not exist, a contradiction.
MCStreams == {<<14, 1, 2, 2, 1, 0, 1, 1, 4, 0, 0, 1, 0, 1, 0, 1, 0, 1, 1, 1, 1>>,
              <<13, 0, 2, 2, 1, 0, 1, 1, 2, 0, 0, 1, 1, 1, 1>>,
              <<13, 0, 2, 2, 1, 0, 1, 1, 2, 0, 0, 1, 1, 1>>,
              <<10, 0, 2, 2, 1, 0, 1, 2, 1, 0, 0, 1>>,
              <<13, 1, 2, 2, 1, 0, 1, 1, 2, 0, 0, 1, 0, 0, 0>>}

\* Moves are <<letter, from, to>>.  The DFAs with three states have larger monoids: one counts
\* up and down between 0 and 2, one has irregular D-classes.  Of the NFAs with four states one
\* has an equivalent with three that is searched for long; for the other no search is made.
MCConjectures == {[is_dfa |-> TRUE, n |-> 2, initial |-> {0}, final |-> {1}, moves |-> {<<1, 0, 1>>, <<2, 1, 1>>}],
                  [is_dfa |-> FALSE, n |-> 2, initial |-> {0, 1}, final |-> {1}, moves |-> {<<1, 0, 1>>, <<2, 0, 0>>}],
                  [is_dfa |-> TRUE, n |-> 3, initial |-> {0}, final |-> {2},
                   moves |-> {<<1, 0, 0>>, <<1, 1, 0>>, <<1, 2, 1>>, <<2, 0, 1>>, <<2, 1, 2>>, <<2, 2, 2>>}],
                  [is_dfa |-> TRUE, n |-> 3, initial |-> {0}, final |-> {2},
                   moves |-> {<<1, 0, 0>>, <<1, 1, 0>>, <<1, 2, 2>>, <<2, 0, 1>>, <<2, 1, 2>>, <<2, 2, 1>>}],
                  [is_dfa |-> FALSE, n |-> 4, initial |-> {2}, final |-> {1},
                   moves |-> {<<1, 2, 1>>, <<2, 1, 1>>, <<1, 3, 2>>, <<2, 1, 0>>, <<1, 2, 3>>,
                              <<1, 2, 2>>, <<2, 0, 0>>, <<2, 0, 3>>}],
                  [is_dfa |-> FALSE, n |-> 4, initial |-> {1, 3}, final |-> {0, 1},
                   moves |-> {<<2, 3, 2>>, <<2, 2, 0>>}]}
\* One with empty moves: 0 -> 1 -1-> 3 -> 2.
MCEmptyMoves == {[is_dfa |-> FALSE, n |-> 4, initial |-> {0}, final |-> {2},
                  moves |-> {<<0, 0, 1>>, <<1, 1, 3>>, <<0, 3, 2>>}]}
=============================================================================
