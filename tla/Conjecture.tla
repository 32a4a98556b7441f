----------------------------- MODULE Conjecture -----------------------------
(***************************************************************************)
(* libalf::moore_machine<answer>, the conjecture of the L* family, and its *)
(* subclass finite_automaton: states 0..state_count-1, sets of successors, *)
(* an output for every state.  The languages to be learned are given in    *)
(* the same form.                                                          *)
(***************************************************************************)
EXTENDS KnowledgebaseTree

NoConjecture == [state_count |-> 0]

\* All states reached from current by word; a missing transition leads nowhere.
run(m, current, word) ==
    LET successors(states, a) ==
            UNION {IF a \in DOMAIN m.transitions[q] THEN m.transitions[q][a] ELSE {} :
                      q \in states}
    IN  FoldLeft(successors, current, word)

\* What is said of a word that leads to these states: with several of them (a
\* finite_automaton) it is accepted if one accepts; a run that got stuck rejects.
output_of(m, states, reject) ==
    LET outputs == {m.output_mapping[q] : q \in states}
    IN  IF outputs \subseteq {reject} THEN reject ELSE CHOOSE o \in outputs \ {reject} : TRUE
classify(m, word, reject) == output_of(m, run(m, m.initial_states, word), reject)

\* The deterministic machine with n states, all letters in 0..asize-1, successor
\* delta[q][a], and outputs out[q].
Deterministic(n, asize, delta, out) ==
    [state_count |-> n, input_alphabet_size |-> asize, initial_states |-> {0},
     output_mapping |-> out,
     transitions |-> [q \in 0..(n - 1) |-> [a \in 0..(asize - 1) |-> {delta[q][a]}]]]

=============================================================================
