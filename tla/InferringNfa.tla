---------------------------- MODULE InferringNfa ----------------------------
(***************************************************************************)
(* nfa_inferring_MiniSat: a nondeterministic automaton with n states.  The *)
(* label of a node is the set of all states that its word can reach.       *)
(***************************************************************************)
EXTENDS PrefixTree

\* The states that a letter leads to, from some state of a set.
Step(d, S, a) == UNION {d[p][a] : p \in S}

\* Clauses (0) to (3): the labels are closed under d, and every label but the root's is
\* the target of a transition.  The variables y name that transition.
LabelledByRuns(t, d, x) ==
    /\ 0 \in x[root]
    /\ \A e \in Edges(t, x) : /\ Step(d, x[e[1]], e[2]) \subseteq After(t, x, e)
                              /\ After(t, x, e) \subseteq Step(d, x[e[1]], e[2])

\* Clauses (4) and (5).  The variables z name the accepting state of a word.
AcceptedByRuns(t, x, f) ==
    \A u \in t.specified : IF t.output[u] THEN \E q \in x[u] : q \in f
                                          ELSE \A q \in x[u] : q \notin f

nfa_models(t, n) ==
    LET states == 0..(n - 1)
        labelled(d) == Labellings(t, SUBSET states, LAMBDA x : LabelledByRuns(t, d, x))
    IN  UNION {{m \in {[d |-> d, x |-> x, f |-> f] : x \in labelled(d), f \in SUBSET states} :
                   AcceptedByRuns(t, m.x, m.f)} : d \in [states -> [Letters(t) -> SUBSET states]]}

nfa_MiniSat(t, n) ==
    {[state_count |-> n, input_alphabet_size |-> t.alphabet_size, initial_states |-> m.x[root],
      output_mapping |-> [q \in 0..(n - 1) |-> q \in m.f], transitions |-> m.d] :
        m \in nfa_models(t, n)}

=============================================================================
