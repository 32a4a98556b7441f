------------------------------ MODULE Biermann ------------------------------
(***************************************************************************)
(* The two offline algorithms named after Biermann: MiniSat_biermann, on   *)
(* top of basic_biermann, finds a smallest mapping of the nodes of the     *)
(* knowledgebase to states with a SAT solver; original_biermann merges the *)
(* nodes whose subtrees agree up to a given depth.                         *)
(***************************************************************************)
EXTENDS StateMerging

CONSTANT Nondeterminism \* the depth to which original_biermann compares subtrees

\* C1: nodes with different answers.
Apart(base) == {<<u, v>> \in Known(base) \X Known(base) :
                   Smaller(u, v) /\ base.node[u].ans # base.node[v].ans}

\* C2: pairs of nodes that both have a child by the same letter.
Alike(base, alphabet_size) ==
    UNION {{<<p[1], p[2], Append(p[1], a), Append(p[2], a)>> :
               a \in Children(base, p[1]) \cap Children(base, p[2]) \cap 0..(alphabet_size - 1)} :
              p \in {q \in (DOMAIN base.node) \X (DOMAIN base.node) : Smaller(q[1], q[2])}}

create_constraints(base, alphabet_size) ==
    [apart |-> Apart(base), alike |-> Alike(base, alphabet_size)]

\* The nodes that some constraint is about; others get no state.
sources(c) == UNION {Range(l) : l \in c.apart \cup c.alike}

Satisfied(c, x) ==
    /\ \A l \in c.apart : Range(l) \subseteq DOMAIN x => x[l[1]] # x[l[2]]
    /\ \A l \in c.alike :
          Range(l) \subseteq DOMAIN x /\ x[l[1]] = x[l[2]] => x[l[3]] = x[l[4]]

\* The mappings that the solver may find for the clauses of csp2sat, under the assumption
\* that the first variable is true: the node with the smallest address is in state 0.  With
\* one state the clauses are all units: either they conflict, or none is left, which counts
\* as failure.
solve_constraints(c, mdfa_size) ==
    LET solutions ==
          FoldSet(LAMBDA n, found : {x \in {y @@ (n :> q) : y \in found, q \in 0..(mdfa_size - 1)} :
                                        Satisfied(c, x)},
                  {<<>>}, sources(c))
    IN  IF mdfa_size = 1 THEN {} ELSE {x \in solutions : \E n \in sources(c) : x[n] = 0}

\* What solution[n] is for a node without a state: the map inserts a zero.
At(solution, n) == IF n \in DOMAIN solution THEN solution[n] ELSE 0

solution2automaton(base, alphabet_size, solution, mdfa_size) ==
    LET at(q) == {n \in DOMAIN solution : solution[n] = q}
        states == 0..(mdfa_size - 1)
    IN  [state_count |-> mdfa_size, input_alphabet_size |-> alphabet_size,
         initial_states |-> {At(solution, <<>>)},
         output_mapping |-> [q \in states |->
             \E n \in at(q) : is_answered(base, n) /\ base.node[n].ans = TRUE],
         transitions |-> [q \in states |->
             [a \in UNION {Children(base, n) : n \in at(q)} \cap 0..(alphabet_size - 1) |->
                 {At(solution, Append(n, a)) : n \in {m \in at(q) : a \in Children(base, m)}}]]]

\* Without constraints the solver is skipped: one state with the answer of the first node
\* that has one.
Unconstrained(base) ==
    LET answered == {w \in Known(base) : \A v \in Known(base) : ~Smaller(v, w)}
        alphabet == base.largest_symbol
    IN  [state_count |-> 1, input_alphabet_size |-> alphabet, initial_states |-> {0},
         output_mapping |-> (0 :> (\E w \in answered : base.node[w].ans = TRUE)),
         transitions |-> (0 :> [a \in 0..(alphabet - 1) |-> {0}])]

\* The size grows until there is a solution, at the latest one state for every node; all
\* conjectures that may result.
MiniSat_biermann(base, alphabet_size) ==
    LET c == create_constraints(base, alphabet_size)
        mdfa_size == CHOOSE k \in 1..Cardinality(sources(c)) :
                        /\ solve_constraints(c, k) # {}
                        /\ \A j \in 1..(k - 1) : solve_constraints(c, j) = {}
    IN  IF Known(base) = {} THEN {RejectAll(1, (0 :> {0}))}
        ELSE IF c.apart \cup c.alike = {} THEN {Unconstrained(base)}
        ELSE {solution2automaton(base, alphabet_size, x, mdfa_size) :
                 x \in solve_constraints(c, mdfa_size)}

-----------------------------------------------------------------------------

\* What is known of a node's subtree up to a depth.  Two nodes are equivalent if they have
\* this in common; a missing node is as good as one without answers.
Fingerprint(base, n, level) ==
    {<<SubSeq(w, Len(n) + 1, Len(w)), base.node[w].ans>> :
        w \in {v \in Known(base) : IsPrefix(n, v) /\ Len(v) <= Len(n) + level}}

\* Children are visited before their parent, in the order of the letters.
Leaves(v, w) == \/ IsStrictPrefix(w, v)
                \/ \E i \in DOMAIN v \cap DOMAIN w : /\ v[i] < w[i]
                                                     /\ SubSeq(v, 1, i - 1) = SubSeq(w, 1, i - 1)

\* The equivalence classes in the order of their discovery; the first is the sink.
eq_classes(base) ==
    LET W == DOMAIN base.node
        rank == [w \in W |-> 1 + Cardinality({v \in W : Leaves(v, w)})]
        visit == [i \in 1..Cardinality(W) |-> CHOOSE w \in W : rank[w] = i]
        fingerprint(classes, w) ==
            LET f == Fingerprint(base, w, Nondeterminism)
            IN  IF f \in Range(classes) THEN classes ELSE Append(classes, f)
    IN  FoldLeft(fingerprint, <<{}>>, visit)

original_biermann(base, alphabet_size) ==
    LET classes == eq_classes(base)
        class(w) == IF w \notin DOMAIN base.node THEN 0
                    ELSE (CHOOSE i \in DOMAIN classes :
                             classes[i] = Fingerprint(base, w, Nondeterminism)) - 1
        members(q) == {w \in DOMAIN base.node : class(w) = q}
        states == 0..(Len(classes) - 1)
        letters == 0..(alphabet_size - 1)
    IN  [state_count |-> Len(classes), input_alphabet_size |-> alphabet_size,
         initial_states |-> {class(<<>>)},
         output_mapping |-> [q \in states |-> <<(<<>>), TRUE>> \in classes[q + 1]],
         transitions |-> [q \in states |-> [a \in letters |->
             {class(Append(w, a)) : w \in members(q)} \cup (IF q = 0 THEN {0} ELSE {})]]]

=============================================================================
