----------------------------- MODULE PrefixTree -----------------------------
(***************************************************************************)
(* libalf::prefix_tree, the copy of a knowledgebase that the automata      *)
(* inferring algorithms work on, and the enumeration of the models that a  *)
(* solver may return for clauses about the nodes of such a tree.           *)
(***************************************************************************)
EXTENDS Conjecture

root == 0
no_edge == 0

Letters(t) == 0..(t.alphabet_size - 1)
Nodes(t) == 0..(t.node_count - 1)

\* The order in which a depth first traversal meets two nodes.
MetBefore(v, w) ==
    \E i \in 1..Len(w) : /\ i <= Len(v) + 1
                         /\ SubSeq(v, 1, i - 1) = SubSeq(w, 1, i - 1)
                         /\ i > Len(v) \/ v[i] < w[i]

\* The nodes that add_knowledge reaches: children beyond the alphabet are skipped,
\* and whatever is below them.
WithinAlphabet(base, alphabet_size) ==
    {w \in DOMAIN base.node : \A i \in DOMAIN w : w[i] < alphabet_size}

\* Nodes are numbered in the order in which add_knowledge creates them.
prefix_tree(base, alphabet_size) ==
    LET kept == WithinAlphabet(base, alphabet_size)
        id == [w \in kept |-> Cardinality({v \in kept : MetBefore(v, w)})]
        word == [u \in 0..(Cardinality(kept) - 1) |-> CHOOSE w \in kept : id[w] = u]
        child(u, a) == Append(word[u], a)
    IN  [node_count |-> Cardinality(kept), alphabet_size |-> alphabet_size,
         edges |-> [u \in DOMAIN word |-> [a \in 0..(alphabet_size - 1) |->
                       IF child(u, a) \in kept THEN id[child(u, a)] ELSE no_edge]],
         specified |-> {u \in DOMAIN word : is_answered(base, word[u])},
         output |-> [u \in {v \in DOMAIN word : is_answered(base, word[v])} |->
                        base.node[word[u]].ans]]

Outputs(t) == {t.output[u] : u \in t.specified}

\* The labellings of the nodes by values that satisfy the clauses: nodes are labelled
\* one after the other, and the clauses speak of the nodes in DOMAIN x.
Labellings(t, Values, Clauses(_)) ==
    FoldLeft(LAMBDA found, u : {x \in {y @@ (u :> v) : y \in found, v \in Values} :
                                   Clauses(x)},
             {<<>>}, [i \in 1..t.node_count |-> i - 1])

\* The edges of the tree between labelled nodes.
Edges(t, x) == {e \in (DOMAIN x) \X Letters(t) : /\ t.edges[e[1]][e[2]] # no_edge
                                               /\ t.edges[e[1]][e[2]] \in DOMAIN x}
After(t, x, e) == x[t.edges[e[1]][e[2]]]

=============================================================================
