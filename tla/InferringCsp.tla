---------------------------- MODULE InferringCsp ----------------------------
(***************************************************************************)
(* deterministic_inferring_csp_MiniSat and deterministic_inferring_csp_Z3: *)
(* the constraint satisfaction problem of Biermann, whose solutions label  *)
(* every node of the prefix tree with the state of a machine with n states *)
(* that is reached by the node's word.  The solvers are external: they may *)
(* return any model, or none if there is none.                             *)
(***************************************************************************)
EXTENDS PrefixTree

CONSTANT DefaultOutput \* output of the states that the sample says nothing of

\* The machine that is read off a labelling: it has the transitions that the sample
\* goes along, no others.
LabelledMachine(t, n, state) ==
    LET sources(p) == {e \in Edges(t, state) : state[e[1]] = p}
        at(p) == {u \in t.specified : state[u] = p}
    IN  [state_count |-> n, input_alphabet_size |-> t.alphabet_size,
         initial_states |-> {state[root]},
         output_mapping |-> [p \in 0..(n - 1) |->
             IF at(p) = {} THEN DefaultOutput ELSE t.output[CHOOSE u \in at(p) : TRUE]],
         transitions |-> [p \in 0..(n - 1) |->
             [a \in {e[2] : e \in sources(p)} |->
                 {After(t, state, e) : e \in {s \in sources(p) : s[2] = a}}]]]

-----------------------------------------------------------------------------
(* MiniSat, unary encoding: the label of a node is the set of the states q *)
(* whose variable x[u][q] is true.                                         *)

unary_clauses(t, x) ==
    /\ \A u \in DOMAIN x : x[u] # {}
    /\ \A u \in DOMAIN x : \A p, q \in x[u] : p = q
    /\ \A e, g \in Edges(t, x) :
          e[1] > g[1] /\ e[2] = g[2] /\ x[e[1]] \cap x[g[1]] # {} =>
              After(t, x, e) = After(t, x, g)
    /\ \A u, v \in t.specified \cap DOMAIN x :
          v < u /\ t.output[u] # t.output[v] => x[u] \cap x[v] = {}

infer_unary_MiniSat(t, n) ==
    LET models == Labellings(t, SUBSET (0..(n - 1)), LAMBDA x : unary_clauses(t, x))
    IN  {LabelledMachine(t, n, [u \in Nodes(t) |-> CHOOSE q \in x[u] : TRUE]) : x \in models}

-----------------------------------------------------------------------------
(* MiniSat, binary encoding: the label of a node is the set of the bits    *)
(* that are true.                                                          *)

log_n(n) == CHOOSE m \in 0..n : 2^m >= n /\ \A k \in 0..(m - 1) : 2^k < n

number(bits) == FoldSet(LAMBDA m, sum : sum + 2^m, 0, bits)

binary_clauses(t, n, x) ==
    /\ \A u \in DOMAIN x : number(x[u]) \notin n..(2^log_n(n) - 1)
    /\ \A u, v \in t.specified \cap DOMAIN x :
          v < u /\ t.output[u] # t.output[v] =>
              ~ \E q \in 0..(n - 1) : number(x[u]) = q /\ number(x[v]) = q
    /\ \A e, g \in Edges(t, x) :
          e[1] > g[1] /\ e[2] = g[2] =>
              \A q \in 0..(n - 1) : number(x[e[1]]) = q /\ number(x[g[1]]) = q =>
                  \A m \in 0..(log_n(n) - 1) : m \in After(t, x, e) <=> m \in After(t, x, g)

infer_binary_MiniSat(t, n) ==
    LET models == Labellings(t, SUBSET (0..(log_n(n) - 1)), LAMBDA x : binary_clauses(t, n, x))
    IN  {LabelledMachine(t, n, [u \in Nodes(t) |-> number(x[u])]) : x \in models}

-----------------------------------------------------------------------------
(* Z3.  The integers that are no states stand next to them, so that the    *)
(* bounds have something to exclude.                                       *)

Candidates(n) == (-1)..n

\* Mutant: the loop over the pairs of nodes leaves out the root.
SuccessorsFollow_but_root(t, x) ==
    \A e, g \in {f \in Edges(t, x) : f[1] > 0} :
        e[2] = g[2] /\ x[e[1]] = x[g[1]] => After(t, x, e) = After(t, x, g)

SuccessorsFollow(t, x) ==
    \A e, g \in Edges(t, x) :
        e[2] = g[2] /\ x[e[1]] = x[g[1]] => After(t, x, e) = After(t, x, g)

OutputsDiffer(t, x) ==
    \A u, v \in t.specified \cap DOMAIN x : t.output[u] # t.output[v] => x[u] # x[v]

\* The function x from nodes to integers.
CSP_assertions(t, n, x) ==
    /\ \A u \in DOMAIN x : x[u] >= 0 /\ x[u] < n
    /\ SuccessorsFollow(t, x)
    /\ OutputsDiffer(t, x)

infer_CSP_Z3(t, n) ==
    {LabelledMachine(t, n, x) :
        x \in Labellings(t, Candidates(n), LAMBDA y : CSP_assertions(t, n, y))}

\* One integer variable for every node.
CSP_variables_assertions(t, n, state_vars) ==
    /\ \A u \in DOMAIN state_vars : state_vars[u] \in 0..(n - 1)
    /\ SuccessorsFollow(t, state_vars)
    /\ OutputsDiffer(t, state_vars)

infer_CSP_variables_Z3(t, n) ==
    LET models == Labellings(t, Candidates(n), LAMBDA x : CSP_variables_assertions(t, n, x))
    IN  {LabelledMachine(t, n, state_vars) : state_vars \in models}

\* A function into an enumeration of the states; the root has the first one.
CSP_enum_assertions(t, x) ==
    x[root] = 0 /\ SuccessorsFollow(t, x) /\ OutputsDiffer(t, x)

infer_CSP_enum_Z3(t, n) ==
    {LabelledMachine(t, n, x) :
        x \in Labellings(t, 0..(n - 1), LAMBDA y : CSP_enum_assertions(t, y))}

\* One variable of the enumeration sort for every node.
CSP_variables_enum_assertions(t, state_vars) ==
    /\ state_vars[root] = 0
    /\ SuccessorsFollow(t, state_vars)
    /\ OutputsDiffer(t, state_vars)

infer_CSP_variables_enum_Z3(t, n) ==
    LET models == Labellings(t, 0..(n - 1), LAMBDA x : CSP_variables_enum_assertions(t, x))
    IN  {LabelledMachine(t, n, state_vars) : state_vars \in models}

=============================================================================
