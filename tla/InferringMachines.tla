------------------------- MODULE InferringMachines -------------------------
(***************************************************************************)
(* deterministic_inferring_MiniSat and deterministic_inferring_Z3: the     *)
(* transitions d and the outputs f of a machine with n states are unknowns *)
(* too, next to the labels x of the nodes of the prefix tree.  As in       *)
(* InferringCsp, the external solver may return any model.                 *)
(***************************************************************************)
EXTENDS PrefixTree

\* What the assertions of the decoding code make of a model they do not expect: the
\* program stops.
AssertionFailed == [state_count |-> -1]

States(n) == 0..(n - 1)

\* For every state and letter, the set of the states q with d[p][a][q] true.
Deltas(t, n, Cells) == [States(n) -> [Letters(t) -> Cells]]

\* Clauses (1) to (3): labelled somehow, d is a function, and steps are taken along d.
LabelledAlong(t, d, x) ==
    /\ \A u \in DOMAIN x : x[u] # {}
    /\ \A e \in Edges(t, x) : \A p \in x[e[1]] : After(t, x, e) \subseteq d[p][e[2]]

\* Mutant: the clauses with the outputs of the sample are left out for the root.
OutputRight_root_forgotten(t, x, f) ==
    \A u \in t.specified \ {root} : \A q \in x[u] : t.output[u] \in f[q]

\* Clause (5): f holds the outputs of the sample.
OutputRight(t, x, f) == \A u \in t.specified : \A q \in x[u] : t.output[u] \in f[q]

\* Clauses (6) to (8), redundant for satisfiability: one label for every node, d total,
\* every step is taken.
SymmetryBreaking(t, d, x) ==
    /\ \A u \in DOMAIN x : Cardinality(x[u]) <= 1
    /\ \A p \in DOMAIN d : \A a \in Letters(t) : d[p][a] # {}
    /\ \A e \in Edges(t, x) : \A p \in x[e[1]] : d[p][e[2]] \subseteq After(t, x, e)

\* Clause (2), at most one successor; clauses (4a) and (4b), exactly one output.
infer_MiniSat_clauses(t, n, symmetry_breaking) ==
    LET functional == {cell \in SUBSET States(n) : Cardinality(cell) <= 1}
        one_output == {{o} : o \in Outputs(t)}
        models(d) ==
            LET clauses(x) == /\ LabelledAlong(t, d, x)
                              /\ symmetry_breaking => SymmetryBreaking(t, d, x)
            IN  {m \in {[d |-> d, x |-> x, f |-> f] :
                           x \in Labellings(t, SUBSET States(n), clauses),
                           f \in [States(n) -> one_output]} : OutputRight(t, m.x, m.f)}
    IN  UNION {models(d) : d \in Deltas(t, n, functional)}

\* The machine of a model.  Its initial state is the only label of the root; missing
\* transitions are left out.
MiniSat_machine(t, n, m) ==
    IF Cardinality(m.x[root]) # 1 THEN AssertionFailed
    ELSE [state_count |-> n, input_alphabet_size |-> t.alphabet_size,
          initial_states |-> m.x[root],
          output_mapping |-> [q \in States(n) |-> CHOOSE o \in m.f[q] : TRUE],
          transitions |-> [p \in States(n) |->
              [a \in {b \in Letters(t) : m.d[p][b] # {}} |-> m.d[p][a]]]]

infer_MiniSat(t, n, symmetry_breaking) ==
    {MiniSat_machine(t, n, m) : m \in infer_MiniSat_clauses(t, n, symmetry_breaking)}

-----------------------------------------------------------------------------
(* Z3: d and f are total functions, the labels are determined by d.        *)

\* The machine of a model of functions: all transitions, initial state 0.
Z3_machine(t, n, d, f) ==
    [state_count |-> n, input_alphabet_size |-> t.alphabet_size, initial_states |-> {0},
     output_mapping |-> f,
     transitions |-> [p \in States(n) |-> [a \in Letters(t) |-> {d[p][a]}]]]

\* Transitions are applied correctly: x(ua) = d(x(u), a).
StepsTaken(t, d, x) == \A e \in Edges(t, x) : After(t, x, e) = d[x[e[1]]][e[2]]

Classified(t, x, f) == \A u \in t.specified : f[x[u]] = t.output[u]

\* Functions d, f and x on integers.
models_Z3(t, n) ==
    LET labellings(d) == Labellings(t, States(n), LAMBDA x : x[root] = 0 /\ StepsTaken(t, d, x))
        outputs(d) == {f \in [States(n) -> Outputs(t)] : \E x \in labellings(d) : Classified(t, x, f)}
    IN  UNION {{d} \X outputs(d) : d \in Deltas(t, n, States(n))}

infer_Z3(t, n) == {Z3_machine(t, n, m[1], m[2]) : m \in models_Z3(t, n)}

\* Functions d and f on integers, an integer variable for every node.
models_Z3_variables(t, n) ==
    UNION {LET state_vars == Labellings(t, States(n),
                                        LAMBDA x : StepsTaken(t, d, x) /\ x[root] = 0)
           IN  {<<d, f>> : f \in {g \in [States(n) -> Outputs(t)] :
                                     \E x \in state_vars : Classified(t, x, g)}} :
             d \in Deltas(t, n, States(n))}

infer_Z3_variables(t, n) ==
    {Z3_machine(t, n, m[1], m[2]) : m \in models_Z3_variables(t, n)}

\* Functions over enumerations of the states, the letters and the outputs.
models_Z3_enum(t, n) ==
    {<<d, f>> \in Deltas(t, n, States(n)) \X [States(n) -> Outputs(t)] :
        \E x \in Labellings(t, States(n), LAMBDA y : y[root] = 0 /\ StepsTaken(t, d, y)) :
            Classified(t, x, f)}

infer_Z3_enum(t, n) == {Z3_machine(t, n, m[1], m[2]) : m \in models_Z3_enum(t, n)}

\* Functions d and f over enumerations, a variable of the states' sort for every node.
models_Z3_variables_enum(t, n) ==
    LET labelled == UNION {{d} \X Labellings(t, States(n),
                                              LAMBDA x : x[root] = 0 /\ StepsTaken(t, d, x)) :
                              d \in Deltas(t, n, States(n))}
    IN  UNION {{<<m[1], f>> : f \in {g \in [States(n) -> Outputs(t)] : Classified(t, m[2], g)}} :
                  m \in labelled}

infer_Z3_variables_enum(t, n) ==
    {Z3_machine(t, n, m[1], m[2]) : m \in models_Z3_variables_enum(t, n)}

=============================================================================
