---------------------------- MODULE InferringDfa ----------------------------
(***************************************************************************)
(* dfa_inferring_MiniSat and dfa_inferring_Z3, the inference of automata   *)
(* with Boolean answers: f is the set of the accepting states.             *)
(***************************************************************************)
EXTENDS PrefixTree

Machines == INSTANCE InferringMachines

\* Clauses (4a) and (4b).
AcceptedRight(t, x, f) ==
    \A u \in t.specified : \A q \in x[u] : (q \in f) = t.output[u]

dfa_MiniSat_clauses(t, n, symmetry_breaking) ==
    LET functional == {cell \in SUBSET (0..(n - 1)) : Cardinality(cell) <= 1}
        models(d) ==
            LET clauses(x) ==
                    /\ Machines!LabelledAlong(t, d, x)
                    /\ symmetry_breaking => Machines!SymmetryBreaking(t, d, x)
            IN  {m \in {[d |-> d, x |-> x, f |-> f] :
                           x \in Labellings(t, SUBSET (0..(n - 1)), clauses),
                           f \in SUBSET (0..(n - 1))} : AcceptedRight(t, m.x, m.f)}
    IN  UNION {models(d) : d \in Machines!Deltas(t, n, functional)}

\* The automaton of a model: the only label of the root is the initial state.
dfa_of_model(t, n, m) ==
    IF Cardinality(m.x[root]) # 1 THEN Machines!AssertionFailed
    ELSE [state_count |-> n, input_alphabet_size |-> t.alphabet_size,
          initial_states |-> m.x[root], output_mapping |-> [q \in 0..(n - 1) |-> q \in m.f],
          transitions |-> [p \in 0..(n - 1) |->
              [a \in {b \in Letters(t) : m.d[p][b] # {}} |-> m.d[p][a]]]]

dfa_MiniSat(t, n, symmetry_breaking) ==
    {dfa_of_model(t, n, m) : m \in dfa_MiniSat_clauses(t, n, symmetry_breaking)}

-----------------------------------------------------------------------------
(* Z3.  The states are 0..n-1, as the assertions on d demand, or an        *)
(* enumeration of as many.                                                 *)

Accepts(t, x, f) == \A u \in t.specified : f[x[u]] = t.output[u]

\* Some labelling along d gives the words of the sample their answers.
AcceptsAlong(t, n, d, f) ==
    \E x \in Labellings(t, 0..(n - 1),
                        LAMBDA y : y[root] = 0 /\ Machines!StepsTaken(t, d, y)) :
        Accepts(t, x, f)

dfa_models_Z3(t, n) ==
    {<<d, f>> \in Machines!Deltas(t, n, 0..(n - 1)) \X [0..(n - 1) -> BOOLEAN] :
        AcceptsAlong(t, n, d, f)}

dfa_Z3(t, n) == {Machines!Z3_machine(t, n, m[1], m[2]) : m \in dfa_models_Z3(t, n)}

\* An integer variable for every node.
dfa_models_Z3_variables(t, n) ==
    UNION {LET state_vars == Labellings(t, 0..(n - 1),
                                        LAMBDA x : x[root] = 0 /\ Machines!StepsTaken(t, d, x))
           IN  {<<d, f>> : f \in {g \in [0..(n - 1) -> BOOLEAN] :
                                     \E x \in state_vars : Accepts(t, x, g)}} :
             d \in Machines!Deltas(t, n, 0..(n - 1))}

dfa_Z3_variables(t, n) ==
    {Machines!Z3_machine(t, n, m[1], m[2]) : m \in dfa_models_Z3_variables(t, n)}

\* Functions over an enumeration of the states.
dfa_models_Z3_enum(t, n) ==
    LET finals(d) == {f \in [0..(n - 1) -> BOOLEAN] : AcceptsAlong(t, n, d, f)}
    IN  UNION {{d} \X finals(d) : d \in Machines!Deltas(t, n, 0..(n - 1))}

dfa_Z3_enum(t, n) == {Machines!Z3_machine(t, n, m[1], m[2]) : m \in dfa_models_Z3_enum(t, n)}

\* A variable of the states' sort for every node.
dfa_models_Z3_variables_enum(t, n) ==
    LET labelled(d) ==
            {<<x, f>> \in Labellings(t, 0..(n - 1), LAMBDA y : /\ y[root] = 0
                                                               /\ Machines!StepsTaken(t, d, y))
                          \X [0..(n - 1) -> BOOLEAN] : Accepts(t, x, f)}
    IN  UNION {{<<d, m[2]>> : m \in labelled(d)} : d \in Machines!Deltas(t, n, 0..(n - 1))}

dfa_Z3_variables_enum(t, n) ==
    {Machines!Z3_machine(t, n, m[1], m[2]) : m \in dfa_models_Z3_variables_enum(t, n)}

=============================================================================
