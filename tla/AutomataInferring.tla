------------------------- MODULE AutomataInferring -------------------------
(***************************************************************************)
(* automata_inferring<answer> and the classes derived from it, as an       *)
(* offline algorithm: which encoding a setting selects, the conjecture for *)
(* a sample with one output at most, and the check of a machine against a  *)
(* sample.  The search for the least number of states is in OfflineLearner.*)
(*                                                                         *)
(* An algorithm is a record of its class and its settings.                 *)
(***************************************************************************)
EXTENDS InferringCsp, InferringMachines, InferringDfa, InferringNfa

csp_MiniSat(alg, t, n) ==
    IF alg.unary_encoding THEN infer_unary_MiniSat(t, n) ELSE infer_binary_MiniSat(t, n)

csp_Z3(alg, t, n) ==
    IF alg.use_variables
    THEN IF alg.use_enum THEN infer_CSP_variables_enum_Z3(t, n) ELSE infer_CSP_variables_Z3(t, n)
    ELSE IF alg.use_enum THEN infer_CSP_enum_Z3(t, n) ELSE infer_CSP_Z3(t, n)

moore_Z3(alg, t, n) ==
    IF alg.use_variables
    THEN IF alg.use_enum THEN infer_Z3_variables_enum(t, n) ELSE infer_Z3_variables(t, n)
    ELSE IF alg.use_enum THEN infer_Z3_enum(t, n) ELSE infer_Z3(t, n)

dfa_Z3_infer(alg, t, n) ==
    IF alg.use_variables
    THEN IF alg.use_enum THEN dfa_Z3_variables_enum(t, n) ELSE dfa_Z3_variables(t, n)
    ELSE IF alg.use_enum THEN dfa_Z3_enum(t, n) ELSE dfa_Z3(t, n)

\* The machines with n states that __infer may return; none if it returns NULL.
infer_n(alg, t, n) ==
    CASE alg.class = "csp_MiniSat" -> csp_MiniSat(alg, t, n)
      [] alg.class = "csp_Z3" -> csp_Z3(alg, t, n)
      [] alg.class = "moore_MiniSat" -> infer_MiniSat(t, n, alg.symmetry_breaking)
      [] alg.class = "moore_Z3" -> moore_Z3(alg, t, n)
      [] alg.class = "dfa_MiniSat" -> dfa_MiniSat(t, n, alg.symmetry_breaking)
      [] alg.class = "dfa_Z3" -> dfa_Z3_infer(alg, t, n)
      [] alg.class = "nfa_MiniSat" -> nfa_MiniSat(t, n)

-----------------------------------------------------------------------------

OneState(t, output) ==
    [state_count |-> 1, input_alphabet_size |-> t.alphabet_size, initial_states |-> {0},
     output_mapping |-> (0 :> output), transitions |-> (0 :> [a \in Letters(t) |-> {0}])]

\* A Moore machine, which is no finite_automaton even if its outputs are Boolean.
infer_simple_moore_machine(t) ==
    LET output == IF Outputs(t) = {} THEN DefaultOutput ELSE CHOOSE o \in Outputs(t) : TRUE
    IN  IF Cardinality(Outputs(t)) > 1 THEN NoConjecture
        ELSE OneState(t, output) @@ [is_finite_automaton |-> FALSE]

infer_simple_dfa(t) ==
    IF Cardinality(Outputs(t)) > 1 THEN NoConjecture ELSE OneState(t, TRUE \in Outputs(t))

\* nfa_inferring_MiniSat has no simple conjectures.
infer_simple_conjecture(alg, t) ==
    CASE alg.class \in {"csp_MiniSat", "csp_Z3", "moore_MiniSat", "moore_Z3"} ->
            infer_simple_moore_machine(t)
      [] alg.class \in {"dfa_MiniSat", "dfa_Z3"} -> infer_simple_dfa(t)
      [] alg.class = "nfa_MiniSat" -> NoConjecture

\* What dynamic_cast<finite_automaton *> tells of a conjecture.
is_finite_automaton(m) == "is_finite_automaton" \notin DOMAIN m

-----------------------------------------------------------------------------

\* finite_automaton::contains.
contains(m, word) == \E q \in run(m, m.initial_states, word) : m.output_mapping[q] = TRUE

\* Some run on every answered word within the machine's alphabet gives the answer; a word
\* without a run gets the default output.
is_consistent(base, machine, default_output) ==
    \A w \in WithinAlphabet(base, machine.input_alphabet_size) : is_answered(base, w) =>
        LET states == run(machine, machine.initial_states, w)
        IN  IF states = {} THEN base.node[w].ans = default_output
            ELSE \E q \in states : machine.output_mapping[q] = base.node[w].ans

=============================================================================
