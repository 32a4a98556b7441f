------------------------------ MODULE Teacher ------------------------------
(***************************************************************************)
(* The user of an online learning algorithm, as teacher of one language:   *)
(* what the right answer to a membership query is, when a conjecture is    *)
(* right, and which counterexamples there are if it is not.                *)
(***************************************************************************)
EXTENDS Conjecture

CONSTANTS
    Targets,    \* the languages to be learned, as minimal machines
    Reject,     \* the answer that a word outside the alphabet gets
    MaxCounterexample \* bound on the length of counterexamples

\* The alphabet of a language consists of letters, and of all that are less than one of it.
Alphabet(asize) == asize \in Nat /\ 0..(asize - 1) \subseteq Symbols
\* The machine of a language refers to no states but its own.
Teachable(m) ==
    LET ids == 0..(m.state_count - 1)
    IN  /\ Alphabet(m.input_alphabet_size)
        /\ m.initial_states \subseteq ids
        /\ m.output_mapping \in [ids -> Answers]
        /\ \A q \in ids : \A a \in DOMAIN m.transitions[q] : m.transitions[q][a] \subseteq ids
ASSUME TargetsAssumption == \A m \in Targets : Teachable(m)
ASSUME RejectAssumption == Reject \in Answers
ASSUME MaxCounterexampleAssumption == MaxCounterexample \in Nat

VARIABLE target \* the user's language

Truth(w) == classify(target, w, Reject)

Wordlets(n) == UNION {[1..i -> 0..(target.input_alphabet_size - 1)] : i \in 0..n}

Counterexamples(m, n) == {w \in Wordlets(n) : classify(m, w, Reject) # Truth(w)}

\* The pairs of sets of states that a word leads to in m and in the target.
Together(m) ==
    LET sets(machine) == SUBSET (0..(machine.state_count - 1))
        closure[pairs \in SUBSET (sets(m) \X sets(target))] ==
            LET more == pairs \cup {<<run(m, p[1], <<a>>), run(target, p[2], <<a>>)>> :
                                       p \in pairs, a \in 0..(target.input_alphabet_size - 1)}
            IN  IF more = pairs THEN pairs ELSE closure[more]
    IN  closure[{<<m.initial_states, target.initial_states>>}]

Right(m) ==
    \A p \in Together(m) :
        output_of(m, p[1], Reject) = output_of(target, p[2], Reject)

\* The knowledgebase after the first open query was answered truthfully.
FirstAnswered(kb) == set_answer(kb, Head(kb.required), Truth(Head(kb.required)))

=============================================================================
