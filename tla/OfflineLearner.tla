--------------------------- MODULE OfflineLearner ---------------------------
(***************************************************************************)
(* Learning with the offline algorithms: a knowledgebase, an algorithm     *)
(* that derives a conjecture from it, and a user who answers a wrong       *)
(* conjecture with a counterexample and runs the algorithm again.  The     *)
(* counterexample goes into the knowledgebase directly, or through         *)
(* counterexample_learning, which wraps the algorithm.                     *)
(*                                                                         *)
(* The automata inferring algorithms search for the least number n of      *)
(* states by asking a solver for one n after the other: a step here is one *)
(* call of __infer.                                                        *)
(***************************************************************************)
EXTENDS AutomataInferring, Biermann, Teacher

CONSTANTS
    Settings    \* records [target, sample, alg, wrapped, increment]: the user's language,
                \* the words whose answers are known at first, and the variables below

VARIABLES
    base,       \* the knowledgebase
    alg,        \* the algorithm
    wrapped,    \* whether the user talks to counterexample_learning
    increment,  \* of infer_linear; 0 stands for infer_binarysearch
    phase,      \* "idle", "grow", "bisect", "delivered", "aborted"
    left, right, result, \* of the search
    last_conjecture,     \* of counterexample_learning
    conjecture  \* what the user holds

vars == <<target, base, alg, wrapped, increment, phase, left, right, result,
          last_conjecture, conjecture>>
setting == <<target, alg, wrapped, increment>>
search == <<left, right, result>>

asize == target.input_alphabet_size
Inferring == {"csp_MiniSat", "csp_Z3", "moore_MiniSat", "moore_Z3",
              "dfa_MiniSat", "dfa_Z3", "nfa_MiniSat"}
Tree == prefix_tree(base, asize)

\* The knowledgebase that knows some words of a language.
Sample(words, language) ==
    FoldSet(LAMBDA w, kb : add_knowledge(kb, w, contains(language, w)), EmptyKnowledgebase, words)

Init ==
    /\ \E s \in Settings : /\ target = s.target /\ alg = s.alg
                          /\ wrapped = s.wrapped /\ increment = s.increment
                          /\ base = Sample(s.sample, s.target)
    /\ phase = "idle"
    /\ left = 1 /\ right = 1 /\ result = NoConjecture
    /\ last_conjecture = NoConjecture /\ conjecture = NoConjecture

\* The conjecture of a run.  counterexample_learning casts it to finite_automaton and
\* keeps it until it gets a counterexample; its assertion ends the program if the cast
\* yields NULL, as do the assertions of the decoding code.
deliver(m) ==
    IF (wrapped /\ ~is_finite_automaton(m)) \/ m = AssertionFailed
    THEN phase' = "aborted" /\ UNCHANGED <<last_conjecture, conjecture>>
    ELSE /\ phase' = "delivered"
         /\ conjecture' = m
         /\ last_conjecture' = IF wrapped THEN m ELSE NoConjecture

\* An algorithm that derives its conjecture at once.
DeriveAtOnce ==
    /\ phase = "idle" /\ alg.class \notin Inferring
    /\ \E m \in CASE alg.class = "RPNI" -> {RPNI(base, asize)}
                  [] alg.class = "DeLeTe2" -> {DeLeTe2(base, asize)}
                  [] alg.class = "MiniSat_biermann" -> MiniSat_biermann(base, asize)
                  [] alg.class = "original_biermann" -> {original_biermann(base, asize)} :
          deliver(m)
    /\ UNCHANGED <<setting, base, search>>

\* An inferring algorithm starts, or finds the simple conjecture.
StartSearch ==
    /\ phase = "idle" /\ alg.class \in Inferring
    /\ left' = 1 /\ right' = 1 /\ result' = NoConjecture
    /\ LET simple == infer_simple_conjecture(alg, Tree)
       IN  IF simple # NoConjecture THEN deliver(simple)
           ELSE phase' = "grow" /\ UNCHANGED <<last_conjecture, conjecture>>
    /\ UNCHANGED <<setting, base>>

\* The solver found a machine; the assertions of the decoding code end the program if they
\* do not like its model.
found(m, size) ==
    IF m = AssertionFailed
    THEN phase' = "aborted" /\ UNCHANGED <<result, right>>
    ELSE phase' = "bisect" /\ result' = m /\ right' = size

\* The size grows until the solver finds a machine.
Grow ==
    /\ phase = "grow"
    /\ LET machines == infer_n(alg, Tree, right)
       IN  \/ /\ machines = {}
              /\ left' = right + 1
              /\ right' = IF increment = 0 THEN right * 2 ELSE right + increment
              /\ UNCHANGED <<phase, result>>
           \/ /\ \E m \in machines : found(m, right)
              /\ UNCHANGED left
    /\ UNCHANGED <<setting, base, last_conjecture, conjecture>>

\* Mutant: the machine found for the middle size is thrown away.
Bisect_keeps_result ==
    /\ phase = "bisect" /\ left < right
    /\ LET mid == left + (right - left) \div 2
           machines == infer_n(alg, Tree, mid)
       IN  \/ /\ machines = {}
              /\ left' = mid + 1 /\ UNCHANGED <<phase, right, result>>
           \/ /\ machines # {} /\ right' = mid
              /\ UNCHANGED <<phase, left, result>>
    /\ UNCHANGED <<setting, base, last_conjecture, conjecture>>

\* Then the interval is halved until one size is left.
Bisect ==
    /\ phase = "bisect" /\ left < right
    /\ LET mid == left + (right - left) \div 2
           machines == infer_n(alg, Tree, mid)
       IN  \/ /\ machines = {}
              /\ left' = mid + 1 /\ UNCHANGED <<phase, right, result>>
           \/ /\ \E m \in machines : found(m, mid)
              /\ UNCHANGED left
    /\ UNCHANGED <<setting, base, last_conjecture, conjecture>>

\* Mutant: the first machine is delivered, before the interval is down to one size.
EndSearch_early ==
    /\ phase = "bisect"
    /\ deliver(result)
    /\ left' = 1 /\ right' = 1 /\ result' = NoConjecture
    /\ UNCHANGED <<setting, base>>

\* Mutant: the machine is handed out, and found again by the next run.
EndSearch_keeps_result ==
    /\ phase = "bisect" /\ left >= right
    /\ deliver(result)
    /\ left' = 1 /\ right' = 1
    /\ UNCHANGED <<setting, base, result>>

EndSearch ==
    /\ phase = "bisect" /\ left >= right
    /\ deliver(result)
    /\ left' = 1 /\ right' = 1 /\ result' = NoConjecture
    /\ UNCHANGED <<setting, base>>

\* The shortest words up to the bound that the user's language and a machine differ on.
Differ(m, n) == {w \in Wordlets(n) : contains(m, w) # Truth(w)}
Shortest(W) == {w \in W : \A v \in W : Len(w) <= Len(v)}

\* Mutant: counterexample_learning takes the answer of its conjecture for the right one.
correct_answer_of_conjecture(w) ==
    IF wrapped THEN contains(last_conjecture, w) ELSE Truth(w)

\* counterexample_learning concludes the right answer from its own copy of the conjecture.
correct_answer(w) == IF wrapped THEN ~contains(last_conjecture, w) ELSE Truth(w)

\* The user finds the conjecture wrong and says so.
Counterexample ==
    /\ phase = "delivered"
    /\ \E w \in Shortest(Differ(conjecture, MaxCounterexample)) :
          base' = add_knowledge(base, w, correct_answer(w))
    /\ phase' = "idle" /\ conjecture' = NoConjecture /\ last_conjecture' = NoConjecture
    /\ UNCHANGED <<setting, search>>

Next == DeriveAtOnce \/ StartSearch \/ Grow \/ Bisect \/ EndSearch \/ Counterexample

Spec == Init /\ [][Next]_vars

\* Nothing is left to do: the program ended, or its user is content.
Settled ==
    \/ phase = "aborted"
    \/ phase = "delivered" /\ Differ(conjecture, MaxCounterexample) = {}

\* Every call returns, and a user goes on until the conjecture is right: weak fairness of
\* Next, which is enabled unless everything is settled.
FairSpec == Spec /\ ([]<>Settled \/ []<><<Next>>_vars)

-----------------------------------------------------------------------------

TypeOK ==
    /\ phase \in {"idle", "grow", "bisect", "delivered", "aborted"}
    /\ left \in Nat \ {0} /\ right \in Nat \ {0}
    /\ result # NoConjecture <=> phase = "bisect"
    /\ conjecture # NoConjecture <=> phase = "delivered"
    /\ last_conjecture = IF wrapped THEN conjecture ELSE NoConjecture

\* The conjecture gives the answers of the sample it was derived from, whatever encoding the
\* algorithm uses and whichever model its solver returns (derive_conjecture of all classes).
\* DeLeTe2 promises that only for samples that hold all prefixes of their words.
ConjectureConsistent ==
    phase = "delivered" /\ alg.class # "DeLeTe2" => is_consistent(base, conjecture, DefaultOutput)

\* The reference for all encodings: some machine with n states agrees with the sample.
Explained(n) ==
    \E delta \in [0..(n - 1) -> [0..(asize - 1) -> 0..(n - 1)]], out \in [0..(n - 1) -> BOOLEAN] :
        is_consistent(base, Deterministic(n, asize, delta, out), DefaultOutput)

\* An encoding of __infer has a model exactly if there is such a machine; the automata of
\* nfa_MiniSat may get by with fewer states.
EncodingRight ==
    phase = "idle" /\ alg.class \in Inferring /\ Cardinality(Outputs(Tree)) = 2 =>
        \A n \in 1..target.state_count :
            LET found_some == infer_n(alg, Tree, n) # {}
            IN  /\ Explained(n) => found_some
                /\ found_some => Explained(n) \/ alg.class = "nfa_MiniSat"

\* infer_linear and infer_binarysearch never leave out a size that a machine exists for, and
\* keep the machine of the size that they will end with.
SearchBrackets ==
    phase \in {"grow", "bisect"} =>
        /\ \A n \in 1..(left - 1) : infer_n(alg, Tree, n) = {}
        /\ left <= right
        /\ phase = "bisect" => result.state_count = right

\* The conjecture of an inferring algorithm has no more states than the language needs.
NotLargerThanTarget ==
    phase = "delivered" /\ alg.class \in Inferring =>
        conjecture.state_count <= target.state_count

\* What the merges of RPNI amount to, whatever their order and the merges that failed in
\* between: an equivalence of nodes that is closed under taking the same letter and never
\* equates nodes with different answers.
MergedIsCongruence ==
    phase = "idle" /\ alg.class = "RPNI" =>
        LET E == merge_states(base)
        IN  /\ \A p \in E : <<p[2], p[1]>> \in E
            /\ \A p, q \in E : p[2] = q[1] => <<p[1], q[2]>> \in E
            /\ \A p \in E : Pending(base, {p[1]}, {p[2]}) \subseteq E
            /\ \A p \in E : p[1] \in Known(base) /\ p[2] \in Known(base) =>
                    base.node[p[1]].ans = base.node[p[2]].ans

\* generate_inclusion_relation of DeLeTe2: a node is included in another one exactly if no
\* word leads from the first to an accepted and from the second to a rejected word.
InclusionMeansNoWitness ==
    phase = "idle" /\ alg.class = "DeLeTe2" =>
        LET inclusions == generate_inclusion_relation(base)
            accepted == {w \in Known(base) : base.node[w].ans}
        IN  \A a, b \in DOMAIN base.node :
                <<a, b>> \in inclusions <=>
                    ~ \E v \in accepted, w \in Known(base) \ accepted :
                        /\ IsPrefix(a, v) /\ IsPrefix(b, w)
                        /\ SubSeq(v, Len(a) + 1, Len(v)) = SubSeq(w, Len(b) + 1, Len(w))

\* No assertion of conjecture_ready, derive_conjecture or __infer fails.
NeverAborted == phase # "aborted"

\* A user who answers wrong conjectures with counterexamples learns the language in the end.
Learned ==
    alg.class # "DeLeTe2" =>
        <>[](phase = "delivered" /\ Differ(conjecture, MaxCounterexample) = {})

=============================================================================
