---------------------------- MODULE TreeLearner ----------------------------
(***************************************************************************)
(* Kearns and Vazirani's learner at work: the application advances it,     *)
(* answers the queries it leaves in the knowledgebase, and gives           *)
(* counterexamples.  In between it may save the learner and go on with the *)
(* original or with the copy, change the kind of search, or make the       *)
(* knowledgebase forget answers or queries; the learner cannot be          *)
(* synchronized with that, nor need it be.                                 *)
(***************************************************************************)
EXTENDS KearnsVazirani, Teacher

CONSTANTS
    Searches,         \* the values of use_binary_search to start with
    SaveDuring,       \* the kinds of tasks that the application saves
    Forgotten,        \* the counts that undo() is called with
    MaxInterruptions  \* bound on saving, loading, switching and forgetting

\* The machines of the languages have one state after each word, as the tree's have.
ASSUME DeterministicAssumption ==
    \A m \in Targets :
        /\ m.state_count \in Nat
        /\ \E q \in m.initial_states : m.initial_states = {q}
        /\ \A q \in 0..(m.state_count - 1) :
              /\ DOMAIN m.transitions[q] = 0..(m.input_alphabet_size - 1)
              /\ \A a \in DOMAIN m.transitions[q] :
                    \E r \in m.transitions[q][a] : m.transitions[q][a] = {r}
\* A filter that answers queries answers them as the user would.
ASSUME FilterTellsTruth ==
    \A m \in Targets : \A w \in DOMAIN Filter :
        w \in Seq(0..(m.input_alphabet_size - 1)) => Filter[w] = classify(m, w, Reject)

VARIABLES
    kb,            \* the knowledgebase
    alg,           \* the learning algorithm
    conjecture,    \* the conjecture that awaits a verdict, or NoConjecture
    refuted,       \* the number of leaves that proved too few (history)
    interruptions  \* how often learning was interrupted

vars == <<kb, alg, conjecture, target, refuted, interruptions>>

Init ==
    /\ kb = EmptyKnowledgebase
    /\ target \in Targets
    /\ \E binary \in Searches : alg = EmptyTree(binary, target.input_alphabet_size)
    /\ conjecture = NoConjecture
    /\ refuted = 0
    /\ interruptions = 0

Learned == conjecture # NoConjecture /\ Right(conjecture)

-----------------------------------------------------------------------------
(* The calls of the application. *)

Advance ==
    /\ conjecture = NoConjecture
    /\ LET r == advance(alg, kb)
       IN  kb' = r.kb /\ alg' = r.alg /\ conjecture' = r.conjecture
    /\ UNCHANGED <<target, refuted, interruptions>>

AnswerQuery ==
    /\ kb.required # <<>>
    /\ kb' = FirstAnswered(kb)
    /\ UNCHANGED <<alg, conjecture, target, refuted, interruptions>>

Found == IF alg.initial_phase THEN 1 ELSE alg.leaf_node_count

\* A counterexample that is refused is to be given again.
AddCounterexample ==
    /\ conjecture # NoConjecture
    /\ \E w \in Counterexamples(conjecture, MaxCounterexample) :
          LET r == add_counterexample(alg, kb, w)
          IN  /\ kb' = r.kb /\ alg' = r.alg
              /\ refuted' = IF r.alg = alg THEN refuted
                            ELSE Found
    /\ conjecture' = NoConjecture
    /\ UNCHANGED <<target, interruptions>>

Interrupted ==
    /\ interruptions < MaxInterruptions
    /\ interruptions' = interruptions + 1
    /\ UNCHANGED <<conjecture, target, refuted>>

Pending == {alg.tasks[i].kind : i \in DOMAIN alg.tasks}

Save ==
    /\ Interrupted
    /\ Pending \subseteq SaveDuring
    /\ alg' = serialized(alg)
    /\ UNCHANGED kb

\* Loading a linear search would write through a pointer that was never set.
Reload ==
    /\ Interrupted
    /\ "linear" \notin Pending
    /\ alg' = tree_reload(alg)
    /\ UNCHANGED kb

SetBinarySearch ==
    /\ Interrupted
    /\ alg' = [alg EXCEPT !.use_binary_search = ~@]
    /\ UNCHANGED kb

Forget ==
    /\ Interrupted
    /\ \/ kb' = clear_queries(kb)
       \/ \E count \in Forgotten : count < kb.timestamp /\ kb' = undo(kb, count)
    /\ UNCHANGED alg

Next ==
    \/ Advance \/ AnswerQuery \/ AddCounterexample
    \/ Save \/ Reload \/ SetBinarySearch \/ Forget

(***************************************************************************)
(* The application's loop, as in Learner: it advances when nothing is left *)
(* to be answered, answers, and refutes, each as long as that changes      *)
(* something.                                                              *)
(***************************************************************************)
MustAdvance ==
    /\ conjecture = NoConjecture
    /\ kb.required = <<>>
    /\ advance(alg, kb) # [alg |-> alg, kb |-> kb, conjecture |-> conjecture]
MustAnswer ==
    /\ kb.required # <<>>
    /\ FirstAnswered(kb) # kb
MustRefute ==
    /\ conjecture # NoConjecture
    /\ Counterexamples(conjecture, MaxCounterexample) # {}

Fairness ==
    /\ []<><<Advance>>_vars \/ []<>~MustAdvance
    /\ []<><<AnswerQuery>>_vars \/ []<>~MustAnswer
    /\ []<><<AddCounterexample>>_vars \/ []<>~MustRefute

Spec == Init /\ [][Next]_vars /\ Fairness

-----------------------------------------------------------------------------
(* Properties. *)

Leaves == {n \in DOMAIN alg.node : is_leaf(alg, n)}
Inner == DOMAIN alg.node \ Leaves

(***************************************************************************)
(* The nodes are a tree: parents and children name each other, levels      *)
(* count from the root (least_commont_ancestor climbs by them), and the    *)
(* leaves have distinct ids below leaf_node_count (derive_conjecture       *)
(* indexes an array of that size by id).                                   *)
(***************************************************************************)
TypeOK ==
    /\ \A n \in Inner : \A child \in {alg.node[n].left, alg.node[n].right} :
          /\ alg.node[child].parent = n
          /\ alg.node[child].level = alg.node[n].level + 1
    /\ \A n \in DOMAIN alg.node \ {alg.root} :
          LET p == alg.node[n].parent
          IN  p \in Inner /\ n \in {alg.node[p].left, alg.node[p].right}
    /\ {alg.node[n].id : n \in Leaves} = 0..(alg.leaf_node_count - 1)
    /\ Cardinality(Leaves) = alg.leaf_node_count

\* Where the teacher's answers lead a word.
Descend(w, n) ==
    IF is_leaf(alg, n) THEN n
    ELSE IF Truth(w \o alg.node[n].label) = Accept THEN alg.node[n].right ELSE alg.node[n].left
Belongs(w, n) == Repeated(LAMBDA m : Descend(w, m), n, Len(alg.node))

(***************************************************************************)
(* Sifting the word of a leaf leads to that leaf, so the leaves' words     *)
(* lead to different states of the target.  A split must put the old and   *)
(* the new leaf on the right sides, and the word it splits by must tell    *)
(* them apart, whatever was forgotten or loaded since it was planned.      *)
(***************************************************************************)
LeavesInPlace == \A n \in Leaves : Belongs(alg.node[n].label, alg.root) = n

(***************************************************************************)
(* Every transition leads to the leaf that its word belongs to, except for *)
(* those that a pending task will compute.  split_node_task finds the      *)
(* transitions it makes invalid by incoming_transitions alone.             *)
(***************************************************************************)
TransitionsRight ==
    \A n \in Leaves : \A a \in DOMAIN alg.node[n].transitions :
        \/ \E i \in DOMAIN alg.tasks :
              /\ alg.tasks[i].kind = "transition"
              /\ alg.tasks[i].source = n /\ alg.tasks[i].symbol = a
        \/ alg.node[n].transitions[a] = Belongs(Append(alg.node[n].label, a), alg.root)

(***************************************************************************)
(* The binary search keeps a good position to its left and a bad one at    *)
(* its right end: therefore it ends at a bad prefix, and the unsigned      *)
(* position never reaches 0, where make_prefix() would run off the word.   *)
(***************************************************************************)
SearchBracketsBadPrefix ==
    \A i \in DOMAIN alg.tasks : alg.tasks[i].kind = "binary" =>
        LET task == alg.tasks[i]
            good(j) == simulate_run(alg, Prefix(task, j)) = Belongs(Prefix(task, j), alg.root)
        IN  /\ task.position \in task.left..task.right
            /\ good(task.left - 1) /\ ~good(task.right)

(***************************************************************************)
(* Every counterexample splits a leaf, and there are never more leaves     *)
(* than the language needs states.                                         *)
(***************************************************************************)
LeavesGrow ==
    /\ Found <= target.state_count
    /\ conjecture # NoConjecture => refuted < Found

(***************************************************************************)
(* The language is learned in the end.                                     *)
(***************************************************************************)
Learns == <>[]Learned

=============================================================================
