------------------------------ MODULE Learner ------------------------------
(***************************************************************************)
(* An L*-style learning algorithm at work: libalf's learning_algorithm     *)
(* interface, the knowledgebase between it and the user, and a user who    *)
(* plays the teacher for one language.  The user advances the algorithm,   *)
(* answers the queries it leaves in the knowledgebase one at a time (and   *)
(* may advance again before all are answered), looks at the conjecture,    *)
(* and gives a counterexample if there is one.  The user may also undo the *)
(* last answers, and then synchronizes the algorithm as the manual asks.   *)
(***************************************************************************)
EXTENDS RivestSchapire, NLstar, Teacher

CONSTANTS
    Garbage,        \* what an uninitialized timestamp may hold
    MaxActivations, \* bound on the calls that complete() makes of itself
    MaxReloads,     \* bound on the number of reloads that change something
    MaxUndos        \* the ways to start, <<algorithm, alphabet size>>, and
                    \* for each the bound on the number of undos

ASSUME MaxActivationsAssumption == MaxActivations \in Nat \ {0}
ASSUME StartsAssumption ==
    \A start \in DOMAIN MaxUndos :
        /\ start[1] \in {"simple", "col", "rs", "nl"} /\ Alphabet(start[2])
        /\ start[1] = "nl" => Answers \subseteq {"yes", "no"}

VARIABLES
    kb,         \* the knowledgebase
    alg,        \* the learning algorithm
    conjecture, \* the conjecture that awaits the user's verdict, or NoConjecture
    refuted,    \* the number of states that proved too small (history)
    undos,      \* the number of undos the user may still make
    reloads     \* the number of reloads that were made

vars == <<kb, alg, conjecture, target, refuted, undos, reloads>>

New(type, asize) ==
    IF type = "rs" THEN EmptyRSTable(asize) ELSE EmptyTable(type, asize)

Init ==
    /\ kb = EmptyKnowledgebase
    /\ \E start \in DOMAIN MaxUndos :
          alg = New(start[1], start[2]) /\ undos = MaxUndos[start]
    /\ conjecture = NoConjecture
    /\ target \in Targets
    /\ refuted = 0
    /\ reloads = 0

Learned == conjecture # NoConjecture /\ Right(conjecture)

-----------------------------------------------------------------------------
(* The user's calls. *)

\* complete() from one of its calls to the next one, if there is a next one.
Activated(r, n) ==
    IF ~r.again THEN r
    ELSE CASE r.alg.type = "rs" -> rs_complete(r.alg, r.kb)
           [] r.alg.type = "nl" -> nl_complete(r.alg, r.kb)
           [] OTHER -> complete(r.alg, r.kb)
Completed == FoldLeft(Activated, Again(alg, kb), [n \in 1..MaxActivations |-> n])

\* advance(): complete(), and derive_conjecture() if that worked.
Delivered(r) ==
    [kb |-> r.kb,
     conjecture |-> IF ~r.ready THEN NoConjecture
                    ELSE IF r.alg.type = "nl" THEN nl_derive_conjecture(r.alg)
                    ELSE derive_conjecture(r.alg),
     alg |-> IF r.ready /\ r.alg.type = "rs" THEN rs_remember(r.alg) ELSE r.alg]

Advance ==
    /\ conjecture = NoConjecture
    /\ LET c == Completed
           r == Delivered(c)
       IN  ~c.again /\ kb' = r.kb /\ conjecture' = r.conjecture /\ alg' = r.alg
    /\ UNCHANGED <<target, refuted, undos, reloads>>

AnswerQuery ==
    /\ kb.required # <<>>
    /\ kb' = FirstAnswered(kb)
    /\ UNCHANGED <<alg, conjecture, target, refuted, undos, reloads>>

add_counterexample(w, garbage) ==
    CASE alg.type = "simple" -> simple_add_counterexample(alg, kb.timestamp, w, garbage)
      [] alg.type = "col" -> col_add_counterexample(alg, kb.timestamp, w, garbage)
      [] alg.type = "rs" -> rs_add_counterexample(alg, w, garbage)
      [] alg.type = "nl" -> nl_add_counterexample(alg, w)

\* A new letter need not refute the number of states, and a refused counterexample does not.
AddCounterexample ==
    /\ conjecture # NoConjecture
    /\ \E w \in Counterexamples(conjecture, MaxCounterexample), garbage \in Garbage :
          /\ alg' = add_counterexample(w, garbage)
          /\ refuted' = IF alg' # alg /\ alg'.alphabet_size = alg.alphabet_size
                        THEN conjecture.state_count ELSE refuted
    /\ conjecture' = NoConjecture
    /\ UNCHANGED <<kb, target, undos, reloads>>

\* If nothing is left of the algorithm's state it must not be used any more, and
\* the user starts over with a new one.
UndoAndSync ==
    /\ undos > 0
    /\ undos' = undos - 1
    /\ \E count \in 1..(kb.timestamp - 1) :
          LET k == undo(kb, count)
              synced == sync_to_knowledgebase(alg, k)
          IN  /\ kb' = k
              /\ alg' = IF synced.initialized THEN synced
                        ELSE New(alg.type, alg.alphabet_size)
    /\ conjecture' = NoConjecture
    /\ refuted' = 0
    /\ UNCHANGED <<target, reloads>>

\* The program saves the learner and goes on with one that loads it; without success it
\* starts with a new one.  (Not a step if that changes nothing.)
Reloaded ==
    LET loaded == CASE alg.type = "rs" -> rs_reload(alg)
                    [] alg.type = "nl" -> nl_reload(alg)
                    [] OTHER -> table_reload(alg)
    IN  IF loaded.alphabet_size = 0 THEN New(alg.type, alg.alphabet_size) ELSE loaded

SaveAndLoad ==
    /\ reloads < MaxReloads
    /\ Reloaded # alg
    /\ alg' = Reloaded
    /\ reloads' = reloads + 1
    /\ refuted' = 0
    /\ UNCHANGED <<kb, conjecture, target, undos>>

Next == Advance \/ AnswerQuery \/ AddCounterexample \/ UndoAndSync \/ SaveAndLoad

(***************************************************************************)
(* The user's program is a loop that advances, answers and checks, so each *)
(* of these is taken again and again as long as it is called for and       *)
(* changes something.  (Weak fairness, with ENABLED written out; the user  *)
(* need not advance while there are queries to be answered.)               *)
(***************************************************************************)
MustAdvance ==
    /\ conjecture = NoConjecture
    /\ kb.required = <<>>
    /\ LET c == Completed
       IN  ~c.again /\ Delivered(c) # [kb |-> kb, conjecture |-> conjecture, alg |-> alg]
MustAnswer ==
    /\ kb.required # <<>>
    /\ FirstAnswered(kb) # kb
MustRefute ==
    /\ conjecture # NoConjecture
    /\ Counterexamples(conjecture, MaxCounterexample) # {}

Fairness ==
    /\ []<><<Advance>>_vars \/ []<>~MustAdvance
    /\ []<><<AnswerQuery>>_vars \/ []<>~MustAnswer
    /\ []<><<AddCounterexample>>_vars \/ []<>~MustRefute

Spec == Init /\ [][Next]_vars /\ Fairness

-----------------------------------------------------------------------------
(* Properties. *)

Rows == Range(alg.upper_table) \cup Range(alg.lower_table)

(***************************************************************************)
(* The type invariant: column names and timestamps go together, no row is  *)
(* longer than the columns, and the upper rows are distinct words.         *)
(***************************************************************************)
TypeOK ==
    /\ alg.type # "nl" => Len(alg.column_names) = Len(alg.column_timestamps)
    /\ \A r \in Rows : r.index \in Word /\ Len(r.acceptance) <= Len(alg.column_names)
    /\ IsInjective([i \in DOMAIN alg.upper_table |-> alg.upper_table[i].index])
    /\ IsInjective(alg.column_names)
    /\ conjecture # NoConjecture => conjecture.state_count > 0

(***************************************************************************)
(* make_consistent and derive_conjecture look up the successors of upper   *)
(* rows by search_tables and use what they find unseen: the rows must be   *)
(* there, whatever was moved up, moved down or removed before.             *)
(***************************************************************************)
SuccessorsPresent ==
    \A r \in Range(alg.upper_table) :
        \A a \in 0..(alg.alphabet_size - 1) : InTables(alg, Append(r.index, a))

(***************************************************************************)
(* The table is a cache of the knowledgebase: every cell can still be      *)
(* resolved there, to the same answer.  An undo must not leave cells       *)
(* behind.                                                                 *)
(***************************************************************************)
CellsKnown ==
    \A r \in Rows : \A c \in DOMAIN r.acceptance :
        LET w == r.index \o alg.column_names[c]
        IN  Resolvable(kb, w) /\ resolve_query(kb, w) = r.acceptance[c]

(***************************************************************************)
(* A conjecture agrees with every cell of the table it was derived from,   *)
(* so no word of the table can be a counterexample, which                  *)
(* add_counterexample relies on.  NL* relies on it for its columns only;   *)
(* what else it has in its table it may wrongly reject, but does not       *)
(* wrongly accept.  (Not so for Rivest and Schapire's columns, which need  *)
(* not come with their suffixes.)                                          *)
(***************************************************************************)
Explained(w, answer) ==
    LET said == classify(conjecture, w, Reject)
    IN  \/ said = answer
        \/ alg.type = "nl" /\ w \notin Range(alg.column_names) /\ said = Reject

ConjectureExplainsTable ==
    conjecture # NoConjecture /\ alg.type # "rs" =>
        \A r \in Rows : \A c \in DOMAIN r.acceptance :
            Explained(r.index \o alg.column_names[c], r.acceptance[c])

(***************************************************************************)
(* conjecture_ready(): "check if a hypothesis can be constructed without   *)
(* any further queries" (learning_algorithm.h:274).  If it says so, the    *)
(* next advance() returns one.  (Rivest and Schapire's table inherits      *)
(* conjecture_ready(), which knows nothing of the search for a suffix and  *)
(* says yes in the middle of it.)                                          *)
(***************************************************************************)
ReadyMeansReady ==
    /\ conjecture = NoConjecture /\ alg.type # "rs"
    /\ IF alg.type = "nl" THEN nl_conjecture_ready(alg) ELSE conjecture_ready(alg)
    =>
        Delivered(Completed).conjecture # NoConjecture

(***************************************************************************)
(* A conjecture is never larger than the language needs, and after a       *)
(* counterexample without new letters it is larger than the one refuted.   *)
(* The two bound the number of counterexamples by the number of states.    *)
(***************************************************************************)
ConjecturesGrow ==
    conjecture # NoConjecture =>
        /\ alg.type # "nl" => refuted < conjecture.state_count
        /\ conjecture.state_count <= target.state_count

(***************************************************************************)
(* The language is learned in the end.                                     *)
(***************************************************************************)
Learns == <>[]Learned

=============================================================================
