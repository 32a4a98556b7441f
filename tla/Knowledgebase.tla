--------------------------- MODULE Knowledgebase ---------------------------
(***************************************************************************)
(* A knowledgebase in use.  Its users are a learning algorithm, which asks *)
(* for words, and the application, which answers: directly, by a block of  *)
(* answers in list order, or by way of a query tree that it takes away,    *)
(* answers and merges back while the knowledgebase may have moved on.  The *)
(* application may also undo, clear, and save and load.                    *)
(*                                                                         *)
(* Between two calls the object is at rest, so a call is one step.         *)
(***************************************************************************)
EXTENDS KnowledgebaseTree

CONSTANTS
    UserWords,      \* the words the users mention
    MaxPrefixCount, \* bound on the prefix_count of add_query
    MaxUndo         \* bound on the count of undo

ASSUME UserWordsAssumption == UserWords \subseteq Word
ASSUME BoundsAssumption == MaxPrefixCount \in Nat /\ MaxUndo \in Nat

VARIABLES
    kb,     \* the knowledgebase
    tree    \* the query tree the application holds; empty when it holds none

vars == <<kb, tree>>

(***************************************************************************)
(* A call's result becomes the new state of the object.  The bound: the    *)
(* clock is not run past its last value by counting up, which would take   *)
(* 2^32 answers (undo may still wrap it).                                  *)
(***************************************************************************)
Bounded(k) == k.timestamp < TSMod

Becomes(k) ==
    /\ Bounded(k)
    /\ kb' = k
    /\ UNCHANGED tree

Init ==
    /\ kb = EmptyKnowledgebase
    /\ tree = EmptyKnowledgebase

-----------------------------------------------------------------------------
(* The learning algorithm's calls. *)

AddQuery(w) == \E p \in 0..MaxPrefixCount : Becomes(add_query(kb, w, p))

ResolveOrAddQuery(w) == Becomes(resolve_or_add_query(kb, w))

GetNodeptr(w) == Becomes(find_or_create(kb, {w}))

-----------------------------------------------------------------------------
(* The application's calls. *)

AddKnowledge(w) == \E a \in Answers : Becomes(add_knowledge(kb, w, a))

AddOrAlterKnowledge(w) == \E a \in Answers : Becomes(add_or_alter_knowledge(kb, w, a))

Undo(count) == Becomes(undo(kb, count))

Clear == Becomes(clear)

ClearQueries == Becomes(clear_queries(kb))

CheckLargestSymbol == Becomes(check_largest_symbol(kb))

\* The answers to all queries in one block, when the sender counted them right.
AnswerAllQueries ==
    \E acceptances \in [1..Len(kb.required) -> Answers] :
        Becomes(deserialize_query_acceptances(kb, Len(kb.required), acceptances))

\* The block was made for another list of queries: size is off by one.
AnswerWrongNumber ==
    \E size \in {Len(kb.required) - 1, Len(kb.required) + 1} \cap Nat :
    \E acceptances \in [1..size -> Answers] :
        Becomes(deserialize_query_acceptances(kb, size, acceptances))

CreateQueryTree ==
    /\ tree' = create_query_tree(kb)
    /\ Bounded(tree')
    /\ UNCHANGED kb

\* The application answers the first open query of its tree.
AnswerTreeQuery ==
    /\ tree.required # <<>>
    /\ \E a \in Answers : tree' = set_answer(tree, Head(tree.required), a)
    /\ Bounded(tree')
    /\ UNCHANGED kb

MergeTree == Becomes(merge_knowledgebase(kb, tree))

\* Saved, and loaded into a fresh object (after a restart, or by the peer).
Reload == Becomes(reload(kb))

-----------------------------------------------------------------------------
Next ==
    \/ \E w \in UserWords :
          \/ AddQuery(w)
          \/ ResolveOrAddQuery(w)
          \/ GetNodeptr(w)
          \/ AddKnowledge(w)
          \/ AddOrAlterKnowledge(w)
    \/ \E count \in 0..MaxUndo : Undo(count)
    \/ Clear
    \/ ClearQueries
    \/ CheckLargestSymbol
    \/ AnswerAllQueries
    \/ AnswerWrongNumber
    \/ CreateQueryTree
    \/ AnswerTreeQuery
    \/ MergeTree

\* A knowledgebase that lives in one process.
Spec == Init /\ [][Next]_vars

\* One that is also saved and loaded.
PersistSpec == Init /\ [][Next \/ Reload]_vars

-----------------------------------------------------------------------------
(* Properties of a knowledgebase k at rest. *)

WellTyped(k) ==
    /\ k = [node |-> k.node, required |-> k.required, answercount |-> k.answercount,
            largest_symbol |-> k.largest_symbol, timestamp |-> k.timestamp]
    /\ DOMAIN k.node \subseteq Word
    /\ IsFiniteSet(DOMAIN k.node)
    /\ k.node \in [DOMAIN k.node -> Node]
    /\ k.required \in Seq(Word)
    /\ k.answercount \in Nat
    /\ k.largest_symbol \in Nat
    /\ k.timestamp \in Nat \ {0}

\* With a word, the tree holds all its prefixes, down to the root.
PrefixClosed(k) ==
    /\ <<>> \in DOMAIN k.node
    /\ \A w \in DOMAIN k.node : Prefixes(w) \subseteq DOMAIN k.node

\* The list holds no word twice and only words whose node is required.
ListSound(k) ==
    /\ IsInjective(k.required)
    /\ Range(k.required) \subseteq WordsWith(k, "required")

\* Every required node is in the list.
ListComplete(k) == WordsWith(k, "required") \subseteq Range(k.required)

\* The list is in the order in which the queries were first asked.
ListByTime(k) ==
    \A i, j \in 1..Len(k.required) :
        i < j => k.node[k.required[i]].ts <= k.node[k.required[j]].ts

\* An answer lies in the clock's past, a query not in its future, and an
\* ignored node carries nothing over.
StampedInThePast(k) ==
    \A w \in DOMAIN k.node :
        LET n == k.node[w] IN
        \/ n.status = "answered" /\ n.ts \in 1..(k.timestamp - 1) /\ n.ans \in Answers
        \/ n.status = "required" /\ n.ts \in 1..k.timestamp /\ n.ans = NoAnswer
        \/ n = Ignored

CountExact(k) == k.answercount = Cardinality(WordsWith(k, "answered"))

-----------------------------------------------------------------------------
(* Invariants. *)

(***************************************************************************)
(* The type invariant: both objects are trees of words with typed members. *)
(* cleanup() deletes nodes and every method creates them, from the root.   *)
(***************************************************************************)
TypeOK ==
    /\ WellTyped(kb) /\ PrefixClosed(kb) /\ Bounded(kb)
    /\ WellTyped(tree) /\ PrefixClosed(tree) /\ Bounded(tree)

(***************************************************************************)
(* The list `required` and the status of the nodes are two records of the  *)
(* same thing, kept by mark_required, set_answer, ignore and clear: within *)
(* one process they agree, and the list is in the order of asking, which   *)
(* is the order deserialize_query_acceptances pairs answers with.          *)
(***************************************************************************)
QueriesExact ==
    /\ ListSound(kb) /\ ListComplete(kb) /\ ListByTime(kb)
    /\ ListSound(tree) /\ ListComplete(tree) /\ ListByTime(tree)

(***************************************************************************)
(* No call but loading breaks this agreement, in a fresh knowledgebase or  *)
(* in one that was loaded, once its list is right: no undo, ignore,        *)
(* cleanup or merge forgets a query or asks one twice.                     *)
(***************************************************************************)
QueriesStayExact == [][QueriesExact => QueriesExact' \/ ~Next]_vars

(***************************************************************************)
(* What loading leaves of it, as deserialize() marks nodes required and    *)
(* does not put them into the list: the list is sound, so answering its front always answers an open query and  *)
(* clear_queries and deserialize_query_acceptances terminate.              *)
(***************************************************************************)
QueriesSound ==
    /\ ListSound(kb) /\ ListByTime(kb)
    /\ ListSound(tree) /\ ListByTime(tree)

(***************************************************************************)
(* answercount is kept by hand in set_answer, ignore, clear and            *)
(* deserialize_subtree; is_empty() relies on it.                           *)
(***************************************************************************)
AnswerCountExact == CountExact(kb) /\ CountExact(tree)

(***************************************************************************)
(* undo() decides by timestamp alone, so no knowledge may ever be stamped  *)
(* at or after the clock: it would survive no undo, or vanish by undo(0).  *)
(* Merging rewinds the clock for each word, undo wraps it, loading         *)
(* recomputes it.                                                          *)
(***************************************************************************)
KnowledgeInThePast == StampedInThePast(kb) /\ StampedInThePast(tree)

(***************************************************************************)
(* The promise of is_answered(), manual/knowledgebase.tex:658: true "if    *)
(* there are no nodes marked required", false otherwise.                   *)
(***************************************************************************)
IsAnsweredAsDocumented == kb.required = <<>> <=> WordsWith(kb, "required") = {}

-----------------------------------------------------------------------------
(* The knowledgebase implements KnowledgeLog.                              *)

\* What was known when the clock showed t is what is stamped before t; what is
\* known now is all there is.
KnownAt(k, t) ==
    {w \in WordsWith(k, "answered") : k.node[w].ts < t \/ t = k.timestamp}
History(k) ==
    [t \in 1..k.timestamp |-> [w \in KnownAt(k, t) |-> k.node[w].ans]]

Log == INSTANCE KnowledgeLog WITH history <- History(kb)

(***************************************************************************)
(* Every call, saving and loading included, leaves an account that only    *)
(* grows or goes back: no merge, filter answer or block of answers rewrites*)
(* what is known, and no undo leaves later knowledge behind.               *)
(***************************************************************************)
ImplementsLog == Log!Spec

(***************************************************************************)
(* undo(count) takes back exactly the last count ticks, whatever merges,   *)
(* alterations and earlier undos came before - as long as there were as    *)
(* many.                                                                   *)
(***************************************************************************)
UndoExact ==
    [][\A count \in 0..MaxUndo :
          count <= kb.timestamp /\ Undo(count) => Log!Undo(count)]_vars

=============================================================================
