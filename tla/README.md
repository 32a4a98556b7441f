# libalf in TLA+

TLA+ modules for the automata learning libraries in this repository: libalf with
its knowledgebase, its online and offline learning algorithms, the dispatcher
that serves them to Java programs, and the automata libraries libAMoRE and
libAMoRE++ that applications answer equivalence queries with. TLC checks them on
small instances; TLAPS proves the invariants of the knowledgebase, that it
implements its abstract specification, that the tables of the L*-style learners
are right about it, and the safety of the dispatcher and its clients, for all
instances.

## The system

A learning algorithm finds a finite automaton for a language it can only ask
about. `libalf` (C++ templates, `src/libalf/include/libalf/*.h`) separates two
parts that share state:

- the **knowledgebase**: a tree of words with what is known about each
  (`NODE_IGNORE`, `NODE_REQUIRED`, `NODE_ANSWERED`), a list of the required
  nodes in the order of asking, counters, and a clock that ticks with each
  answer and stamps every node. `undo(n)` turns the clock back;
- a **learning algorithm** with a table or tree of its own, which asks the
  knowledgebase, caches answers, and derives a conjecture.

The application drives both: it calls `advance()`; if no conjecture comes back
it answers the queries now in the knowledgebase, otherwise it compares the
conjecture with its language and calls `add_counterexample()`. After an
`undo()` of the knowledgebase it calls `sync_to_knowledgebase()`. All of it is
one thread per knowledgebase; what makes it hard is not parallelism but the long
sequences of legal calls, the two copies of the same knowledge (the list and
the tree, the tree and the table), the clock that ties them together, and
searches that are spread over many calls.

The **dispatcher** makes the library a server: a main process forks one servant
per client, a servant keeps a table of objects that refer to each other by slot
and executes the commands of its client, and `jalf` is the client library whose
Java objects are handles for slots. Here processes do run concurrently, and
either side may end at any moment.

**libAMoRE** (C) has the automata, their transformations, transition monoids and
regular expressions; **libAMoRE++** is its object interface; `amore_alf_glue.h`
connects it to libalf's conjectures.

| component | state | operations | what makes it correct |
|---|---|---|---|
| knowledgebase | tree, query list, clock, counters | ask, answer, merge, undo, clear, save, load | list and tree agree; undo by timestamp takes back exactly what came later; counters are exact |
| L* tables | upper and lower rows, columns, timestamps | fill, close, make consistent, add counterexample, sync, save, load | every successor row exists; cells agree with the knowledgebase; conjectures agree with the table and grow |
| Rivest-Schapire | the same, plus a search interval and the last conjecture | the binary search, one query at a time | the suffix found splits a state; the rows it refers to exist |
| NL* | a table without timestamps, prime rows | as L*, with joins of rows for rows | the same, for a nondeterministic conjecture |
| Kearns-Vazirani | a binary tree of words, a list of suspended tasks | sift, search for a bad prefix, split a leaf, save, load | the tree sorts words as the language does; every transition is right or is going to be computed; the search never leaves its word |
| learning algorithm and user | conjecture, queries | advance, answer, refute, undo and sync, save and load | the language is learned in the end |
| RPNI, DeLeTe2, Biermann, automata inferring, counterexample learner | a sample, the interval of a search for a size, a conjecture of their own | derive a conjecture; find the least size with a solver; conclude an answer from a counterexample | the conjecture agrees with the sample and is not larger than needed; encodings mean what they should |
| dispatcher, jalf | processes, sockets, objects with references, handles, calls | connect, create, link, use, delete, hang up | references are mutual, streams stay in step, handles name what they should, every call returns |
| libAMoRE, libAMoRE++ | automata with flags, monoids, expressions | transformations, questions, classification, formats | results accept what their names say; flags tell the truth |
| filters, normalizers, mVCA, statistics, liblangen, fat | values | evaluate, normalize, count | modelled only as far as the above needs them |

`PROJECT.json` lists all components with what is modelled of each, and under
`hazards` the places in the code where things can go wrong that tests hardly
reach; the properties are aimed at these.

## The modules

```
KnowledgebaseTree        the knowledgebase as a data type: one operator per method
|-- Knowledgebase        a state machine: users call the methods in any order
|     |-- KnowledgeLog   the abstract specification it implements
|     |-- MCKnowledgebase            instances for TLC
|     `-- KnowledgebaseProofs        theorems (uses CollectionLemmas)
|           `-- KnowledgeLogProofs   theorems: the refinement, undo
`-- Conjecture           moore machines and nondeterministic automata
      |-- Teacher        the user: right answers, counterexamples
      |-- AngluinTable   the observation table: angluin_simple_table, angluin_col_table
      |     |-- NLstar   NLstar_table
      |     `-- RivestSchapire       rivest_schapire_table
      |           `-- Learner        state machine: algorithm, knowledgebase, Teacher
      |                 |-- MCLearner
      |                 `-- LearnerProofs      theorems (uses CollectionLemmas,
      |                                            LoopRules)
      |-- KearnsVazirani the tree and the tasks of kearns_vazirani
      |     `-- TreeLearner          state machine: algorithm, knowledgebase, Teacher
      |           |-- MCTreeLearner
      |           `-- TreeLearnerProofs  theorems (uses CollectionLemmas, LoopRules)
      |-- StateMerging   RPNI, DeLeTe2
      |     `-- Biermann             MiniSat_biermann, original_biermann
      `-- PrefixTree     the sample of the inferring algorithms
            |-- InferringCsp         *_csp_MiniSat, *_csp_Z3
            |-- InferringMachines    deterministic_inferring_MiniSat, _Z3
            |-- InferringDfa         dfa_inferring_MiniSat, _Z3
            |-- InferringNfa         nfa_inferring_MiniSat
            `-- AutomataInferring    what the classes have in common
                  `-- OfflineLearner state machine: sample, algorithm, user
                        `-- MCOffline

ClientObjects            the objects of one client and their references
`-- Servant              one command: what it does to the objects, what it replies
      `-- Dispatcher     state machine: main process, servants, clients
            |-- MCDispatcher
            `-- DispatcherProofs     theorems: the objects of a servant
                  `-- DispatcherCallProofs   theorems: the calls of careful clients

AmoreAutomata            libAMoRE: dfas, nfas and their transformations
|-- AmoreMinimalNfa      the search for a minimal nfa
|-- AmoreMonoid          transition monoids, classes of languages
|     `-- AmoreClasses   D-classes, relations, star-free expressions
`-- AmoreRegex           parser, Berry-Sethi, state elimination, infix form
      |-- AmoreGenrex    generalized regular expressions
      `-- FiniteAutomaton            libAMoRE++ and amore_alf_glue.h (with all of the above)
            `-- Automata state machine: a program that works on an automaton
                  `-- MCAutomata
```

**KnowledgebaseTree.** A knowledgebase is a record with the data members of the
class: `node` maps each word in the tree to its status, timestamp and answer
(the pointer structure is the prefix order of words), `required` is the list
(`std::list<node*>` becomes a sequence of words), `answercount`,
`largest_symbol` and `timestamp` are the counters. A method is an operator from
such a record to such a record; operators call each other as the methods do.
`undo` computes its limit in the unsigned arithmetic of the build
(`% TSMod`). Left out: `nodecount` and `resolved_queries`, which only their
getters read.

**Knowledgebase.** The object at rest between calls (`kb`), and a query tree
that the application took with `create_query_tree()` (`tree`), answers by itself
and merges back while `kb` has moved on. One action per public method.
`Spec` is a knowledgebase in one process; `PersistSpec` adds `Reload`, saving
and loading, after which less can be promised.

**KnowledgeLog.** The promise of a knowledgebase without tree, queries and
timestamps: for each tick of the clock, what was known then. Ticks only add;
an undo drops the last entries; altering an answer rewrites the past of that
word only.

**AngluinTable, RivestSchapire, NLstar.** The table is a record with the members
of the class; rows carry `ut_timestamp` and `lt_timestamp`. Virtual methods that
differ between the classes have the class in their name
(`col_add_counterexample`, `nl_complete`). In the code `complete()` calls itself, always as the last thing it
does, until it needs an answer that is not known or the table is ready. Here one
such call is an operator that says in `again` whether there is a next one, and
`Completed` in Learner makes them one after the other, up to `MaxActivations`; an
`advance()` that would need more is not a step, so `Learns` would fail if the bound
cut anything off. No normalizer is set, so the BOTTOM branches of the
code do not occur; `word.front()` on the empty word in `make_consistent`, which
the code evaluates before it compares with `BOTTOM_CHAR`, is taken not to be
`BOTTOM_CHAR` (with libstdc++ it reads the list's size, 0). The uninitialized
timestamps of `increase_alphabet_size` are a nondeterministic choice
(`Garbage`). `table_reload`, `rs_reload` and `nl_reload` are `serialize()`
followed by `deserialize()`: a table that was never filled cannot be loaded, and
Rivest-Schapire's search and remembered conjecture are lost.

**Learner.** `Advance`, `AnswerQuery`, `AddCounterexample`, `UndoAndSync`,
`SaveAndLoad`, for an algorithm and a language chosen at the start. The user may
advance before all queries are answered, gives any counterexample up to a
length, and after an undo that leaves nothing of the algorithm's state starts a
new one, as the manual asks. `refuted` is a history variable: the size of the
last refuted conjecture.

**KearnsVazirani.** The learner is a record with the members of the class; nodes
are numbered in the order of allocation, so that pointers are numbers and NULL
is 0. The four task classes are records with a `kind`; `perform` stops where an
answer is missing and returns the task as it is then. `Work` is the loop of
`advance()` over the list, with tasks added and removed on the way. The loops of
the class are rounds (`Repeated`): as many as the loop can have at most, of which
those after its end change nothing. A sift and a climb have one round per node, a
search one per letter of the counterexample; the list is empty when a
counterexample comes, so it has the tasks that wait, one split, and the transitions
to the split leaf and from the new one. Left out as
functions of other members: `run_buffer`, the prefixes of the binary search,
`transition_label`; a `std::set` of addresses is walked in the order of
allocation, which only decides the order of queries. `serialized` is what
`serialize()` does to the learner that is saved, `tree_reload` what
`deserialize()` makes of it.

**TreeLearner.** `Advance`, `AnswerQuery`, `AddCounterexample` as in Learner, and
interruptions: `Save` (go on with the original), `Reload` (go on with the copy),
`SetBinarySearch`, and `Forget` (the knowledgebase drops its queries or undoes
answers; the learner does not support `sync_to_knowledgebase()`, and as it
stores no answers it does not need it). `Reload` while a linear search is
pending is left out: `deserialize()` writes through the copy's uninitialized
`prefix` there. `inner_node_count` stays 1 as in the code.

**StateMerging, Biermann.** RPNI's equivalences are sets of pairs of nodes:
`add` is `equivalence_relation::add`, `merge_states` the loop over pairs in
graded lexicographic order with failed merges undone. DeLeTe2's inclusions are
computed diagonal by diagonal as in the code. `MiniSat_biermann` is its
constraints and the search for the size, `original_biermann` a comparison of
subtrees to a fixed depth (`Nondeterminism`).

**PrefixTree, Inferring\*, AutomataInferring.** Each class hands a formula about
the nodes of a prefix tree to MiniSat or Z3 and decodes a model. A definition
per group of clauses says which labellings satisfy it; `infer_n` is the set of
machines that some model decodes to, so that every answer the external solver
may give is explored. The variants of an encoding (unary or binary, variables or
functions, enumerations) are separate definitions, because the property is that
they mean the same.

**OfflineLearner.** `DeriveAtOnce` for the algorithms that answer in one call;
`StartSearch`, `Grow`, `Bisect` and `EndSearch` for `infer_linear` and
`infer_binarysearch`, one call of the solver per step; `Counterexample` for a user
who refutes, directly or through `counterexample_learning` (`wrapped`).

**ClientObjects, Servant, Dispatcher.** A servant's objects are a function from
slots to records; NULL is a freed slot. `Servant` translates each command to the
set of its outcomes: new objects, reply, whether the process is killed. What the
wrapped libalf objects compute is abstracted to integers, as the other modules
model it. `Dispatcher` has the main loop (accept, fork, reap), servants, and
clients on top of jalf: a call is a request, the reply is read integer by
integer according to what the Java class expects of that command. `Careless`
names what a client may do although the servant does not check it and goes wrong.
The run `dispatcher` has it empty, so its properties say that nothing else goes wrong;
the other two runs put one of these in. A request carries the class of its stub: after
`destroy()` failed on an object in use, a handle may name a slot that now has an
object of another class. Handles of the same slot and class are one element of
`stubs`. A knowledgebase that is deleted leaves every iterator that it did not tell
at a freed node (`Freed`).

**AmoreAutomata ... AmoreGenrex.** One operator per C function, on records with
the members of the C structures that outlive the function. Delta matrices are
functions or sets of moves. Loops that write to a matrix they read from keep the
order of the code (`enfa2nfa`), other loops are set comprehensions. A regular
expression is a tree instead of its postfix string. `sftest()` has two
algorithms, one for monoids with D-classes (`test_htrivial`); `Automata` asks both ways. The monoid enumerates its
elements in the order of the code, since D-classes, relations and star-free
expressions are numbered by it. `AmoreMinimalNfa` follows Kahlert's search of
`nfa2mnfa*.c`: the matrix of a language's residuals and those of its reverse,
grids in it as candidates for states, boolean sums for what must be covered, and
the backtracking over sums with its locks and levels (the record `s` holds the
static variables of `nfa2mnfa_sol.c`). Its result is a set, because without any
sum the code compares with the `minimal` that an earlier call left.

**FiniteAutomaton, Automata.** libAMoRE++'s two classes behind one interface, and
a program that makes an automaton (text, generalized expression, stream,
conjecture), applies up to three operations with operands from a small library,
asks, and classifies. `did` records the last operation with its operand and its
answers. Two of the conjectures are nfas of four states for `Minimize`: one whose
smallest equivalent is found by backtracking, one whose search is given up
because a sum is empty (the branch of `jump_back()` that an author's comment
calls a "dirty trick"). The branch that jumps back to a locked variable is in the
model but no automaton of this size gets there. Meanings are defined on words (`Accepts`, `Matches`, `Meaning`),
independent of the constructions.

## What the runs check

| run | shows | bounds |
|---|---|---|
| `knowledgebase` | saved and loaded at any moment: the list holds only required nodes, in the order of asking, and once it holds all of them no call but loading loses one; `undo(n)` is exactly n ticks back in the log, whatever merges and alterations came before; `answercount` is exact; all knowledge is stamped before the clock; every step is a step of `KnowledgeLog` | two words, one a prefix of the other and decided by the filter, clock below 5 |
| `learner` | four algorithms learn each of four languages, although answers are taken back and the learner is saved and loaded: successors of upper rows are always there; no cell is left that the knowledgebase does not know; conjectures agree with their table and grow with every counterexample, up to the size of the minimal automaton; `conjecture_ready()` tells the truth | languages of 3 and 4 states over two letters, counterexamples up to length 3, six calls of `complete()` in a row, one reload, with the full alphabet one undo (simple) or two (column), first alphabet of one or two letters |
| `learner_undo_twice` | (violation) see below | two undos on the simple table |
| `tree_learner` | with either search and one interruption at any moment: the tree sorts words as the teacher does, transitions are right or pending, the binary search brackets a bad prefix, each counterexample splits a leaf, and learning ends | languages of 3 and 4 states, counterexamples up to length 3, undo of 1 or 4 ticks |
| `tree_learner_save` | (violation) see below | the same |
| `dispatcher` | references between objects are mutual, handles are exactly the objects, replies and calls stay in step, servants end only when their client leaves; every call returns and every servant is reaped | one client with up to three objects and one command of each group with the same effect, one client that comes and goes, fork may fail |
| `dispatcher_counterexample` | (violation) see below | the same, with `ADD_COUNTEREXAMPLE` |
| `dispatcher_destroyed` | when objects are deleted that others use: an iterator that counts as valid stands in the tree of an existing knowledgebase that will tell it, also when handles outlive their objects | one client, three slots for knowledgebases, iterators and algorithms, `Careless = {"destroy_used"}`; the commands that make, move and assign iterators, copy a knowledgebase, and set and get the knowledgebase of an algorithm |
| `offline` | conjectures agree with the sample; an encoding has a model exactly if a machine of that size exists; both searches bracket the least size; RPNI's merges are a congruence; DeLeTe2's inclusions are those of the sample; the language is learned | languages of 2 and 3 states, all samples of words up to length 2 for the merging algorithms, counterexamples up to length 5, every class with every setting |
| `automata` | results of operations accept what the operation means; answers to questions are right, with right witnesses; `minimal` means minimal, for nfas too: none with one or two states has the same words up to length 5; classes, D-classes, relations and star-free expressions are those of the language | automata up to 3 states are used further, monoids up to 12 elements, three operations, words up to 4, witnesses up to 5 |
| `automata_inclusion`, `automata_epsilon` | (violations) see below | the same; an automaton of 4 states with empty moves |

Why the bounds are enough to be interesting: in the knowledgebase a clock below
5 lets two words be asked, answered, altered, merged and undone in every order,
a query tree be older or newer than its origin, and `undo` wrap. The languages
of the learners need two or three counterexamples, so tables are closed, made
consistent and extended several times, and the binary search takes both of its
turns; starting with one letter makes the alphabet grow in the middle. For the
tree learner, `ThreeOnes` is there because its last split uses a word from an
inner node below the root; the other languages never need one. Three slots of a
servant hold an algorithm with what it is linked to, or a knowledgebase with an
iterator and a reused slot. A stale handle may send a command of one class to an
object of another, whose reply has another shape; the commands of
`dispatcher_destroyed` are chosen so that no reply is longer than what is read, and
the state space stays finite. It is the only run in which a knowledgebase goes
while iterators stand in it. Offline, a language of three states makes the
searches overshoot and come back, also from a step of zero. With three states
and words up to 4 two dfas that differ are told apart, and every operation
meets automata with and without sinks, unreachable states, several initial
states and the empty word; the D-classes and expressions were also evaluated on
the monoids of all 729 DFAs with three states and two letters.

`ConjectureExplainsTable` excludes Rivest-Schapire, whose columns need not come
with their suffixes; there a conjecture may contradict its table by design. Of
NL* it says less about words that are not columns: its conjecture may reject one
of them that the table accepts (with the language `Uneven` it does), but never
accepts one that the table rejects.
`ReadyMeansReady` excludes it because `conjecture_ready()` is inherited and says
yes in the middle of a search. `QuestionsRight` leaves the empty word out of the
inclusion test, which `automata_inclusion` is about.

**Fairness.** The application's loop (`testsuites/online/online.cpp:220`,
`testsuites/simple-example/learn_regex.cpp`) advances, answers, and refutes
again and again until it is satisfied; each of these is weakly fair. In the
learners the condition is written out: the three `Must...` predicates are the
enabling conditions, including that the step changes something, so that a
learner that is stuck is not excluded by assumption. `UndoAndSync`,
`SaveAndLoad` and the interruptions are not fair. The offline learner has weak
fairness of `Next`, written out for the same reason (`FairSpec`). In the dispatcher
the operating system schedules every process: `MainLoop`, each servant's steps,
and each client's reading of what arrived are weakly fair; connecting, calling,
hanging up and the failure of `fork()` are not.

## What the violations show

- `learner_undo_twice`: `sync_tables()` forgets when a row it moves down first
  came there; a second undo erases it, and `make_consistent()` dereferences the
  end of a list.
- `tree_learner_save`: `serialize()` of a pending linear search empties the
  prefix of the search that goes on, which then splits the wrong leaf.
- `dispatcher_counterexample`: the reply to `ADD_COUNTEREXAMPLE` has no error
  code, so that a refused counterexample leaves the Java client waiting.
- `automata_inclusion`: `inclusion()` never looks at the pair of the initial
  states, so `lang_subset_of()`, `operator==` and `lang_disjoint_to()` are wrong
  about the empty word.
- `automata_epsilon`: `enfa2nfa()` adds moves to the matrix it reads and loses
  words, depending on the numbers of the states.

Disagreements met while modelling that no run is kept for; where a run or a
definition excludes the case, it is named:

- Knowledgebase: `deserialize()` restores the status of nodes but not the list of
  queries, so `is_answered()` contradicts the manual (`QueriesExact` fails under
  `PersistSpec`).
- Learners: an undo after the alphabet grew meets rows with uninitialized
  timestamps, and an undo in the middle of Rivest-Schapire's search leaves
  dangling iterators (`MCMaxUndos` excludes both). NL*'s
  `increase_alphabet_size()` sets the size inside its loop over the upper rows,
  and gives only the first of them new successors (with `<<"nl", 1>>` in
  `MaxUndos`, `SuccessorsPresent` is violated). Angluin's `deserialize()` takes
  the type word for `initialized`.
- Kearns-Vazirani: a test program expects more states after every
  counterexample; what increases is the number of leaves. `inner_node_count`
  stays 1.
- Offline: `counterexample_learning` casts any conjecture to `finite_automaton`
  and fails an assertion with Moore machines; with symmetry breaking off an
  assertion about initial states may fail; `basic_biermann` reads the label of a
  root that no constraint mentions (with `MCWrapped`, `MCUnbroken` or
  `MCRootless` as `Settings`, `NeverAborted` is violated). Five inferring classes
  write the type of another one when they are saved. DeLeTe2 expects samples
  that hold all prefixes (`Learned` excludes it).
- Dispatcher: setting the same normalizer twice loses the back reference;
  `UNSET_NORMALIZER` and `REMOVE_LOGGER` use the index -1; the commands that clear
  or undo leave iterators dangling; `KITERATOR_ASSIGN` copies the position of an
  iterator but not its reference, so that nobody invalidates the copy when its
  knowledgebase is deleted (with `"assign_iterator"`, `IteratorsInPlace` is violated);
  `destroy()` of an object in use throws on the warning with which the servant
  announces that it is gone, and keeps the handle: the next command that names the
  slot makes the servant follow a null pointer (with `"destroy_used"`,
  `ServantsSurvive` is violated after 18 steps). With the counterexample command
  above, these are the values of `Careless`. `sendNoOp()` and `dispatchHelloCarsten()` of jalf
  are not synchronized with other calls and are left out.
- Minimal nfas: `delsta()` looks at the same state twice (`s2 = stack[state1]`,
  `nfa2mnfa_help.c:103`), so with superfluous states only loops survive, and all
  states get them; `calculate_grids_r()` and `_c()` take a line twice when one
  with an essential grid follows the one without ones (`nfa2mnfa.c:600`), and
  then miss the last line: the result may be too large, or accept another
  language although it is flagged minimal. The run leaves these out
  (`MinimizesRight`, with the values `"superfluous"` and `"lines"` of
  `Careless`); with `"lines"` in it a nfa of four states suffices to violate
  `OperationsRight` and `MinimalMeansMinimal`. Even so a result need not be minimal when it is not flagged:
  it is the best that was known before the search.
- Automata: `minimize()`, `lang_complement()`, union and concatenation ignore
  empty moves (`Safe`); `set_initial_states()` and `set_final_states()` do not
  reset `minimal` (`SetStates`); `star`, `plus` and `shuffle` need nfas without
  room for empty moves, `maxL`, `pref` and `suff` minimal dfas (`UseLibrary`);
  `to_regex()` of the empty language is a text that cannot be read back;
  `deserialize()` may leave a half-built automaton; `is_sf()` and its siblings
  copy where a comment says that they minimize; `genrex2nfa()` uses a state count
  from before it minimized, and reads behind arrays. `inclusion()` makes one round
  more than there are pairs and reads `mark[max]`, one behind the array; buffer
  memory is zeroed, so the loop ends there, and the model has no such round.

## What is proved

`KnowledgebaseProofs` proves, for every set of words, answers, filter, clock
width and bounds that satisfy the named assumptions (letters are natural
numbers, the filter maps words to answers, the width is at least 2):

- `QueriesAreExact` about `Spec`;
- `TypeCorrect`, `QueriesRemainExact`, `QueriesAreSound`, `AnswerCountIsExact`,
  `KnowledgeIsInThePast` about `PersistSpec`.

The argument: `Good(k)` is the conjunction of `WellTyped`, `PrefixClosed`,
`ListSound`, `ListByTime`, `StampedInThePast` and `CountExact`. None of these is
inductive alone: `ignore` removes a word from the list only once, so it needs
the list to be free of duplicates; `answercount` counts down by the words
*status*, so it needs finiteness and typed nodes; the order of the list follows
from new queries being stamped now and old ones in the past. One lemma per
method says that the method takes good knowledgebases to good ones, in the order
in which methods call each other (`MarkRequiredIsGood`, `AnsweringIsGood`, ...).
`IInv` is `Good` of both objects with their clocks bounded; `PersistInductive`
is its induction, `ProcessInductive` adds `ListComplete`, which `Reload` breaks.
`CollectionLemmas` has what the library lacks about finite sets, the rank-based
filter `OnlyIn` and sequences.

`KnowledgeLogProofs` proves `LogIsImplemented` (`PersistSpec => ImplementsLog`,
the refinement of `KnowledgeLog` under the mapping `History`) and `UndoIsExact`
(`PersistSpec => UndoExact`). `History` maps a knowledgebase to
one entry per tick of its clock; a method does one of three things to it: it
extends it (`Grown`), cuts it short (`Cut`) or alters one word in all of it
(`Altered`). One lemma per method says which, and these compose along the calls
between methods. `Good` of the source state is a hypothesis throughout: that
answers are stamped before the clock makes the entries up to it final. `undo` cuts;
if its count is larger than the clock, the unsigned difference wraps, and it only
moves the clock on. Loading puts the clock one past the youngest stamp, so it cuts,
or gains a tick when an open query bears the current one. In `UndoIsExact` the
clock of `IInv`, bounded by the width, and the premise `count <= timestamp` exclude
the wrap.

`DispatcherProofs` proves `ReferencesStayMutual` and `IteratorsStayInPlace`
about `Spec` of `Dispatcher`: for every set of clients, any number of objects
(`MaxObjects` is not used) and any commands that they are set to send, if
clients do not do three of the things in `Careless`: set the normalizer that is
already set, assign an iterator of another knowledgebase, free nodes of a tree
that an iterator stands in. Deleting objects that are in use, removing what is
not set and the counterexample command do no harm to these two invariants:
`IteratorsInPlace` is about what happens when a knowledgebase is deleted under its
iterators, which TLC checks in `dispatcher_destroyed`. That the condition on
assigned iterators is needed TLC shows at once (`"assign_iterator"`).

The argument: `ReferencesMutual` follows references from both ends, and a
command changes both ends of a reference in different objects. `Good(S)` takes
it apart into the four directions, from an algorithm to what it uses and back,
from an iterator to its knowledgebase and back, and adds the types of the slots
and the position of iterators (`CursorsRight`), without which the destructor of
a knowledgebase could leave an iterator in its tree. One lemma per way of
changing references: `RelinkedIsGood` (set and remove), `DeletedIsGood` (what
each destructor tells the others), `StoredIsGood` (a slot that is reused is free:
`NextSlotIsFree`), `IteratedIsGood`, `MovedIsGood`; then one per class for all its
command codes, up to `OutcomesGood`. The invariant `IInv` adds that a request
that waits is one the client was careful to ask *of the objects as they are now*
(`Asked`): between the call and the command nobody else changes them.

`DispatcherCallProofs` proves `TypesAreRight`, `HandlesAlwaysMatch`,
`StreamStaysInStep` and `ServantsDoSurvive` about `Spec` of `Dispatcher`, for any
number of clients and objects and all methods of the stubs in any order, if
clients are careful in everything (`Careless = {}`, the setting of the run). The
assumptions are that `MaxObjects` is a natural number, that clients create objects
of the classes there are, and that they send commands their stubs have a method for.

The argument: the three properties only hold together. A reply is in step only if
the client asked for something that fits the objects it names; it does so only if
its handles match; they match only if the replies that announced them were in
step. `CallInv` says in which of seven phases each client is (`NotYet`,
`Greeting`, `Idle`, `Asking`, `Answered`, `Leaving`, `Gone`) and what the socket, the
servant and the handles look like in each: idle, the handles are exactly the
objects (`HandlesOf`) and nothing is under way; asking, the request fits the
objects as they are; answered, reading the reply leaves nothing over and makes the
handles fit again. `OutcomesRight` is the lemma that a request that fits has
only outcomes with such a reply, one lemma per class of objects below it;
`Good` from `DispatcherProofs` is part of every phase, since a command that follows a
reference must not fall on a freed slot. The proof attempt corrected the model
in two places: whether an answer follows the flag that code 21 of an iterator replies
with depends on the flag (`"optional"`), and what a destructor visits goes by the
class of the object (`Visited`).

`LearnerProofs` proves about `Spec` of `Learner`, for L*, its column variant,
Rivest and Schapire's algorithm and NL* over any alphabet, with any filter,
languages, counterexamples, uninitialized timestamps and number of undos and
reloads:

- `LearnerAlwaysFine`, the inductive invariant, and from it `TableIsKnown`
  (`CellsKnown`), `TypesAreRight` (`TypeOK`) and `ReadyIsReady` (`ReadyMeansReady`);
- `SuccessorsStayPresent` (`SuccessorsPresent`), if nothing is undone
  (`NothingUndone`) and NL* starts with the letters of the languages
  (`AlphabetsGiven`). Both hypotheses are about defects of the code: with two undos
  a successor is lost (`learner_undo_twice`), and NL* loses them when the alphabet
  grows. That one undo of the simple table and two of the column variant do no harm
  is model-checked.

The assumptions: the languages are machines that refer to their own states and
give answers, `Reject` is an answer, the bounds are natural numbers, and a learner
starts with an alphabet of known letters (NL* with the answers yes and no only,
which is what the class can read). After an undo that lost a successor the C++ code
dereferences the end of a list; of what then happens the theorems say nothing, they
speak of the value the model goes on with.

The argument: the table is a cache of the knowledgebase. `RowFine` says of a row
that all its cells can be resolved there, to the same answers; `TableFine` says so
of both tables and adds that columns and upper rows are distinct and that a table
that was not initialized is empty; `KnowledgeFine` says that answers agree with the
filter and that what the filter decides is not asked: otherwise an answer could
replace what the cell was filled with. The relation that everything rests on is
`Knows`: what could be resolved before can be resolved after, to the same answer.
Asking and answering keep it (`ResolveOrAddIsFine`, `SetAnswerIsFine`), so a table
that nobody touched stays fine (`TableLearns`); an undo does not keep it, and there
`sync_to_knowledgebase()` must, and does, read every cell again (`SyncIsFine`). One
lemma per method follows, for each class. `Grown` is what closing, filling and new
columns do to the rows, `Extended` what new letters do; they carry the successors.
NL* needs more: that `nl_close()` always finds a prime row to move up
(`NLCloseIsFine`) rests on the fact that the primes compose every row
(`PrimesSuffice`), by induction on the number of `yes` in a row.
`LoopRules` has the rules for loops: a fold keeps what its body keeps. Since a
theorem cannot take an operator as its parameter here, the body and the invariant
are the module's constants, and each loop instantiates the module with its own
(`AskAll`, `AddColumns`, `End`, ...).

`TreeLearnerProofs` proves about `Spec` of `TreeLearner`, for both searches, any
languages, filter, bound on counterexamples, and whatever the application saves,
loads, switches or forgets and when:

- `TreeInvariant`, the inductive invariant, and from it `TreeTypes` (`TypeOK`),
  `LeavesStayInPlace` (`LeavesInPlace`), `NoTransitionMissed` (`TransitionsRight`),
  `SearchesBracket` (`SearchBracketsBadPrefix`) and `CounterexamplesSplit`
  (`LeavesGrow`): the learner never has more leaves than the target has states, and
  each counterexample brings one.

The hypothesis `"linear" \notin SaveDuring`, that nobody saves while a linear search
is pending, is about a defect of the code: `serialize()` throws the prefix away that
the original goes on with (`tree_learner_save`). The assumptions: the answers are two;
the languages are complete deterministic machines (`DeterministicAssumption`: the
bound counts their states, and one state after each word is what the minimal dfas
of the test program have); and a filter answers as the user would
(`FilterTellsTruth`). TLC evaluates both on the instances of the runs.

The argument: all that the learner knows is in its tree, and it is right because of
the answers that once built it, not of those the knowledgebase still has. So nothing
in the invariant speaks of the knowledgebase but `Truthful`: what it does hold is
what the target says; that is all that is left after `Forget`. The tree itself is
reasoned about without recursion: `over` maps each node to the set of nodes above it
(`TreeFine`), and a word is on the path to a node if the target's answers lead from
the root to it (`OnPath`). `Sound` adds that each leaf's own word is on the path to
it and that the ids number the leaves (`IdsFine`). `Waits` says what the tasks rely
on while they wait, of which there are two kinds of lists. Either all are
transitions (`Computing`): each sift has come down its word's path, and every
transition of the tree leads where its word is on the path to, or has a task. Or
there is one task, a search or a split, and no transition is missing (`Searching`):
a search has a bad prefix between its ends and has sifted prefixes down their paths,
a split names a leaf, a word on the path to it and a suffix after which the target
tells that word from the leaf's (`SplitFine`). A split moves a leaf down and makes a
task of every transition to it, for which `incoming_transitions` must be complete;
`SplitAtFine` says that what is left is sound again and one leaf larger. A search
finds a bad prefix since the counterexample ends in the wrong leaf and the empty
word starts in the right one; that the conjecture and the transitions of the tree
agree on every word (`Judges`) is carried from `derive_conjecture()`, whose breadth-
first order reaches every leaf that a transition leads to (`DiscoverFine`,
`MachineFacts`, `MachineJudges`), to the counterexample (`CounterexampleFine`).
`refuted` enters `Waits`: as long as the task of the counterexample waits, the tree
has as many leaves as were refuted, and more when it is done. `LeavesAreStates` is
the bound: two leaves have an ancestor at which the target tells their words apart
(`ToldApart`), so the words lead to different states, and an injection into the
states counts them.

Only model-checked: all liveness (`CallsReturn`, `ServantsReaped`, the two `Learns` and
`Learned`: fairness and ENABLED are out of the prover's reach);
`ConjectureExplainsTable` and `ConjecturesGrow` of the table learners, which compare
runs of a machine on words of any length; and everything about the offline
learners and the automata. Those modules reach
`RECURSIVE` operators, which the prover does not take, or follow recursion over
trees, tables and matrices, whose results for all inputs need induction over data.

## Not modelled

- libAMoRE's files and language objects (`fileIO.c`), which are formats and caches
  of what the modules compute.
- mVCA: unfinished in the source; its central methods are FIXMEs.
- Normalizers (normal forms of message sequence words) and the composition of
  filters: pure functions on words, and no learner is modelled with a normalizer
  set.
- Serialization formats, statistics, logger, alphabet, sets: formatting, counters
  and containers. What saving and loading does to an object's state is modelled
  with the object.
- liblangen and the command line tool: random numbers, input and output.
- JNI: call forwarding between Java and C++. The dispatcher's client side, which
  has a protocol of its own, is modelled.
