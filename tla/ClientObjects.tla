--------------------------- MODULE ClientObjects ---------------------------
(***************************************************************************)
(* The objects that one client keeps in the dispatcher: servant::objects,  *)
(* a vector of slots, and the classes co_logger, co_knowledgebase,         *)
(* co_knowledgebase_iterator, co_learning_algorithm and co_normalizer.     *)
(* Objects name each other by slot, in both directions: an algorithm knows *)
(* its knowledgebase, and the knowledgebase knows who refers to it.        *)
(*                                                                         *)
(* What the wrapped libalf objects compute is abstracted to the integers a *)
(* reply consists of; a string or a blob counts as one integer.            *)
(***************************************************************************)
EXTENDS Integers, FiniteSets, Sequences

ERR_SUCCESS == 0
ERR_NO_OBJECT == 1
ERR_BAD_OBJECT == 2
ERR_BAD_OBJECT_STATE == 3
ERR_BAD_COMMAND == 10
ERR_NOT_IMPLEMENTED == 11
ERR_BAD_PARAMETER_COUNT == 15
ERR_BAD_PARAMETERS == 16
ERR_COMMAND_FAILED == 20
ERR_UNRESOLVED_REFERENCES_REMOVED == 40
ERR_REMAINING_OBJECTS == 41

OBJ_LOGGER == 0
OBJ_KNOWLEDGEBASE == 10
OBJ_KNOWLEDGEBASE_ITERATOR == 11
OBJ_LEARNING_ALGORITHM == 20
OBJ_NORMALIZER == 30

ObjectTypes == {OBJ_LOGGER, OBJ_KNOWLEDGEBASE, OBJ_KNOWLEDGEBASE_ITERATOR,
                OBJ_LEARNING_ALGORITHM, OBJ_NORMALIZER}

None == -1      \* no reference, an invalid iterator
Freed == -2     \* an iterator whose node is gone

NULL == [type |-> -1]   \* a free slot

\* A new object of a type.  The data members that a class does not have stay as they
\* are here.
NewObject(type) ==
    [type |-> type,
     referring_algorithms |-> {},   \* loggers, knowledgebases, normalizers
     referring_iterators |-> {},    \* knowledgebases
     knowledgebase |-> None,        \* algorithms, iterators
     logger |-> None,               \* algorithms
     normalizer |-> None,           \* algorithms
     cursor |-> None]               \* iterators: the slot whose tree current is in

Exists(objects, i) == i \in DOMAIN objects /\ objects[i] # NULL

\* Mutant: the new slot is counted twice.
NextSlot_past_end(objects) == Cardinality(DOMAIN objects) + 1

\* The slot that the next object gets: the first free one, or a new one.
NextSlot(objects) ==
    LET free == {i \in DOMAIN objects : objects[i] = NULL}
    IN  IF free = {} THEN Cardinality(DOMAIN objects)
        ELSE CHOOSE i \in free : \A j \in free : i <= j

store_object(objects, o) ==
    [i \in DOMAIN objects \cup {NextSlot(objects)} |->
        IF i = NextSlot(objects) THEN o ELSE objects[i]]

get_depending_reference_count(o) ==
    Cardinality(o.referring_algorithms) + Cardinality(o.referring_iterators)

get_reference_count(o) ==
    IF o.type \in {OBJ_LEARNING_ALGORITHM, OBJ_KNOWLEDGEBASE_ITERATOR}
    THEN Cardinality({f \in {"knowledgebase", "logger", "normalizer"} : o[f] # None})
    ELSE get_depending_reference_count(o)

-----------------------------------------------------------------------------
(* References between objects.  A destructor and most commands follow them   *)
(* without looking whether the slot is still in use.                         *)

\* The member of an algorithm that holds a reference to an object of a type.
Member(type) == CASE type = OBJ_LOGGER -> "logger"
                  [] type = OBJ_KNOWLEDGEBASE -> "knowledgebase"
                  [] type = OBJ_NORMALIZER -> "normalizer"

\* Mutants: an object does not note who refers to it; an algorithm does not tell the
\* object that it referred to before.
Referred_unnoted(objects, i, a) == objects
refer_untold(objects, a, member, i) == [objects EXCEPT ![a][member] = i]

\* ref_learning_algorithm(a) and deref_learning_algorithm(a) of the object in slot i.
Referred(objects, i, a) == [objects EXCEPT ![i].referring_algorithms = @ \cup {a}]
Dereferred(objects, i, a) ==
    IF i = None THEN objects ELSE [objects EXCEPT ![i].referring_algorithms = @ \ {a}]

\* ref_logger(i), ref_knowledgebase(i), ref_normalizer(i) of algorithm a, and deref.
refer(objects, a, member, i) ==
    [Dereferred(objects, objects[a][member], a) EXCEPT ![a][member] = i]
derefer(objects, a, member) == [objects EXCEPT ![a][member] = None]

\* Mutant: an iterator is told that its knowledgebase is gone and stays where it was.
Released_in_place(objects, i, j) ==
    LET dead == objects[i]
        o == objects[j]
    IN  IF j \in dead.referring_algorithms /\ o.type = OBJ_LEARNING_ALGORITHM
        THEN [o EXCEPT ![Member(dead.type)] = None]
        ELSE IF j \in dead.referring_iterators /\ o.type = OBJ_KNOWLEDGEBASE_ITERATOR
        THEN [o EXCEPT !.knowledgebase = None, !.cursor = Freed]
        ELSE IF o # NULL /\ dead.type = OBJ_LEARNING_ALGORITHM
                /\ j \in {dead.knowledgebase, dead.logger, dead.normalizer}
        THEN [o EXCEPT !.referring_algorithms = @ \ {i}]
        ELSE IF o # NULL /\ dead.type = OBJ_KNOWLEDGEBASE_ITERATOR
                /\ j = dead.knowledgebase
        THEN [o EXCEPT !.referring_iterators = @ \ {i}]
        ELSE o

\* What the destructor of the object in slot i does to the object in slot j, and to
\* iterators into a knowledgebase that is deleted without them being told.
Released(objects, i, j) ==
    LET dead == objects[i]
        o == objects[j]
    IN  IF j \in dead.referring_algorithms /\ o.type = OBJ_LEARNING_ALGORITHM
        THEN [o EXCEPT ![Member(dead.type)] = None]
        ELSE IF j \in dead.referring_iterators /\ o.type = OBJ_KNOWLEDGEBASE_ITERATOR
        THEN [o EXCEPT !.knowledgebase = None, !.cursor = None]
        ELSE IF o # NULL /\ o.cursor = i /\ dead.type = OBJ_KNOWLEDGEBASE
        THEN [o EXCEPT !.cursor = Freed]
        ELSE IF o # NULL /\ dead.type = OBJ_LEARNING_ALGORITHM
                /\ j \in {dead.knowledgebase, dead.logger, dead.normalizer}
        THEN [o EXCEPT !.referring_algorithms = @ \ {i}]
        ELSE IF o # NULL /\ dead.type = OBJ_KNOWLEDGEBASE_ITERATOR
                /\ j = dead.knowledgebase
        THEN [o EXCEPT !.referring_iterators = @ \ {i}]
        ELSE o

Deleted(objects, i) ==
    [j \in DOMAIN objects |-> IF j = i THEN NULL ELSE Released(objects, i, j)]

\* The slots that the destructor of an object looks into: algorithms and iterators tell
\* the objects that they refer to, the others tell those that refer to them.
Visited(o) ==
    IF o.type = OBJ_LEARNING_ALGORITHM THEN {o.knowledgebase, o.logger, o.normalizer} \ {None}
    ELSE IF o.type = OBJ_KNOWLEDGEBASE_ITERATOR THEN {o.knowledgebase} \ {None}
    ELSE o.referring_algorithms \cup o.referring_iterators

=============================================================================
