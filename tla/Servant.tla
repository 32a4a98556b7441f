------------------------------ MODULE Servant ------------------------------
(***************************************************************************)
(* One command of a client, executed by its servant: what happens to the   *)
(* objects and what is sent back.  The operators give sets of outcomes     *)
(*     [objects, reply, crashed]                                           *)
(* with more than one element where the result depends on the contents of  *)
(* the wrapped libalf objects.  Command codes are those of protocol.h; the *)
(* same code means different things to objects of different types.         *)
(***************************************************************************)
EXTENDS ClientObjects

\* The process follows a null pointer, or one read from before the slots, and is killed.
Crash(objects) == {[objects |-> objects, reply |-> <<>>, crashed |-> TRUE]}

Sent(objects, replies) ==
    {[objects |-> objects, reply |-> r, crashed |-> FALSE] : r \in replies}

Errno(objects, code) == Sent(objects, {<<code>>})

Bool == {0, 1}
Data == 7   \* stands for a number, a string or a blob

Success(objects) == Errno(objects, ERR_SUCCESS)
SuccessWithBool(objects) == Sent(objects, {<<ERR_SUCCESS, b>> : b \in Bool})
SuccessWithData(objects) == Sent(objects, {<<ERR_SUCCESS, Data>>})

\* A command that names another object checks the range of the index, but not whether
\* the slot was freed; then it checks the type.
WithObject(objects, args, type, outcomes) ==
    IF Len(args) # 1 THEN Errno(objects, ERR_BAD_PARAMETER_COUNT)
    ELSE IF args[1] \notin DOMAIN objects THEN Errno(objects, ERR_NO_OBJECT)
    ELSE IF objects[args[1]] = NULL THEN Crash(objects)
    ELSE IF objects[args[1]].type # type THEN Errno(objects, ERR_BAD_OBJECT)
    ELSE outcomes

WithoutParameters(objects, args, outcomes) ==
    IF args # <<>> THEN Errno(objects, ERR_BAD_PARAMETER_COUNT) ELSE outcomes

-----------------------------------------------------------------------------
(* handle_command() of the five classes.  Codes are grouped by effect.       *)

logger_command(objects, code, args) ==
    CASE code = 0 -> WithoutParameters(objects, args, SuccessWithData(objects))
      [] code = 1 -> Errno(objects,
                           IF Len(args) # 1 THEN ERR_BAD_PARAMETER_COUNT
                           ELSE IF args[1] \notin 1..4 THEN ERR_BAD_PARAMETERS
                           ELSE ERR_SUCCESS)
      [] code \in {2, 3} -> WithoutParameters(objects, args, Success(objects))
      [] OTHER -> Errno(objects, ERR_BAD_COMMAND)

\* A new iterator, at the node the knowledgebase k gives or at none.
NewIterator(objects, k, cursors) ==
    UNION {LET made == store_object(objects,
                           [NewObject(OBJ_KNOWLEDGEBASE_ITERATOR)
                               EXCEPT !.knowledgebase = k, !.cursor = c])
           IN  Sent([made EXCEPT ![k].referring_iterators = @ \cup {NextSlot(objects)}],
                    {<<ERR_SUCCESS, NextSlot(objects)>>}) : c \in cursors}

\* Nodes of the tree of k are freed: all, or those that a cleanup finds unused.
WithFreedNodes(objects, k, everything) ==
    LET inside == {i \in DOMAIN objects : objects[i] # NULL /\ objects[i].cursor = k}
        freed(gone) == [i \in DOMAIN objects |->
                          IF i \in gone THEN [objects[i] EXCEPT !.cursor = Freed]
                          ELSE objects[i]]
    IN  {freed(gone) : gone \in IF everything THEN {inside} ELSE SUBSET inside}

\* Commands that only look at the knowledgebase.
knowledgebase_inspected(objects, code, args) ==
    CASE code \in {10, 11} -> WithoutParameters(objects, args, SuccessWithBool(objects))
      [] OTHER -> WithoutParameters(objects, args, SuccessWithData(objects))

\* Commands about words.  Deserializing and undoing free nodes; an answer list that does
\* not fit clears the knowledgebase; a query tree becomes an object of its own; a merged
\* tree is given by its slot.
knowledgebase_changed(objects, k, code, args) ==
    CASE code = 1 ->
            UNION {Sent(o, {<<ERR_SUCCESS>>, <<ERR_BAD_PARAMETERS>>}) :
                      o \in WithFreedNodes(objects, k, TRUE)}
      [] code = 2 -> Errno(objects, ERR_NOT_IMPLEMENTED)
      [] code \in {20, 21} ->
            Sent(objects, {<<ERR_SUCCESS, 0>>} \cup {<<ERR_SUCCESS, 1, b>> : b \in Bool})
      [] code = 22 -> SuccessWithBool(objects)
      [] code = 25 ->
            WithoutParameters(objects, args,
                Sent(store_object(objects, NewObject(OBJ_KNOWLEDGEBASE)),
                     {<<ERR_SUCCESS, NextSlot(objects)>>}))
      [] code = 26 -> WithObject(objects, args, OBJ_KNOWLEDGEBASE, SuccessWithBool(objects))
      [] code = 27 ->
            Success(objects)
              \cup UNION {Errno(o, ERR_BAD_PARAMETERS) :
                             o \in WithFreedNodes(objects, k, TRUE)}

\* Iterators, and commands that free nodes.
knowledgebase_iterated(objects, k, code, args) ==
    CASE code = 30 -> WithoutParameters(objects, args, NewIterator(objects, k, {k}))
      [] code = 32 -> WithoutParameters(objects, args, NewIterator(objects, k, {k, None}))
      [] code \in {31, 33} -> WithoutParameters(objects, args, NewIterator(objects, k, {None}))
      [] code \in {40, 41} ->
            WithoutParameters(objects, args,
                UNION {Success(o) : o \in WithFreedNodes(objects, k, code = 40)})
      [] code = 50 ->
            IF Len(args) # 1 THEN Errno(objects, ERR_BAD_PARAMETER_COUNT)
            ELSE IF args[1] < 1 THEN Errno(objects, ERR_BAD_PARAMETERS)
            ELSE UNION {SuccessWithBool(o) : o \in WithFreedNodes(objects, k, FALSE)}

knowledgebase_command(objects, k, code, args) ==
    IF code \in {0, 5, 6, 10, 11, 28, 29} \cup 12..17
    THEN knowledgebase_inspected(objects, code, args)
    ELSE IF code \in {1, 2, 25, 26, 27} \cup 20..22
    THEN knowledgebase_changed(objects, k, code, args)
    ELSE IF code \in {40, 41, 50} \cup 30..33
    THEN knowledgebase_iterated(objects, k, code, args)
    ELSE Errno(objects, ERR_BAD_COMMAND)

\* Commands that look at the node refuse an invalid iterator; the node of a valid one
\* may be gone, and then anything may come back, if the process survives.
WithNode(objects, t, outcomes) ==
    IF objects[t].cursor = None THEN Errno(objects, ERR_BAD_OBJECT_STATE)
    ELSE outcomes \cup (IF objects[t].cursor = Freed THEN Crash(objects) ELSE {})

iterator_command(objects, t, code, args) ==
    CASE code = 0 -> WithoutParameters(objects, args,
                        Sent(objects, {<<ERR_SUCCESS,
                                         IF objects[t].cursor = None THEN 0 ELSE 1>>}))
      [] code = 1 -> WithObject(objects, args, OBJ_KNOWLEDGEBASE_ITERATOR,
                        Success([objects EXCEPT ![t].cursor = objects[args[1]].cursor]))
      [] code = 2 -> WithObject(objects, args, OBJ_KNOWLEDGEBASE_ITERATOR,
                                SuccessWithBool(objects))
      [] code = 10 -> WithNode(objects, t,
                        WithoutParameters(objects, args, SuccessWithBool(objects)))
      [] code = 11 -> Errno(objects, ERR_NOT_IMPLEMENTED)
      [] code = 20 -> WithNode(objects, t,
                        WithoutParameters(objects, args, SuccessWithData(objects)))
      [] code = 21 -> WithNode(objects, t,
                        WithoutParameters(objects, args,
                           Sent(objects, {<<ERR_SUCCESS, 0>>}
                                  \cup {<<ERR_SUCCESS, 1, b>> : b \in Bool})))
      [] code = 30 -> WithNode(objects, t,
                        WithoutParameters(objects, args,
                           Success(objects) \cup Success([objects EXCEPT ![t].cursor = None])))
      [] code = 31 -> WithNode(objects, t,
                        IF Len(args) # 1 THEN Errno(objects, ERR_BAD_PARAMETER_COUNT)
                        ELSE IF args[1] \notin 0..2 THEN Errno(objects, ERR_BAD_PARAMETERS)
                        ELSE SuccessWithBool(objects))
      [] OTHER -> Errno(objects, ERR_BAD_COMMAND)

\* remove: the index -1 of an algorithm that refers to nothing is used all the same.
Removed(objects, a, member, args) ==
    WithoutParameters(objects, args,
        IF objects[a][member] = None THEN Crash(objects)
        ELSE IF objects[objects[a][member]] = NULL THEN Crash(objects)
        ELSE Success(derefer(Dereferred(objects, objects[a][member], a), a, member)))

\* Associating follows the old reference.  A normalizer is told before the old one is
\* told that it is no longer in use; loggers and knowledgebases are told after.
Associated(objects, a, type, args) ==
    WithObject(objects, args, type,
        LET i == args[1]
            old == objects[a][Member(type)]
        IN  IF old # None /\ objects[old] = NULL THEN Crash(objects)
            ELSE Success(IF type = OBJ_NORMALIZER
                         THEN refer(Referred(objects, i, a), a, Member(type), i)
                         ELSE Referred(refer(objects, a, Member(type), i), i, a)))

\* Logger, knowledgebase and normalizer of an algorithm.
algorithm_linked(objects, a, code, args) ==
    CASE code = 10 -> Associated(objects, a, OBJ_LOGGER, args)
      [] code = 11 -> Removed(objects, a, "logger", args)
      [] code = 12 -> Associated(objects, a, OBJ_KNOWLEDGEBASE, args)
      [] code = 13 -> WithoutParameters(objects, args,
                         Sent(objects, {<<ERR_SUCCESS, objects[a].knowledgebase>>}))
      [] code = 14 -> Associated(objects, a, OBJ_NORMALIZER, args)
      [] code = 15 -> WithoutParameters(objects, args,
                         Sent(objects, {<<ERR_SUCCESS, objects[a].normalizer>>}))
      [] code = 16 -> Removed(objects, a, "normalizer", args)

\* Saving, timing, alphabet and the work of the algorithm.  The reply to a counterexample
\* is the result without an errno before it.
algorithm_worked(objects, a, code, args) ==
    CASE code \in {0, 2, 4, 20, 21, 30} ->
            WithoutParameters(objects, args, SuccessWithData(objects))
      [] code = 1 -> Sent(objects, {<<ERR_SUCCESS>>, <<ERR_BAD_PARAMETERS>>})
      [] code = 3 -> IF args = <<>> THEN Errno(objects, ERR_BAD_PARAMETER_COUNT)
                     ELSE SuccessWithData(objects) \cup Errno(objects, ERR_BAD_PARAMETERS)
      [] code \in {22, 23, 24} -> WithoutParameters(objects, args, Success(objects))
      [] code = 31 -> Errno(objects,
                         IF Len(args) # 1 THEN ERR_BAD_PARAMETER_COUNT
                         ELSE IF args[1] < 1 THEN ERR_BAD_PARAMETERS ELSE ERR_SUCCESS)
      [] code \in {40, 50} -> WithoutParameters(objects, args, SuccessWithBool(objects))
      [] code = 41 -> WithoutParameters(objects, args,
                         Sent(objects, {<<ERR_SUCCESS, 0>>, <<ERR_SUCCESS, 1, Data, Data>>}))
      [] code = 42 -> Sent(objects, IF objects[a].knowledgebase = None THEN {<<0>>}
                                    ELSE {<<b>> : b \in Bool})
      [] code = 51 -> WithoutParameters(objects, args,
                         Sent(objects, {<<ERR_SUCCESS>>, <<ERR_COMMAND_FAILED>>}))
      [] OTHER -> Errno(objects, ERR_BAD_COMMAND)

algorithm_command(objects, a, code, args) ==
    IF code \in 10..16 THEN algorithm_linked(objects, a, code, args)
    ELSE algorithm_worked(objects, a, code, args)

\* All commands that read parameters read them from a string that is always empty.
normalizer_command(objects, code, args) ==
    CASE code \in {0, 10} -> WithoutParameters(objects, args, SuccessWithData(objects))
      [] code \in {1, 2, 20, 21} -> Errno(objects, ERR_BAD_PARAMETERS)
      [] OTHER -> Errno(objects, ERR_BAD_COMMAND)

handle_command(objects, i, code, args) ==
    LET type == objects[i].type
    IN  CASE type = OBJ_LOGGER -> logger_command(objects, code, args)
          [] type = OBJ_KNOWLEDGEBASE -> knowledgebase_command(objects, i, code, args)
          [] type = OBJ_KNOWLEDGEBASE_ITERATOR -> iterator_command(objects, i, code, args)
          [] type = OBJ_LEARNING_ALGORITHM -> algorithm_command(objects, i, code, args)
          [] type = OBJ_NORMALIZER -> normalizer_command(objects, code, args)

-----------------------------------------------------------------------------
(* The commands of the servant.                                              *)

ALG_LAST_INVALID == 21
NORMALIZER_LAST_INVALID == 2

\* Kinds of algorithms and of normalizers are numbered from 1 on; an alphabet is not empty.
reply_create_object(objects, type, data) ==
    LET parameters == CASE type = OBJ_LEARNING_ALGORITHM -> 2
                        [] type = OBJ_NORMALIZER -> 1
                        [] OTHER -> 0
    IN  IF type \notin ObjectTypes THEN Errno(objects, ERR_BAD_PARAMETERS)
        ELSE IF Len(data) # parameters THEN Errno(objects, ERR_BAD_PARAMETER_COUNT)
        ELSE IF \/ \E p \in 1..parameters : data[p] <= 0
                \/ type = OBJ_LEARNING_ALGORITHM /\ data[1] >= ALG_LAST_INVALID
                \/ type = OBJ_NORMALIZER /\ data[1] >= NORMALIZER_LAST_INVALID
             THEN Errno(objects, ERR_BAD_PARAMETERS)
        ELSE Sent(store_object(objects, NewObject(type)),
                  {<<ERR_SUCCESS, NextSlot(objects)>>})

\* Mutants: references that the object itself holds count as dependencies of others; the
\* type is sent without an errno; the servant acknowledges a command and so does the object.
reply_delete_object_counts_own(objects, i) ==
    IF ~Exists(objects, i) THEN Errno(objects, ERR_NO_OBJECT)
    ELSE Errno(Deleted(objects, i),
               IF get_reference_count(objects[i]) # 0
               THEN ERR_UNRESOLVED_REFERENCES_REMOVED ELSE ERR_SUCCESS)
reply_get_objecttype_alone(objects, i) ==
    IF ~Exists(objects, i) THEN Errno(objects, ERR_NO_OBJECT)
    ELSE Sent(objects, {<<objects[i].type>>})

reply_delete_object(objects, i) ==
    IF ~Exists(objects, i) THEN Errno(objects, ERR_NO_OBJECT)
    ELSE IF \E j \in Visited(objects[i]) : objects[j] = NULL THEN Crash(objects)
    ELSE Errno(Deleted(objects, i),
               IF get_depending_reference_count(objects[i]) # 0
               THEN ERR_UNRESOLVED_REFERENCES_REMOVED ELSE ERR_SUCCESS)

reply_get_objecttype(objects, i) ==
    IF ~Exists(objects, i) THEN Errno(objects, ERR_NO_OBJECT)
    ELSE Sent(objects, {<<ERR_SUCCESS, objects[i].type>>})

reply_count_dispatcher_references(objects, i) ==
    IF ~Exists(objects, i) THEN Errno(objects, ERR_NO_OBJECT)
    ELSE Sent(objects, {<<ERR_SUCCESS, get_reference_count(objects[i])>>})

reply_object_command_acknowledged(objects, i, code, args) ==
    IF ~Exists(objects, i) THEN Errno(objects, ERR_NO_OBJECT)
    ELSE {[o EXCEPT !.reply = <<ERR_SUCCESS>> \o @] : o \in handle_command(objects, i, code, args)}

reply_object_command(objects, i, code, args) ==
    IF ~Exists(objects, i) THEN Errno(objects, ERR_NO_OBJECT)
    ELSE handle_command(objects, i, code, args)

\* What the servant does about a request of each kind.
Outcomes(objects, request) ==
    CASE request.cmd = "create" -> reply_create_object(objects, request.type, request.args)
      [] request.cmd = "delete" -> reply_delete_object(objects, request.id)
      [] request.cmd = "type" -> reply_get_objecttype(objects, request.id)
      [] request.cmd = "count" -> reply_count_dispatcher_references(objects, request.id)
      [] request.cmd = "object" ->
            reply_object_command(objects, request.id, request.code, request.args)
      [] request.cmd = "capa" -> SuccessWithData(objects)
      [] request.cmd = "hello" -> SuccessWithData(objects)
      [] request.cmd = "disconnect" ->
            Errno(objects, IF \E i \in DOMAIN objects : objects[i] # NULL
                           THEN ERR_REMAINING_OBJECTS ELSE ERR_SUCCESS)

=============================================================================
