------------------------ MODULE DispatcherCallProofs ------------------------
(***************************************************************************)
(* Theorems about the calls of careful clients, for any number of clients  *)
(* and objects and all methods of the stubs in any order: what a stub      *)
(* reads is exactly what the servant sent, the handles of a client are     *)
(* exactly the objects that are kept for it, and no servant crashes.       *)
(*                                                                         *)
(* A call is taken apart into what the client asks for, which fits the     *)
(* objects its handles stand for, and what it gets: an answer of the right *)
(* length, after which the handles fit the objects again.  There is one    *)
(* lemma for the commands of each class, and an induction over the steps   *)
(* of the system in which every client is in one of seven phases.          *)
(***************************************************************************)
EXTENDS DispatcherProofs

USE DEF None, Freed, NULL, OBJ_LOGGER, OBJ_KNOWLEDGEBASE, OBJ_KNOWLEDGEBASE_ITERATOR,
        OBJ_LEARNING_ALGORITHM, OBJ_NORMALIZER, ObjectTypes,
        ERR_SUCCESS, ERR_NO_OBJECT, ERR_BAD_OBJECT, ERR_BAD_OBJECT_STATE, ERR_BAD_COMMAND,
        ERR_NOT_IMPLEMENTED, ERR_BAD_PARAMETER_COUNT, ERR_BAD_PARAMETERS, ERR_COMMAND_FAILED,
        ERR_UNRESOLVED_REFERENCES_REMOVED, ERR_REMAINING_OBJECTS, Data, Bool

-----------------------------------------------------------------------------
(* Handles and objects.                                                      *)

\* The handles that a client has if it has lost none and kept none too long.
HandlesOf(S) == {[id |-> i, type |-> S[i].type] : i \in {j \in DOMAIN S : S[j] # NULL}}

\* The slots of T hold objects of the same types as those of S.
SameTypes(S, T) ==
    /\ DOMAIN T = DOMAIN S
    /\ \A j \in DOMAIN S : "type" \in DOMAIN T[j] /\ T[j].type = S[j].type

\* The objects do not take more slots than a client may come to use.
Fitting(S) == DOMAIN S \subseteq 0..(MaxObjects - 1)

(***************************************************************************)
(* A handle says which slot and what is in it.                             *)
(***************************************************************************)
LEMMA HandleFacts ==
    ASSUME NEW S, WellFormed(S)
    PROVE  /\ \A s \in HandlesOf(S) :
                /\ s.id \in DOMAIN S /\ S[s.id] # NULL /\ S[s.id].type = s.type
                /\ s = [id |-> s.id, type |-> s.type]
                /\ s.id \in Nat /\ s.type \in ObjectTypes
           /\ \A i \in DOMAIN S : S[i] # NULL => [id |-> i, type |-> S[i].type] \in HandlesOf(S)
<1>1. ASSUME NEW s \in HandlesOf(S)
      PROVE  /\ s.id \in DOMAIN S /\ S[s.id] # NULL /\ S[s.id].type = s.type
             /\ s = [id |-> s.id, type |-> s.type]
  BY DEF HandlesOf
<1>2. ASSUME NEW s \in HandlesOf(S) PROVE s.id \in Nat /\ s.type \in ObjectTypes
  BY <1>1, SlotFacts, ObjectFields
<1>3. \A i \in DOMAIN S : S[i] # NULL => [id |-> i, type |-> S[i].type] \in HandlesOf(S)
  BY DEF HandlesOf
<1> QED BY <1>1, <1>2, <1>3

(***************************************************************************)
(* A free slot is told from an object by its type.                         *)
(***************************************************************************)
LEMMA FreeSlots ==
    ASSUME NEW S, WellFormed(S)
    PROVE  \A j \in DOMAIN S : "type" \in DOMAIN S[j] /\ (S[j] = NULL <=> S[j].type = -1)
<1> SUFFICES ASSUME NEW j \in DOMAIN S
             PROVE  "type" \in DOMAIN S[j] /\ (S[j] = NULL <=> S[j].type = -1)
  OBVIOUS
<1>1. CASE S[j] = NULL
  <2>1. "type" \in DOMAIN NULL /\ NULL.type = -1
    OBVIOUS
  <2> QED BY <1>1, <2>1, Zenon
<1>2. CASE S[j] # NULL
  <2>1. S[j] \in Objects
    BY <1>2, SlotFacts
  <2>2. S[j].type \in ObjectTypes
    BY <2>1, ObjectFields
  <2>3. "type" \in DOMAIN S[j]
    BY <2>1 DEF Objects
  <2> QED BY <1>2, <2>2, <2>3
<1> QED BY <1>1, <1>2

(***************************************************************************)
(* Objects of the same types have the same handles.                        *)
(***************************************************************************)
LEMMA SameHandles ==
    ASSUME NEW S, WellFormed(S), NEW T, WellFormed(T), SameTypes(S, T)
    PROVE  HandlesOf(T) = HandlesOf(S)
<1>1. \A j \in DOMAIN S : T[j] # NULL <=> S[j] # NULL
  BY FreeSlots DEF SameTypes
<1>2. {j \in DOMAIN T : T[j] # NULL} = {j \in DOMAIN S : S[j] # NULL}
  BY <1>1 DEF SameTypes
<1> QED BY <1>2 DEF HandlesOf, SameTypes

(***************************************************************************)
(* An assignment to a data member other than the type.                     *)
(***************************************************************************)
LEMMA MemberKeepsTypes ==
    ASSUME NEW S, NEW T, SameTypes(S, T), NEW i, NEW f, f # "type", NEW v
    PROVE  SameTypes(S, [T EXCEPT ![i][f] = v])
<1> DEFINE p == [T[i] EXCEPT ![f] = v]
           U == [T EXCEPT ![i] = p]
<1>1. [T EXCEPT ![i][f] = v] = U
  OBVIOUS
<1>2. i \in DOMAIN S => "type" \in DOMAIN p /\ p.type = T[i].type
  BY DEF SameTypes
<1> HIDE DEF p
<1>3. SameTypes(S, U)
  BY <1>2 DEF SameTypes
<1> QED BY <1>1, <1>3

-----------------------------------------------------------------------------
(* Answers.                                                                  *)

\* The length of an answer that is read as a stub reads it.
ReplyLength(read, long, in) ==
    IF in[1] # ERR_SUCCESS \/ read = "nothing" THEN 1
    ELSE IF read = "optional" /\ Len(in) >= 2 /\ in[2] # 0 THEN long ELSE 2

Readable(reply, read, long) ==
    reply \in Seq(Int) /\ reply # <<>> /\ Len(reply) = ReplyLength(read, long, reply)

\* Outcomes in which the servant lives, no object comes or goes, and the stub reads all
\* that is sent.
Quiet(S, outcomes, read, long) ==
    \A o \in outcomes :
        ~o.crashed /\ SameTypes(S, o.objects) /\ Readable(o.reply, read, long)

(***************************************************************************)
(* The replies of the servant as lists of integers.                        *)
(***************************************************************************)
LEMMA ReadableReplies ==
    ASSUME NEW long
    PROVE  /\ \A read : \A code \in Int \ {0} : Readable(<<code>>, read, long)
           /\ Readable(<<0>>, "nothing", long)
           /\ \A d \in Int : Readable(<<0, d>>, "result", long)
           /\ Readable(<<0, 0>>, "optional", long)
           /\ long = 3 => \A b \in Int : Readable(<<0, 1, b>>, "optional", long)
           /\ long = 4 => \A a, b \in Int : Readable(<<0, 1, a, b>>, "optional", long)
<1>1. \A read : \A code \in Int \ {0} : Readable(<<code>>, read, long)
  BY DEF Readable, ReplyLength
<1>2. Readable(<<0>>, "nothing", long)
  BY DEF Readable, ReplyLength
<1>3. \A d \in Int : Readable(<<0, d>>, "result", long)
  BY DEF Readable, ReplyLength
<1>4. Readable(<<0, 0>>, "optional", long)
  BY DEF Readable, ReplyLength
<1>5. long = 3 => \A b \in Int : Readable(<<0, 1, b>>, "optional", long)
  BY DEF Readable, ReplyLength
<1>6. long = 4 => \A a, b \in Int : Readable(<<0, 1, a, b>>, "optional", long)
  BY DEF Readable, ReplyLength
<1> QED BY <1>1, <1>2, <1>3, <1>4, <1>5, <1>6

(***************************************************************************)
(* A reply that comes with objects of the same types.                      *)
(***************************************************************************)
LEMMA QuietSent ==
    ASSUME NEW S, NEW T, SameTypes(S, T), NEW read, NEW long, NEW replies,
           \A r \in replies : Readable(r, read, long)
    PROVE  Quiet(S, Sent(T, replies), read, long)
BY DEF Quiet, Sent

(***************************************************************************)
(* The usual replies.                                                      *)
(***************************************************************************)
LEMMA QuietReplies ==
    ASSUME NEW S, NEW T, SameTypes(S, T), NEW long
    PROVE  /\ \A read : \A code \in Int \ {0} : Quiet(S, Errno(T, code), read, long)
           /\ Quiet(S, Success(T), "nothing", long)
           /\ Quiet(S, SuccessWithBool(T), "result", long)
           /\ Quiet(S, SuccessWithData(T), "result", long)
           /\ \A d \in Int : Quiet(S, Sent(T, {<<0, d>>}), "result", long)
<1>1. ASSUME NEW read, NEW code \in Int \ {0} PROVE Quiet(S, Errno(T, code), read, long)
  BY ReadableReplies, QuietSent DEF Errno
<1>2. Quiet(S, Success(T), "nothing", long)
  BY ReadableReplies, QuietSent DEF Success, Errno
<1>3. Quiet(S, SuccessWithBool(T), "result", long)
  BY ReadableReplies, QuietSent DEF SuccessWithBool
<1>4. Quiet(S, SuccessWithData(T), "result", long)
  BY ReadableReplies, QuietSent DEF SuccessWithData
<1>5. ASSUME NEW d \in Int PROVE Quiet(S, Sent(T, {<<0, d>>}), "result", long)
  BY ReadableReplies, QuietSent
<1> QED BY <1>1, <1>2, <1>3, <1>4, <1>5

(***************************************************************************)
(* Good objects are of the same types as themselves.                       *)
(***************************************************************************)
LEMMA TypesStay ==
    ASSUME NEW S, WellFormed(S)
    PROVE  SameTypes(S, S)
BY FreeSlots DEF SameTypes

(***************************************************************************)
(* Checks of parameters that are passed as the stubs pass them.            *)
(***************************************************************************)
LEMMA Passed ==
    ASSUME NEW S, NEW outcomes
    PROVE  /\ WithoutParameters(S, <<>>, outcomes) = outcomes
           /\ \A type : \A i \in DOMAIN S : S[i] # NULL /\ S[i].type = type =>
                WithObject(S, <<i>>, type, outcomes) = outcomes
<1>1. WithoutParameters(S, <<>>, outcomes) = outcomes
  BY DEF WithoutParameters
<1>2. \A i : Len(<<i>>) = 1 /\ <<i>>[1] = i
  OBVIOUS
<1>3. \A type : \A i \in DOMAIN S : S[i] # NULL /\ S[i].type = type =>
        WithObject(S, <<i>>, type, outcomes) = outcomes
  BY <1>2 DEF WithObject
<1> QED BY <1>1, <1>3

-----------------------------------------------------------------------------
(* The commands of each class, as the methods of the stubs send them.        *)

Holds(S, i, type) == i \in DOMAIN S /\ S[i] # NULL /\ S[i].type = type

\* What a stub passes: nothing, a number, data, or the handle of an object.
ArgumentsFit(S, passed, args) ==
    /\ passed = "nothing" => args = <<>>
    /\ passed = "number" => args = <<1>>
    /\ passed = "data" => args = <<Data>>
    /\ passed = "logger" => \E i : Holds(S, i, OBJ_LOGGER) /\ args = <<i>>
    /\ passed = "knowledgebase" => \E i : Holds(S, i, OBJ_KNOWLEDGEBASE) /\ args = <<i>>
    /\ passed = "iterator" => \E i : Holds(S, i, OBJ_KNOWLEDGEBASE_ITERATOR) /\ args = <<i>>
    /\ passed = "normalizer" => \E i : Holds(S, i, OBJ_NORMALIZER) /\ args = <<i>>

(***************************************************************************)
(* Methods of DispatcherLogger.                                            *)
(***************************************************************************)
LEMMA LoggerQuiet ==
    ASSUME NEW S, WellFormed(S), NEW k \in logger_calls, NEW args, ArgumentsFit(S, k[2], args),
           NEW long
    PROVE  Quiet(S, logger_command(S, k[1], args), k[3], long)
<1>1. SameTypes(S, S)
  BY TypesStay
<1>2. CASE k = <<0, "nothing", "result">>
  <2>1. logger_command(S, 0, args) = SuccessWithData(S)
    BY <1>2, Passed DEF logger_command, ArgumentsFit
  <2> QED BY <1>1, <1>2, <2>1, QuietReplies
<1>3. CASE k = <<1, "number", "nothing">>
  <2>1. args = <<1>> /\ Len(args) = 1 /\ args[1] \in 1..4
    BY <1>3 DEF ArgumentsFit
  <2>2. logger_command(S, 1, args) = Success(S)
    BY <2>1 DEF logger_command, Success
  <2> QED BY <1>1, <1>3, <2>2, QuietReplies
<1> QED BY <1>2, <1>3 DEF logger_calls

(***************************************************************************)
(* Methods of DispatcherNormalizer.                                        *)
(***************************************************************************)
LEMMA NormalizerQuiet ==
    ASSUME NEW S, WellFormed(S), NEW k \in normalizer_calls, NEW args,
           ArgumentsFit(S, k[2], args), NEW long
    PROVE  Quiet(S, normalizer_command(S, k[1], args), k[3], long)
<1>1. SameTypes(S, S)
  BY TypesStay
<1>2. CASE k[1] \in {0, 10} /\ k[2] = "nothing" /\ k[3] = "result"
  <2>1. normalizer_command(S, k[1], args) = SuccessWithData(S)
    BY <1>2, Passed DEF normalizer_command, ArgumentsFit
  <2> QED BY <1>1, <1>2, <2>1, QuietReplies
<1>3. CASE k[1] = 1
  <2>1. normalizer_command(S, k[1], args) = Errno(S, ERR_BAD_PARAMETERS)
    BY <1>3 DEF normalizer_command
  <2> QED BY <1>1, <2>1, QuietReplies
<1> QED BY <1>2, <1>3 DEF normalizer_calls

(***************************************************************************)
(* Methods of DispatcherKnowledgebase that do not look at the tree's nodes *)
(* through an iterator and do not make an object.                          *)
(***************************************************************************)
LEMMA KnowledgebaseQuiet ==
    ASSUME NEW S, Good(S), NEW i \in DOMAIN S, NEW k \in knowledgebase_calls, k[1] # 25, NEW args,
           ArgumentsFit(S, k[2], args),
           k[1] \in {1, 27, 40, 41, 50} => \A j \in DOMAIN S : S[j] # NULL => S[j].cursor # i
    PROVE  Quiet(S, knowledgebase_command(S, i, k[1], args), k[3], 3)
<1> DEFINE code == k[1]
           outcomes == knowledgebase_command(S, i, code, args)
<1>1. SameTypes(S, S)
  BY TypesStay DEF Good
<1>2. CASE code \in {0, 5, 6, 28, 29} \cup 10..17 /\ k[2] = "nothing" /\ k[3] = "result"
  <2>1. outcomes = knowledgebase_inspected(S, code, args)
    BY <1>2 DEF knowledgebase_command
  <2>2. args = <<>>
    BY <1>2 DEF ArgumentsFit
  <2>3. outcomes = SuccessWithBool(S) \/ outcomes = SuccessWithData(S)
    BY <2>1, <2>2, Passed DEF knowledgebase_inspected
  <2> QED BY <1>1, <1>2, <2>3, QuietReplies
<1>3. CASE k = <<1, "data", "nothing">>
  <2>1. outcomes = UNION {Sent(o, {<<ERR_SUCCESS>>, <<ERR_BAD_PARAMETERS>>}) :
                            o \in WithFreedNodes(S, i, TRUE)}
    BY <1>3 DEF knowledgebase_command, knowledgebase_changed
  <2>2. WithFreedNodes(S, i, TRUE) = {S}
    BY <1>3, NothingFreed
  <2> DEFINE replies == {<<ERR_SUCCESS>>, <<ERR_BAD_PARAMETERS>>}
  <2>3. \A r \in replies : Readable(r, "nothing", 3)
    BY ReadableReplies
  <2> HIDE DEF replies, outcomes
  <2>4. outcomes = Sent(S, replies)
    BY <2>1, <2>2 DEF replies
  <2> QED BY <1>1, <1>3, <2>3, <2>4, QuietSent DEF outcomes
<1>4. CASE k \in {<<20, "data", "optional">>, <<21, "data", "optional">>}
  <2> DEFINE replies == {<<ERR_SUCCESS, 0>>} \cup {<<ERR_SUCCESS, 1, b>> : b \in Bool}
  <2>1. outcomes = Sent(S, replies)
    BY <1>4 DEF knowledgebase_command, knowledgebase_changed
  <2>2. \A r \in replies : Readable(r, "optional", 3)
    BY ReadableReplies
  <2> HIDE DEF replies, outcomes
  <2> QED BY <1>1, <1>4, <2>1, <2>2, QuietSent DEF outcomes
<1>5. CASE k = <<22, "data", "result">>
  <2>1. outcomes = SuccessWithBool(S)
    BY <1>5 DEF knowledgebase_command, knowledgebase_changed
  <2> QED BY <1>1, <1>5, <2>1, QuietReplies
<1>6. CASE k = <<26, "knowledgebase", "result">>
  <2>1. PICK j : Holds(S, j, OBJ_KNOWLEDGEBASE) /\ args = <<j>>
    BY <1>6 DEF ArgumentsFit
  <2>2. outcomes = WithObject(S, args, OBJ_KNOWLEDGEBASE, SuccessWithBool(S))
    BY <1>6 DEF knowledgebase_command, knowledgebase_changed
  <2>3. outcomes = SuccessWithBool(S)
    BY <2>1, <2>2, Passed DEF Holds
  <2> QED BY <1>1, <1>6, <2>3, QuietReplies
<1>7. CASE k = <<27, "data", "nothing">>
  <2>1. outcomes = Success(S) \cup UNION {Errno(o, ERR_BAD_PARAMETERS) :
                                            o \in WithFreedNodes(S, i, TRUE)}
    BY <1>7 DEF knowledgebase_command, knowledgebase_changed
  <2>2. WithFreedNodes(S, i, TRUE) = {S}
    BY <1>7, NothingFreed
  <2>3. Quiet(S, Success(S), "nothing", 3) /\ Quiet(S, Errno(S, ERR_BAD_PARAMETERS), "nothing", 3)
    BY <1>1, QuietReplies
  <2> HIDE DEF outcomes
  <2>4. outcomes = Success(S) \cup Errno(S, ERR_BAD_PARAMETERS)
    BY <2>1, <2>2
  <2> QED BY <1>7, <2>3, <2>4 DEF Quiet, outcomes
<1>8. CASE k \in {<<40, "nothing", "nothing">>, <<41, "nothing", "nothing">>}
  <2>1. args = <<>>
    BY <1>8 DEF ArgumentsFit
  <2>2. outcomes = WithoutParameters(S, args,
                     UNION {Success(o) : o \in WithFreedNodes(S, i, code = 40)})
    BY <1>8 DEF knowledgebase_command, knowledgebase_iterated
  <2>3. WithFreedNodes(S, i, code = 40) = {S}
    <3> DEFINE freed == (code = 40)
    <3>1. freed \in BOOLEAN /\ k[1] \in {40, 41}
      BY <1>8
    <3> HIDE DEF freed
    <3>2. WithFreedNodes(S, i, freed) = {S}
      BY <3>1, NothingFreed
    <3> QED BY <3>2 DEF freed
  <2> HIDE DEF outcomes
  <2>4. outcomes = UNION {Success(o) : o \in {S}}
    BY <2>1, <2>2, <2>3, Passed
  <2>5. outcomes = Success(S)
    BY <2>4
  <2> QED BY <1>1, <1>8, <2>5, QuietReplies DEF outcomes
<1>9. CASE k = <<50, "number", "result">>
  <2>1. Len(args) = 1 /\ args[1] = 1
    BY <1>9 DEF ArgumentsFit
  <2>2. outcomes = UNION {SuccessWithBool(o) : o \in WithFreedNodes(S, i, FALSE)}
    BY <1>9, <2>1 DEF knowledgebase_command, knowledgebase_iterated
  <2>3. WithFreedNodes(S, i, FALSE) = {S}
    BY <1>9, NothingFreed
  <2> HIDE DEF outcomes
  <2>4. outcomes = SuccessWithBool(S)
    BY <2>2, <2>3
  <2> QED BY <1>1, <1>9, <2>4, QuietReplies DEF outcomes
<1> QED BY <1>2, <1>3, <1>4, <1>5, <1>6, <1>7, <1>8, <1>9 DEF knowledgebase_calls

(***************************************************************************)
(* Methods of DispatcherKnowledgebaseIterator.  A valid iterator is not one*)
(* whose node is gone.                                                     *)
(***************************************************************************)
LEMMA IteratorQuiet ==
    ASSUME NEW S, Good(S), NEW t, Holds(S, t, OBJ_KNOWLEDGEBASE_ITERATOR),
           NEW k \in iterated_calls, NEW args, ArgumentsFit(S, k[2], args)
    PROVE  Quiet(S, iterator_command(S, t, k[1], args), k[3], 3)
<1> DEFINE code == k[1]
           outcomes == iterator_command(S, t, code, args)
<1>1. SameTypes(S, S)
  BY TypesStay DEF Good
<1>2. S[t].cursor # Freed
  <2>1. S[t] \in Objects /\ S[t].knowledgebase \in Ref
    BY SlotFacts, ObjectFields DEF Good, Holds
  <2> QED BY <2>1 DEF Good, CursorsRight, Holds, Ref
<1>3. ASSUME NEW o, NEW read, Quiet(S, o, read, 3) PROVE Quiet(S, WithNode(S, t, o), read, 3)
  <2>1. WithNode(S, t, o) = Errno(S, ERR_BAD_OBJECT_STATE) \/ WithNode(S, t, o) = o
    BY <1>2 DEF WithNode
  <2>2. Quiet(S, Errno(S, ERR_BAD_OBJECT_STATE), read, 3)
    BY <1>1, QuietReplies
  <2> QED BY <1>3, <2>1, <2>2
<1>4. \A v : SameTypes(S, [S EXCEPT ![t].cursor = v])
  BY <1>1, MemberKeepsTypes
<1>5. CASE k = <<0, "nothing", "result">>
  <2>1. outcomes = Sent(S, {<<0, IF S[t].cursor = None THEN 0 ELSE 1>>})
    BY <1>5, Passed DEF iterator_command, ArgumentsFit
  <2> HIDE DEF outcomes
  <2>2. (IF S[t].cursor = None THEN 0 ELSE 1) \in Int
    OBVIOUS
  <2> QED BY <1>1, <1>5, <2>1, <2>2, QuietReplies DEF outcomes
<1>6. CASE k = <<1, "iterator", "nothing">>
  <2>1. PICK j : Holds(S, j, OBJ_KNOWLEDGEBASE_ITERATOR) /\ args = <<j>>
    BY <1>6 DEF ArgumentsFit
  <2> DEFINE T == [S EXCEPT ![t].cursor = S[args[1]].cursor]
  <2>2. outcomes = WithObject(S, args, OBJ_KNOWLEDGEBASE_ITERATOR, Success(T))
    BY <1>6 DEF iterator_command
  <2>3. SameTypes(S, T)
    BY <1>4
  <2> HIDE DEF T, outcomes
  <2>4. outcomes = Success(T)
    BY <2>1, <2>2, Passed DEF Holds
  <2> QED BY <1>6, <2>3, <2>4, QuietReplies DEF outcomes
<1>7. CASE k = <<2, "iterator", "result">>
  <2>1. PICK j : Holds(S, j, OBJ_KNOWLEDGEBASE_ITERATOR) /\ args = <<j>>
    BY <1>7 DEF ArgumentsFit
  <2>2. outcomes = WithObject(S, args, OBJ_KNOWLEDGEBASE_ITERATOR, SuccessWithBool(S))
    BY <1>7 DEF iterator_command
  <2>3. outcomes = SuccessWithBool(S)
    BY <2>1, <2>2, Passed DEF Holds
  <2> QED BY <1>1, <1>7, <2>3, QuietReplies
<1>8. CASE k = <<10, "nothing", "result">>
  <2>1. outcomes = WithNode(S, t, SuccessWithBool(S))
    BY <1>8, Passed DEF iterator_command, ArgumentsFit
  <2> HIDE DEF outcomes
  <2> QED BY <1>1, <1>3, <1>8, <2>1, QuietReplies DEF outcomes
<1>9. CASE k = <<20, "nothing", "result">>
  <2>1. outcomes = WithNode(S, t, SuccessWithData(S))
    BY <1>9, Passed DEF iterator_command, ArgumentsFit
  <2> HIDE DEF outcomes
  <2> QED BY <1>1, <1>3, <1>9, <2>1, QuietReplies DEF outcomes
<1>10. CASE k = <<21, "nothing", "optional">>
  <2> DEFINE replies == {<<ERR_SUCCESS, 0>>} \cup {<<ERR_SUCCESS, 1, b>> : b \in Bool}
  <2>1. outcomes = WithNode(S, t, Sent(S, replies))
    BY <1>10, Passed DEF iterator_command, ArgumentsFit
  <2>2. \A r \in replies : Readable(r, "optional", 3)
    BY ReadableReplies
  <2> HIDE DEF outcomes, replies
  <2>3. Quiet(S, Sent(S, replies), "optional", 3)
    BY <1>1, <2>2, QuietSent
  <2> QED BY <1>3, <1>10, <2>1, <2>3 DEF outcomes
<1>11. CASE k = <<30, "nothing", "nothing">>
  <2> DEFINE moved == Success(S) \cup Success([S EXCEPT ![t].cursor = None])
  <2>1. outcomes = WithNode(S, t, moved)
    BY <1>11, Passed DEF iterator_command, ArgumentsFit
  <2>2. Quiet(S, Success(S), "nothing", 3)
    BY <1>1, QuietReplies
  <2>3. Quiet(S, Success([S EXCEPT ![t].cursor = None]), "nothing", 3)
    BY <1>4, QuietReplies
  <2>4. Quiet(S, moved, "nothing", 3)
    BY <2>2, <2>3 DEF Quiet
  <2> HIDE DEF outcomes, moved
  <2> QED BY <1>3, <1>11, <2>1, <2>4 DEF outcomes
<1>12. CASE k = <<31, "number", "result">>
  <2>1. Len(args) = 1 /\ args[1] = 1
    BY <1>12 DEF ArgumentsFit
  <2>2. outcomes = WithNode(S, t, SuccessWithBool(S))
    BY <1>12, <2>1 DEF iterator_command
  <2> HIDE DEF outcomes
  <2> QED BY <1>1, <1>3, <1>12, <2>2, QuietReplies DEF outcomes
<1> QED BY <1>5, <1>6, <1>7, <1>8, <1>9, <1>10, <1>11, <1>12 DEF iterated_calls

(***************************************************************************)
(* Noting references changes no object's type.                             *)
(***************************************************************************)
LEMMA LinkKeepsTypes ==
    ASSUME NEW S, NEW T, SameTypes(S, T)
    PROVE  /\ \A i, a : SameTypes(S, Referred(T, i, a)) /\ SameTypes(S, Dereferred(T, i, a))
           /\ \A a, member, i : member # "type" =>
                SameTypes(S, refer(T, a, member, i)) /\ SameTypes(S, derefer(T, a, member))
<1>1. ASSUME NEW i, NEW a, NEW U, SameTypes(S, U)
      PROVE  SameTypes(S, Referred(U, i, a)) /\ SameTypes(S, Dereferred(U, i, a))
  <2> DEFINE more == U[i].referring_algorithms \cup {a}
             less == U[i].referring_algorithms \ {a}
  <2>1. Referred(U, i, a) = [U EXCEPT ![i]["referring_algorithms"] = more]
    BY DEF Referred
  <2>2. \/ Dereferred(U, i, a) = U
        \/ Dereferred(U, i, a) = [U EXCEPT ![i]["referring_algorithms"] = less]
    BY DEF Dereferred
  <2>3. \A v : SameTypes(S, [U EXCEPT ![i]["referring_algorithms"] = v])
    BY <1>1, MemberKeepsTypes
  <2> HIDE DEF more, less
  <2> QED BY <1>1, <2>1, <2>2, <2>3
<1>2. ASSUME NEW a, NEW member, NEW i, member # "type"
      PROVE  SameTypes(S, refer(T, a, member, i)) /\ SameTypes(S, derefer(T, a, member))
  <2> DEFINE U == Dereferred(T, T[a][member], a)
  <2>1. SameTypes(S, U)
    BY <1>1
  <2>2. refer(T, a, member, i) = [U EXCEPT ![a][member] = i]
    BY DEF refer
  <2>3. derefer(T, a, member) = [T EXCEPT ![a][member] = None]
    BY DEF derefer
  <2> HIDE DEF U
  <2>4. SameTypes(S, [U EXCEPT ![a][member] = i])
    BY <1>2, <2>1, MemberKeepsTypes
  <2>5. SameTypes(S, [T EXCEPT ![a][member] = None])
    BY <1>2, MemberKeepsTypes
  <2> QED BY <2>2, <2>3, <2>4, <2>5
<1> QED BY <1>1, <1>2

(***************************************************************************)
(* Setting a logger, knowledgebase or normalizer that is there.            *)
(***************************************************************************)
LEMMA AssociatingQuiet ==
    ASSUME NEW S, Good(S), NEW a, Holds(S, a, OBJ_LEARNING_ALGORITHM),
           NEW type \in Linkable, NEW i, Holds(S, i, type)
    PROVE  Quiet(S, Associated(S, a, type, <<i>>), "nothing", 4)
<1> DEFINE old == S[a][Member(type)]
           link(j) == IF type = OBJ_NORMALIZER
                      THEN refer(Referred(S, j, a), a, Member(type), j)
                      ELSE Referred(refer(S, a, Member(type), j), j, a)
           made(j) == IF old # None /\ S[old] = NULL THEN Crash(S) ELSE Success(link(j))
           args == <<i>>
<1>1. ~(old # None /\ S[old] = NULL)
  BY OldReference DEF Holds
<1>2. Associated(S, a, type, args) = WithObject(S, args, type, made(args[1]))
  BY Zenon DEF Associated
<1>3. args[1] = i
  OBVIOUS
<1>4. SameTypes(S, S) /\ Member(type) # "type"
  BY TypesStay DEF Good, Linkable, Member
<1>5. SameTypes(S, link(i))
  <2>1. SameTypes(S, Referred(S, i, a)) /\ SameTypes(S, refer(S, a, Member(type), i))
    BY <1>4, LinkKeepsTypes
  <2>2. SameTypes(S, refer(Referred(S, i, a), a, Member(type), i))
    BY <1>4, <2>1, LinkKeepsTypes
  <2>3. SameTypes(S, Referred(refer(S, a, Member(type), i), i, a))
    BY <2>1, LinkKeepsTypes
  <2> QED BY <2>2, <2>3
<1>6. made(i) = Success(link(i))
  BY <1>1
<1> HIDE DEF made, link
<1>7. WithObject(S, args, type, made(i)) = made(i)
  BY Passed DEF Holds
<1>8. Quiet(S, Success(link(i)), "nothing", 4)
  BY <1>5, QuietReplies
<1> QED BY <1>2, <1>3, <1>6, <1>7, <1>8

(***************************************************************************)
(* Removing a logger or normalizer that is set.                            *)
(***************************************************************************)
LEMMA RemovingQuiet ==
    ASSUME NEW S, Good(S), NEW a, Holds(S, a, OBJ_LEARNING_ALGORITHM),
           NEW type \in Linkable, S[a][Member(type)] # None
    PROVE  Quiet(S, Removed(S, a, Member(type), <<>>), "nothing", 4)
<1> DEFINE old == S[a][Member(type)]
           T == derefer(Dereferred(S, old, a), a, Member(type))
           outcomes == IF old = None THEN Crash(S)
                       ELSE IF S[old] = NULL THEN Crash(S) ELSE Success(T)
<1>1. Removed(S, a, Member(type), <<>>) = WithoutParameters(S, <<>>, outcomes)
  BY Zenon DEF Removed
<1>2. old # None /\ S[old] # NULL
  BY OldReference DEF Holds
<1>3. SameTypes(S, S) /\ Member(type) # "type"
  BY TypesStay DEF Good, Linkable, Member
<1>4. SameTypes(S, T)
  <2> HIDE DEF old
  <2>1. SameTypes(S, Dereferred(S, old, a))
    BY <1>3, LinkKeepsTypes
  <2> QED BY <1>3, <2>1, LinkKeepsTypes
<1> HIDE DEF T
<1>5. outcomes = Success(T)
  BY <1>2
<1> HIDE DEF outcomes
<1> QED BY <1>1, <1>4, <1>5, Passed, QuietReplies

(***************************************************************************)
(* Methods of DispatcherLearningAlgorithm about the logger, knowledgebase  *)
(* and normalizer.                                                         *)
(***************************************************************************)
LEMMA LinkedQuiet ==
    ASSUME NEW S, Good(S), NEW a, Holds(S, a, OBJ_LEARNING_ALGORITHM),
           NEW k \in link_calls, NEW args, ArgumentsFit(S, k[2], args),
           k[1] = 11 => S[a].logger # None, k[1] = 16 => S[a].normalizer # None
    PROVE  Quiet(S, algorithm_linked(S, a, k[1], args), k[3], 4)
<1> DEFINE outcomes == algorithm_linked(S, a, k[1], args)
<1>1. SameTypes(S, S)
  BY TypesStay DEF Good
<1>2. S[a].knowledgebase \in Int /\ S[a].normalizer \in Int
  <2>1. S[a] \in Objects
    BY SlotFacts DEF Good, Holds
  <2>2. S[a].knowledgebase \in Ref /\ S[a].normalizer \in Ref
    BY <2>1, ObjectFields
  <2> QED BY <2>2 DEF Ref
<1>3. /\ OBJ_LOGGER \in Linkable /\ OBJ_KNOWLEDGEBASE \in Linkable /\ OBJ_NORMALIZER \in Linkable
      /\ Member(OBJ_LOGGER) = "logger" /\ Member(OBJ_NORMALIZER) = "normalizer"
  BY DEF Linkable, Member
<1>4. CASE k = <<10, "logger", "nothing">>
  <2>1. PICK i : Holds(S, i, OBJ_LOGGER) /\ args = <<i>>
    BY <1>4 DEF ArgumentsFit
  <2>2. outcomes = Associated(S, a, OBJ_LOGGER, <<i>>)
    BY <1>4, <2>1 DEF algorithm_linked
  <2> QED BY <1>3, <1>4, <2>1, <2>2, AssociatingQuiet
<1>5. CASE k = <<11, "nothing", "nothing">>
  <2>1. outcomes = Removed(S, a, "logger", <<>>)
    BY <1>5 DEF algorithm_linked, ArgumentsFit
  <2>2. S[a][Member(OBJ_LOGGER)] # None
    BY <1>3, <1>5
  <2>3. Quiet(S, Removed(S, a, Member(OBJ_LOGGER), <<>>), "nothing", 4)
    BY <1>3, <2>2, RemovingQuiet
  <2> QED BY <1>3, <1>5, <2>1, <2>3
<1>6. CASE k = <<12, "knowledgebase", "nothing">>
  <2>1. PICK i : Holds(S, i, OBJ_KNOWLEDGEBASE) /\ args = <<i>>
    BY <1>6 DEF ArgumentsFit
  <2>2. outcomes = Associated(S, a, OBJ_KNOWLEDGEBASE, <<i>>)
    BY <1>6, <2>1 DEF algorithm_linked
  <2> QED BY <1>3, <1>6, <2>1, <2>2, AssociatingQuiet
<1>7. CASE k = <<13, "nothing", "result">>
  <2>1. outcomes = Sent(S, {<<0, S[a].knowledgebase>>})
    BY <1>7, Passed DEF algorithm_linked, ArgumentsFit
  <2> HIDE DEF outcomes
  <2> QED BY <1>1, <1>2, <1>7, <2>1, QuietReplies DEF outcomes
<1>8. CASE k = <<14, "normalizer", "nothing">>
  <2>1. PICK i : Holds(S, i, OBJ_NORMALIZER) /\ args = <<i>>
    BY <1>8 DEF ArgumentsFit
  <2>2. outcomes = Associated(S, a, OBJ_NORMALIZER, <<i>>)
    BY <1>8, <2>1 DEF algorithm_linked
  <2> QED BY <1>3, <1>8, <2>1, <2>2, AssociatingQuiet
<1>9. CASE k = <<15, "nothing", "result">>
  <2>1. outcomes = Sent(S, {<<0, S[a].normalizer>>})
    BY <1>9, Passed DEF algorithm_linked, ArgumentsFit
  <2> HIDE DEF outcomes
  <2> QED BY <1>1, <1>2, <1>9, <2>1, QuietReplies DEF outcomes
<1>10. CASE k = <<16, "nothing", "nothing">>
  <2>1. outcomes = Removed(S, a, "normalizer", <<>>)
    BY <1>10 DEF algorithm_linked, ArgumentsFit
  <2>2. S[a][Member(OBJ_NORMALIZER)] # None
    BY <1>3, <1>10
  <2>3. Quiet(S, Removed(S, a, Member(OBJ_NORMALIZER), <<>>), "nothing", 4)
    BY <1>3, <2>2, RemovingQuiet
  <2> QED BY <1>3, <1>10, <2>1, <2>3
<1> QED BY <1>4, <1>5, <1>6, <1>7, <1>8, <1>9, <1>10 DEF link_calls

(***************************************************************************)
(* The other methods of DispatcherLearningAlgorithm, without the one that  *)
(* adds a counterexample.                                                  *)
(***************************************************************************)
LEMMA WorkedQuiet ==
    ASSUME NEW S, Good(S), NEW a, NEW k \in algorithm_calls, k[1] # 42,
           NEW args, ArgumentsFit(S, k[2], args)
    PROVE  Quiet(S, algorithm_worked(S, a, k[1], args), k[3], 4)
<1> DEFINE outcomes == algorithm_worked(S, a, k[1], args)
<1>1. SameTypes(S, S)
  BY TypesStay DEF Good
<1>2. CASE k[1] \in {0, 2, 4, 20, 21, 30} /\ k[2] = "nothing" /\ k[3] = "result"
  <2>1. outcomes = SuccessWithData(S)
    <3>1. args = <<>>
      BY <1>2 DEF ArgumentsFit
    <3> DEFINE code == k[1]
    <3>2. code \in {0, 2, 4, 20, 21, 30}
      BY <1>2
    <3> HIDE DEF code
    <3>3. algorithm_worked(S, a, code, args) = WithoutParameters(S, args, SuccessWithData(S))
      BY ONLY <3>2, SMTT(30) DEF algorithm_worked
    <3>4. outcomes = WithoutParameters(S, args, SuccessWithData(S))
      BY <3>3 DEF code
    <3> HIDE DEF outcomes
    <3> QED BY <3>1, <3>4, Passed
  <2> QED BY <1>1, <1>2, <2>1, QuietReplies
<1>3. CASE k = <<1, "data", "nothing">>
  <2> DEFINE replies == {<<ERR_SUCCESS>>, <<ERR_BAD_PARAMETERS>>}
  <2>1. outcomes = Sent(S, replies)
    BY <1>3 DEF algorithm_worked
  <2>2. \A r \in replies : Readable(r, "nothing", 4)
    BY ReadableReplies
  <2> HIDE DEF outcomes, replies
  <2> QED BY <1>1, <1>3, <2>1, <2>2, QuietSent DEF outcomes
<1>4. CASE k = <<3, "data", "result">>
  <2>1. args # <<>>
    BY <1>4 DEF ArgumentsFit
  <2>2. outcomes = SuccessWithData(S) \cup Errno(S, ERR_BAD_PARAMETERS)
    BY <1>4, <2>1 DEF algorithm_worked
  <2>3. /\ Quiet(S, SuccessWithData(S), "result", 4)
        /\ Quiet(S, Errno(S, ERR_BAD_PARAMETERS), "result", 4)
    <3>1. ERR_BAD_PARAMETERS \in Int \ {0}
      OBVIOUS
    <3> QED BY <1>1, <3>1, QuietReplies
  <2> HIDE DEF outcomes
  <2> QED BY <1>4, <2>2, <2>3 DEF Quiet, outcomes
<1>5. CASE k = <<31, "number", "nothing">>
  <2>1. Len(args) = 1 /\ args[1] = 1
    BY <1>5 DEF ArgumentsFit
  <2>2. outcomes = Success(S)
    BY <1>5, <2>1 DEF algorithm_worked, Success
  <2> QED BY <1>1, <1>5, <2>2, QuietReplies
<1>6. CASE k \in {<<40, "nothing", "result">>, <<50, "nothing", "result">>}
  <2>1. outcomes = SuccessWithBool(S)
    BY <1>6, Passed DEF algorithm_worked, ArgumentsFit
  <2> QED BY <1>1, <1>6, <2>1, QuietReplies
<1>7. CASE k = <<41, "nothing", "optional">>
  <2> DEFINE replies == {<<ERR_SUCCESS, 0>>, <<ERR_SUCCESS, 1, Data, Data>>}
  <2>1. outcomes = Sent(S, replies)
    BY <1>7, Passed DEF algorithm_worked, ArgumentsFit
  <2>2. \A r \in replies : Readable(r, "optional", 4)
    BY ReadableReplies
  <2> HIDE DEF outcomes, replies
  <2> QED BY <1>1, <1>7, <2>1, <2>2, QuietSent DEF outcomes
<1>8. CASE k = <<51, "nothing", "nothing">>
  <2> DEFINE replies == {<<ERR_SUCCESS>>, <<ERR_COMMAND_FAILED>>}
  <2>1. outcomes = Sent(S, replies)
    BY <1>8, Passed DEF algorithm_worked, ArgumentsFit
  <2>2. \A r \in replies : Readable(r, "nothing", 4)
    BY ReadableReplies
  <2> HIDE DEF outcomes, replies
  <2> QED BY <1>1, <1>8, <2>1, <2>2, QuietSent DEF outcomes
<1> QED BY <1>2, <1>3, <1>4, <1>5, <1>6, <1>7, <1>8 DEF algorithm_calls

(***************************************************************************)
(* All methods of DispatcherLearningAlgorithm but one.                     *)
(***************************************************************************)
LEMMA AlgorithmQuiet ==
    ASSUME NEW S, Good(S), NEW a, Holds(S, a, OBJ_LEARNING_ALGORITHM),
           NEW k \in algorithm_calls \cup link_calls, k[1] # 42,
           NEW args, ArgumentsFit(S, k[2], args),
           k[1] = 11 => S[a].logger # None, k[1] = 16 => S[a].normalizer # None
    PROVE  Quiet(S, algorithm_command(S, a, k[1], args), k[3], 4)
<1>1. CASE k \in link_calls
  <2>1. k[1] \in 10..16
    BY <1>1 DEF link_calls
  <2>2. Quiet(S, algorithm_linked(S, a, k[1], args), k[3], 4)
    BY <1>1, LinkedQuiet
  <2> QED BY <2>1, <2>2 DEF algorithm_command
<1>2. CASE k \in algorithm_calls
  <2>1. k[1] \notin 10..16
    BY <1>2 DEF algorithm_calls
  <2>2. Quiet(S, algorithm_worked(S, a, k[1], args), k[3], 4)
    BY <1>2, WorkedQuiet
  <2> QED BY <2>1, <2>2, Zenon DEF algorithm_command
<1> QED BY <1>1, <1>2

-----------------------------------------------------------------------------
(* Requests that make an object.                                             *)

\* Outcomes in which the servant lives and makes an object of a type, whose handle is in
\* the answer.
Making(S, outcomes, type) ==
    \A o \in outcomes :
        /\ ~o.crashed /\ o.reply = <<ERR_SUCCESS, NextSlot(S)>>
        /\ HandlesOf(o.objects) = HandlesOf(S) \cup {[id |-> NextSlot(S), type |-> type]}
        /\ DOMAIN o.objects = DOMAIN S \cup {NextSlot(S)}

(***************************************************************************)
(* A new object is in the next slot, and the others are where they were.   *)
(***************************************************************************)
LEMMA StoredHandles ==
    ASSUME NEW S, WellFormed(S), NEW o \in Objects, NEW T, SameTypes(store_object(S, o), T),
           WellFormed(T)
    PROVE  /\ HandlesOf(T) = HandlesOf(S) \cup {[id |-> NextSlot(S), type |-> o.type]}
           /\ DOMAIN T = DOMAIN S \cup {NextSlot(S)}
<1> DEFINE n == NextSlot(S)
           U == store_object(S, o)
           D == DOMAIN S \cup {n}
<1>1. n \in DOMAIN S => S[n] = NULL
  BY NextSlotIsFree
<1>2. /\ DOMAIN U = D /\ U[n] = o
      /\ \A j \in DOMAIN S : j # n => U[j] = S[j]
  BY DEF store_object
<1>3. o # NULL /\ o.type \in ObjectTypes
  BY ObjectFields
<1> HIDE DEF n, U
<1>4. DOMAIN T = D /\ \A j \in D : T[j].type = U[j].type
  BY <1>2 DEF SameTypes, U
<1>5. T[n] # NULL /\ T[n].type = o.type
  <2>1. T[n].type = o.type
    BY <1>2, <1>4
  <2> QED BY <1>3, <1>4, <2>1, FreeSlots
<1>6. \A j \in DOMAIN S : j # n => T[j].type = S[j].type /\ (T[j] # NULL <=> S[j] # NULL)
  BY <1>2, <1>4, FreeSlots
<1>7. {j \in DOMAIN T : T[j] # NULL} = {j \in DOMAIN S : S[j] # NULL} \cup {n}
  BY <1>1, <1>4, <1>5, <1>6
<1>8. HandlesOf(T) = HandlesOf(S) \cup {[id |-> n, type |-> o.type]}
  <2>1. ASSUME NEW h PROVE h \in HandlesOf(T) <=>
                             h \in HandlesOf(S) \/ h = [id |-> n, type |-> o.type]
    BY <1>1, <1>5, <1>6, <1>7 DEF HandlesOf
  <2> QED BY <2>1
<1> QED BY <1>4, <1>8 DEF n

(***************************************************************************)
(* A new object of a type is sent to the client by its slot.               *)
(***************************************************************************)
LEMMA NewObjectMaking ==
    ASSUME NEW S, Good(S), NEW type \in ObjectTypes
    PROVE  Making(S, Sent(store_object(S, NewObject(type)), {<<ERR_SUCCESS, NextSlot(S)>>}), type)
<1> DEFINE o == NewObject(type)
           U == store_object(S, o)
           n == NextSlot(S)
<1>1. o \in Objects /\ o.type = type
  BY DEF NewObject, Objects
<1>2. WellFormed(S) /\ WellFormed(U)
  BY CreatedIsGood DEF Good
<1>3. SameTypes(U, U)
  BY <1>2, TypesStay
<1> HIDE DEF o
<1>4. /\ HandlesOf(U) = HandlesOf(S) \cup {[id |-> n, type |-> type]}
      /\ DOMAIN U = DOMAIN S \cup {n}
  BY <1>1, <1>2, <1>3, StoredHandles
<1> HIDE DEF U, n
<1>5. Making(S, Sent(U, {<<ERR_SUCCESS, n>>}), type)
  BY <1>4 DEF Making, Sent, n
<1> QED BY <1>5 DEF U, n, o

\* What the constructor of a stub passes to the servant.
PassedToCreate(type) == CASE type = OBJ_LEARNING_ALGORITHM -> <<1, 1>>
                          [] type = OBJ_NORMALIZER -> <<1>>
                          [] OTHER -> <<>>

(***************************************************************************)
(* The constructors of the stubs.                                          *)
(***************************************************************************)
LEMMA CreateMaking ==
    ASSUME NEW S, Good(S), NEW type \in ObjectTypes, NEW args, args = PassedToCreate(type)
    PROVE  Making(S, reply_create_object(S, type, args), type)
<1> DEFINE parameters == CASE type = OBJ_LEARNING_ALGORITHM -> 2
                           [] type = OBJ_NORMALIZER -> 1
                           [] OTHER -> 0
           outcomes == Sent(store_object(S, NewObject(type)), {<<ERR_SUCCESS, NextSlot(S)>>})
<1> DEFINE refused == \/ \E p \in 1..parameters : args[p] <= 0
                      \/ type = OBJ_LEARNING_ALGORITHM /\ args[1] >= ALG_LAST_INVALID
                      \/ type = OBJ_NORMALIZER /\ args[1] >= NORMALIZER_LAST_INVALID
<1>1. Len(args) = parameters /\ ~refused
  <2>1. CASE type = OBJ_LEARNING_ALGORITHM
    <3>1. parameters = 2 /\ args = <<1, 1>> /\ type # OBJ_NORMALIZER
      BY <2>1 DEF PassedToCreate
    <3>2. Len(<<1, 1>>) = 2 /\ \A p \in 1..2 : <<1, 1>>[p] = 1
      OBVIOUS
    <3> HIDE DEF parameters
    <3> QED BY <3>1, <3>2 DEF ALG_LAST_INVALID
  <2>2. CASE type = OBJ_NORMALIZER
    <3>1. parameters = 1 /\ args = <<1>> /\ type # OBJ_LEARNING_ALGORITHM
      BY <2>2 DEF PassedToCreate
    <3>2. Len(<<1>>) = 1 /\ \A p \in 1..1 : <<1>>[p] = 1
      OBVIOUS
    <3> HIDE DEF parameters
    <3> QED BY <3>1, <3>2 DEF NORMALIZER_LAST_INVALID
  <2>3. CASE type \notin {OBJ_LEARNING_ALGORITHM, OBJ_NORMALIZER}
    BY <2>3 DEF PassedToCreate
  <2> QED BY <2>1, <2>2, <2>3
<1>2. reply_create_object(S, type, args) =
        IF type \notin ObjectTypes THEN Errno(S, ERR_BAD_PARAMETERS)
        ELSE IF Len(args) # parameters THEN Errno(S, ERR_BAD_PARAMETER_COUNT)
        ELSE IF refused THEN Errno(S, ERR_BAD_PARAMETERS)
        ELSE outcomes
  BY Zenon DEF reply_create_object
<1> HIDE DEF parameters, refused, outcomes
<1>3. reply_create_object(S, type, args) = outcomes
  BY <1>1, <1>2
<1> QED BY <1>3, NewObjectMaking DEF outcomes

(***************************************************************************)
(* A new iterator.                                                         *)
(***************************************************************************)
LEMMA NewIteratorMaking ==
    ASSUME NEW S, Good(S), NEW k, Holds(S, k, OBJ_KNOWLEDGEBASE),
           NEW cursors \in SUBSET {None, k}
    PROVE  Making(S, NewIterator(S, k, cursors), OBJ_KNOWLEDGEBASE_ITERATOR)
<1> DEFINE n == NextSlot(S)
           replies == {<<ERR_SUCCESS, n>>}
<1>1. NewIterator(S, k, cursors) = UNION {Sent(Iterated(S, k, c), replies) : c \in cursors}
  BY Zenon DEF NewIterator, Iterated
<1>2. ASSUME NEW c \in cursors
      PROVE  /\ HandlesOf(Iterated(S, k, c)) =
                  HandlesOf(S) \cup {[id |-> n, type |-> OBJ_KNOWLEDGEBASE_ITERATOR]}
             /\ DOMAIN Iterated(S, k, c) = DOMAIN S \cup {n}
  <2> DEFINE o == [NewObject(OBJ_KNOWLEDGEBASE_ITERATOR) EXCEPT !.knowledgebase = k, !.cursor = c]
             U == store_object(S, o)
             T == Iterated(S, k, c)
             more == U[k].referring_iterators \cup {n}
  <2>1. k \in Nat /\ c \in {None, k}
    BY SlotFacts DEF Good, Holds
  <2>2. o \in Objects /\ o.type = OBJ_KNOWLEDGEBASE_ITERATOR
    BY <2>1 DEF NewObject, Objects
  <2>3. WellFormed(S) /\ WellFormed(T)
    BY <2>1, IteratedIsGood DEF Good, Holds
  <2>4. T = [U EXCEPT ![k]["referring_iterators"] = more]
    BY DEF Iterated
  <2>5. SameTypes(U, U)
    <3>1. ASSUME NEW j \in DOMAIN S \cup {n} PROVE "type" \in DOMAIN U[j]
      <4>1. j = n => U[j] = o
        BY DEF store_object
      <4>2. j # n => U[j] = S[j]
        BY DEF store_object
      <4>3. j # n => "type" \in DOMAIN S[j]
        BY <2>3, <3>1, FreeSlots
      <4>4. "type" \in DOMAIN o
        BY <2>2 DEF Objects
      <4> HIDE DEF o, U, n
      <4> QED BY <4>1, <4>2, <4>3, <4>4
    <3>2. DOMAIN U = DOMAIN S \cup {n}
      BY DEF store_object
    <3> HIDE DEF U, n
    <3> QED BY <3>1, <3>2 DEF SameTypes
  <2> HIDE DEF more, U
  <2> HIDE DEF T
  <2>6. SameTypes(U, T)
    <3>1. \A v : SameTypes(U, [U EXCEPT ![k]["referring_iterators"] = v])
      BY <2>5, MemberKeepsTypes
    <3> QED BY <2>4, <3>1
  <2> HIDE DEF o, n
  <2> QED BY <2>2, <2>3, <2>6, StoredHandles DEF U, T, n
<1> HIDE DEF n
<1>3. ASSUME NEW c \in cursors
      PROVE  Making(S, Sent(Iterated(S, k, c), replies), OBJ_KNOWLEDGEBASE_ITERATOR)
  BY <1>2 DEF Making, Sent, n
<1> HIDE DEF replies
<1> QED BY <1>1, <1>3 DEF Making

(***************************************************************************)
(* Methods of DispatcherKnowledgebase that make an object.                 *)
(***************************************************************************)
LEMMA KnowledgebaseMaking ==
    ASSUME NEW S, Good(S), NEW i, Holds(S, i, OBJ_KNOWLEDGEBASE), NEW code
    PROVE  /\ code = 25 => Making(S, knowledgebase_command(S, i, code, <<>>), OBJ_KNOWLEDGEBASE)
           /\ code \in 30..33 =>
                Making(S, knowledgebase_command(S, i, code, <<>>), OBJ_KNOWLEDGEBASE_ITERATOR)
<1> DEFINE outcomes == knowledgebase_command(S, i, code, <<>>)
<1>1. CASE code = 25
  <2> DEFINE made == Sent(store_object(S, NewObject(OBJ_KNOWLEDGEBASE)),
                          {<<ERR_SUCCESS, NextSlot(S)>>})
  <2>1. outcomes = knowledgebase_changed(S, i, code, <<>>)
    BY <1>1 DEF knowledgebase_command
  <2>2. knowledgebase_changed(S, i, code, <<>>) = WithoutParameters(S, <<>>, made)
    BY <1>1 DEF knowledgebase_changed
  <2>3. Making(S, made, OBJ_KNOWLEDGEBASE)
    BY NewObjectMaking
  <2> HIDE DEF made
  <2> QED BY <1>1, <2>1, <2>2, <2>3, Passed
<1>2. CASE code \in 30..33
  <2>1. outcomes = knowledgebase_iterated(S, i, code, <<>>)
    BY <1>2 DEF knowledgebase_command
  <2>2. \E cursors \in SUBSET {None, i} :
          knowledgebase_iterated(S, i, code, <<>>) =
            WithoutParameters(S, <<>>, NewIterator(S, i, cursors))
    <3>1. code \in {30, 31, 32, 33}
      BY <1>2
    <3>2. {i} \in SUBSET {None, i} /\ {i, None} \in SUBSET {None, i} /\ {None} \in SUBSET {None, i}
      OBVIOUS
    <3>3. CASE code = 30
      BY <3>2, <3>3 DEF knowledgebase_iterated
    <3>4. CASE code = 32
      BY <3>2, <3>4 DEF knowledgebase_iterated
    <3>5. CASE code \in {31, 33}
      BY <3>2, <3>5 DEF knowledgebase_iterated
    <3> QED BY <3>1, <3>3, <3>4, <3>5
  <2> QED BY <1>2, <2>1, <2>2, Passed, NewIteratorMaking
<1> QED BY <1>1, <1>2

-----------------------------------------------------------------------------
(* Destroying an object.                                                     *)

(***************************************************************************)
(* A destructor finds all objects that it looks for.                       *)
(***************************************************************************)
LEMMA VisitedAreThere ==
    ASSUME NEW S, Good(S), NEW i, Exists(S, i)
    PROVE  ~ \E j \in Visited(S[i]) : S[j] = NULL
<1> SUFFICES ASSUME NEW j \in Visited(S[i]) PROVE S[j] # NULL
  OBVIOUS
<1>1. i \in DOMAIN S /\ S[i] # NULL
  BY DEF Exists
<1>2. CASE S[i].type = OBJ_LEARNING_ALGORITHM
  <2>1. \E type \in Linkable : j = S[i][Member(type)] /\ j # None
    BY <1>2 DEF Visited, Linkable, Member
  <2> QED BY <1>1, <1>2, <2>1, OldReference
<1>3. CASE S[i].type = OBJ_KNOWLEDGEBASE_ITERATOR
  <2>1. j = S[i].knowledgebase /\ j # None
    BY <1>3 DEF Visited
  <2> QED BY <1>1, <1>3, <2>1 DEF Good, KnowledgebasesNoted
<1>4. CASE S[i].type \notin {OBJ_LEARNING_ALGORITHM, OBJ_KNOWLEDGEBASE_ITERATOR}
  <2>1. j \in S[i].referring_algorithms \/ j \in S[i].referring_iterators
    BY <1>4 DEF Visited
  <2> QED BY <1>1, <2>1 DEF Good, ReferrersReal, IteratorsReal
<1> QED BY <1>2, <1>3, <1>4

(***************************************************************************)
(* The referring objects are finitely many, and counted.                   *)
(***************************************************************************)
LEMMA DependingCount ==
    ASSUME NEW S, Good(S), NEW i, Exists(S, i)
    PROVE  get_depending_reference_count(S[i]) \in Nat
<1>1. i \in DOMAIN S /\ S[i] # NULL /\ IsFiniteSet(DOMAIN S)
  <2>1. PICK n \in Nat : DOMAIN S = 0..(n - 1)
    BY DEF Good, WellFormed
  <2> QED BY <2>1, FS_Interval DEF Exists
<1>2. S[i].referring_algorithms \subseteq DOMAIN S /\ S[i].referring_iterators \subseteq DOMAIN S
  BY <1>1 DEF Good, ReferrersReal, IteratorsReal
<1>3. IsFiniteSet(S[i].referring_algorithms) /\ IsFiniteSet(S[i].referring_iterators)
  BY <1>1, <1>2, FS_Subset
<1>4. Cardinality(S[i].referring_algorithms) \in Nat /\ Cardinality(S[i].referring_iterators) \in Nat
  BY <1>3, FS_CardinalityType
<1> QED BY <1>4 DEF get_depending_reference_count

(***************************************************************************)
(* What is left when an object that nothing refers to is destroyed.        *)
(***************************************************************************)
LEMMA DeleteLeaves ==
    ASSUME NEW S, Good(S), NEW i, Exists(S, i), ~(get_depending_reference_count(S[i]) > 0)
    PROVE  \A o \in reply_delete_object(S, i) :
             /\ ~o.crashed /\ o.reply = <<ERR_SUCCESS>>
             /\ HandlesOf(o.objects) = {s \in HandlesOf(S) : s.id # i}
             /\ DOMAIN o.objects = DOMAIN S
<1> DEFINE T == Deleted(S, i)
<1>1. get_depending_reference_count(S[i]) = 0
  <2>1. get_depending_reference_count(S[i]) \in Nat
    BY DependingCount
  <2> QED BY <2>1
<1>2. reply_delete_object(S, i) = Errno(T, ERR_SUCCESS)
  BY <1>1, VisitedAreThere DEF reply_delete_object
<1>3. DOMAIN T = DOMAIN S /\ T[i] = NULL
  BY DEF Deleted, Exists
<1>4. ASSUME NEW j \in DOMAIN S, j # i
      PROVE  (T[j] # NULL <=> S[j] # NULL) /\ (S[j] # NULL => T[j].type = S[j].type)
  <2>1. T[j] = Released(S, i, j)
    BY <1>4 DEF Deleted
  <2>2. CASE S[j] # NULL
    <3>1. Told(S[j], Released(S, i, j), i)
      BY <1>4, <2>2, ReleasedIsTold DEF Exists
    <3> QED BY <2>1, <2>2, <3>1 DEF Told
  <2>3. CASE S[j] = NULL
    <3>1. S[j].type # OBJ_LEARNING_ALGORITHM /\ S[j].type # OBJ_KNOWLEDGEBASE_ITERATOR
      <4>1. S[j].type = -1
        BY <2>3
      <4> QED BY <4>1
    <3> QED BY <2>1, <2>3, <3>1 DEF Released
  <2> QED BY <2>2, <2>3
<1> HIDE DEF T
<1>5. {j \in DOMAIN T : T[j] # NULL} = {j \in DOMAIN S : S[j] # NULL} \ {i}
  BY <1>3, <1>4
<1>6. HandlesOf(T) = {s \in HandlesOf(S) : s.id # i}
  <2>1. ASSUME NEW h PROVE h \in HandlesOf(T) <=> h \in HandlesOf(S) /\ h.id # i
    BY <1>3, <1>4, <1>5 DEF HandlesOf
  <2> QED BY <2>1
<1> QED BY <1>2, <1>3, <1>6 DEF Errno, Sent

-----------------------------------------------------------------------------
(* The invariant.                                                            *)

\* A request as a stub makes it: it is about an object that is there, and what is passed
\* with it is what the method of that object's stub passes.
Proper(S, q) ==
    /\ q.cmd \in {"create", "delete", "type", "object", "hello", "disconnect"}
    /\ q.cmd = "create" =>
         /\ q.type \in ObjectTypes
         /\ q.args = CASE q.type = OBJ_LEARNING_ALGORITHM -> <<1, 1>>
                       [] q.type = OBJ_NORMALIZER -> <<1>>
                       [] OTHER -> <<>>
    /\ q.cmd \in {"delete", "type", "object"} => Exists(S, q.id) /\ S[q.id].type = q.type
    /\ q.cmd = "object" =>
         \E k \in Calls(q.type) :
             /\ k = TheCall(q.type, q.code) /\ k[1] = q.code
             /\ ArgumentsFit(S, k[2], q.args)

\* There is room for the object that a request makes.
Room(q, S) == Makes(q) # {} => NextSlot(S) < MaxObjects

\* The handles after the stub has read an answer.
StubsAfter(H, q, in) ==
    IF in[1] # ERR_SUCCESS THEN H
    ELSE IF q.cmd = "delete" THEN H \ {[id |-> q.id, type |-> q.type]}
    ELSE H \cup {[id |-> in[2], type |-> t] : t \in Makes(q)}

\* An answer that the stub reads to its end, and that leaves handles and objects in
\* agreement.
Fits(H, q, in, S) ==
    /\ in \in Seq(Int) /\ in # <<>> /\ Len(in) = Wanted(q, in)
    /\ q.cmd # "disconnect" => HandlesOf(S) = StubsAfter(H, q, in)

\* The phases of a client, by the servant it has, its socket, what it asks for, what it
\* has not read yet, its handles, and its objects.
NotYet(s, n, r, in, H, O) ==
    s = "none" /\ n = "none" /\ r = NoCall /\ in = <<>> /\ H = {} /\ O = <<>>
Greeting(s, n, r, in, H, O) ==
    /\ s \in {"backlog", "starting"} /\ n = "open" /\ r = Request("capa", None, 0, 0, <<>>)
    /\ in = <<>> /\ H = {} /\ O = <<>>
Idle(s, n, r, in, H, O) ==
    s = "running" /\ n = "open" /\ r = NoCall /\ in = <<>> /\ H = HandlesOf(O)
Asking(s, n, r, in, H, O) ==
    /\ s = "running" /\ n = "open" /\ r = Request(r.cmd, r.type, r.id, r.code, r.args)
    /\ in = <<>> /\ H = HandlesOf(O)
    /\ Proper(O, r) /\ Allowed(O, r) /\ Room(r, O)
Answered(s, n, r, in, H, O) ==
    /\ s = "running" /\ n = "open" /\ r # NoCall /\ r.served
    /\ r.cmd # "disconnect" /\ Fits(H, r, in, O)
Leaving(s, n, r, in, H, O) ==
    /\ s \in {"zombie", "reaped"} /\ n = "open" /\ r # NoCall
    /\ r.served /\ r.cmd = "disconnect" /\ Fits(H, r, in, O)
Gone(s, n, r, in, H, O) ==
    /\ s \in {"backlog", "starting", "running", "zombie", "reaped"} /\ n = "closed"
    /\ r = NoCall /\ in = <<>> /\ H = {}

InPhase(s, n, r, in, H, O) ==
    \/ NotYet(s, n, r, in, H, O) \/ Greeting(s, n, r, in, H, O) \/ Idle(s, n, r, in, H, O)
    \/ Asking(s, n, r, in, H, O) \/ Answered(s, n, r, in, H, O)
    \/ Leaving(s, n, r, in, H, O) \/ Gone(s, n, r, in, H, O)
-----------------------------------------------------------------------------
(* Requests and answers.                                                     *)

\* What the servant does about a request is right: it lives, the stub reads the answer,
\* and the objects fit.
Answers(S, q, outcomes) ==
    \A o \in outcomes :
        ~o.crashed /\ Fits(HandlesOf(S), q, o.reply, o.objects) /\ Fitting(o.objects)

(***************************************************************************)
(* An answer that is read as the stub of the object does, about a command  *)
(* that makes no object.                                                   *)
(***************************************************************************)
LEMMA QuietAnswers ==
    ASSUME NEW S, WellFormed(S), Fitting(S), NEW q, q.cmd = "object",
           Makes(q) = {}, NEW outcomes, \A o \in outcomes : WellFormed(o.objects),
           Quiet(S, outcomes, TheCall(q.type, q.code)[3],
                 IF q.type = OBJ_LEARNING_ALGORITHM THEN 4 ELSE 3)
    PROVE  Answers(S, q, outcomes)
<1> DEFINE read == TheCall(q.type, q.code)[3]
           long == IF q.type = OBJ_LEARNING_ALGORITHM THEN 4 ELSE 3
           H == HandlesOf(S)
<1> SUFFICES ASSUME NEW o \in outcomes
             PROVE  ~o.crashed /\ Fits(H, q, o.reply, o.objects) /\ Fitting(o.objects)
  BY DEF Answers
<1>2. ~o.crashed /\ SameTypes(S, o.objects) /\ Readable(o.reply, read, long)
  BY DEF Quiet
<1>3. HandlesOf(o.objects) = H /\ DOMAIN o.objects = DOMAIN S
  BY <1>2, SameHandles DEF SameTypes
<1>4. ASSUME NEW in, Readable(in, read, long)
      PROVE  in \in Seq(Int) /\ in # <<>> /\ Len(in) = Wanted(q, in)
  BY <1>4 DEF Readable, ReplyLength, Wanted
<1>5. StubsAfter(H, q, o.reply) = H
  BY DEF StubsAfter
<1> HIDE DEF read, long, H
<1> QED BY <1>2, <1>3, <1>4, <1>5 DEF Fits, Fitting

(***************************************************************************)
(* An answer that brings the handle of a new object.                       *)
(***************************************************************************)
LEMMA MakingAnswers ==
    ASSUME NEW S, WellFormed(S), Fitting(S), NextSlot(S) < MaxObjects,
           NEW q, q.cmd \in {"create", "object"}, NEW type,
           Makes(q) = {type}, q.cmd = "object" => TheCall(q.type, q.code)[3] = "result",
           NEW outcomes, Making(S, outcomes, type)
    PROVE  Answers(S, q, outcomes)
<1> DEFINE H == HandlesOf(S)
           n == NextSlot(S)
           in == <<ERR_SUCCESS, n>>
<1>1. n \in 0..(MaxObjects - 1)
  BY NextSlotIsFree, MaxObjectsAssumption
<1>2. in \in Seq(Int) /\ in # <<>> /\ Len(in) = 2 /\ in[1] = ERR_SUCCESS /\ in[2] = n
  BY <1>1
<1> HIDE DEF n
<1> SUFFICES ASSUME NEW o \in outcomes
             PROVE  ~o.crashed /\ Fits(H, q, o.reply, o.objects) /\ Fitting(o.objects)
  BY DEF Answers
<1>3. /\ ~o.crashed /\ o.reply = in
      /\ HandlesOf(o.objects) = H \cup {[id |-> n, type |-> type]}
      /\ DOMAIN o.objects = DOMAIN S \cup {n}
  BY DEF Making, n
<1> HIDE DEF in, H
<1>4. Len(in) = Wanted(q, in)
  BY <1>2 DEF Wanted, H
<1>5. StubsAfter(H, q, in) = H \cup {[id |-> n, type |-> type]}
  BY <1>2 DEF StubsAfter, H
<1> QED BY <1>1, <1>2, <1>3, <1>4, <1>5 DEF Fits, Fitting

(***************************************************************************)
(* Answers to requests that are not about a certain object.                *)
(***************************************************************************)
LEMMA PlainAnswers ==
    ASSUME NEW S, Good(S), Fitting(S), NEW q, q.cmd \in {"type", "hello", "disconnect"},
           Proper(S, q)
    PROVE  Answers(S, q, Outcomes(S, q))
<1> DEFINE H == HandlesOf(S)
<1>1. ASSUME NEW d \in Int, NEW o \in Sent(S, {<<0, d>>}), q.cmd # "disconnect"
      PROVE  ~o.crashed /\ Fits(H, q, o.reply, o.objects) /\ Fitting(o.objects)
  <2>1. ~o.crashed /\ o.objects = S /\ o.reply = <<0, d>>
    BY <1>1 DEF Sent
  <2>2. /\ o.reply \in Seq(Int) /\ o.reply # <<>> /\ Len(o.reply) = 2 /\ o.reply[1] = 0
    BY <2>1
  <2>3. Wanted(q, o.reply) = 2
    BY <1>1, <2>2 DEF Wanted
  <2>4. StubsAfter(H, q, o.reply) = H
    BY <2>2 DEF StubsAfter, Makes
  <2> QED BY <2>1, <2>2, <2>3, <2>4 DEF Fits
<1>2. CASE q.cmd = "type"
  <2>1. S[q.id].type \in Int
    BY <1>2, SlotFacts, ObjectFields DEF Proper, Exists, Good
  <2>2. Outcomes(S, q) = Sent(S, {<<0, S[q.id].type>>})
    BY <1>2 DEF Outcomes, reply_get_objecttype, Proper
  <2> QED BY <1>1, <1>2, <2>1, <2>2 DEF Answers
<1>3. CASE q.cmd = "hello"
  <2>1. Outcomes(S, q) = Sent(S, {<<0, Data>>})
    BY <1>3 DEF Outcomes, SuccessWithData
  <2> QED BY <1>1, <1>3, <2>1 DEF Answers
<1>4. CASE q.cmd = "disconnect"
  <2>1. PICK code \in Int : Outcomes(S, q) = Errno(S, code)
    <3>1. CASE \E i \in DOMAIN S : S[i] # NULL
      BY <1>4, <3>1 DEF Outcomes
    <3>2. CASE ~ \E i \in DOMAIN S : S[i] # NULL
      BY <1>4, <3>2 DEF Outcomes
    <3> QED BY <3>1, <3>2
  <2>2. ASSUME NEW o \in Outcomes(S, q)
        PROVE  ~o.crashed /\ Fits(H, q, o.reply, o.objects) /\ Fitting(o.objects)
    <3>1. ~o.crashed /\ o.objects = S /\ o.reply = <<code>>
      BY <2>1 DEF Errno, Sent
    <3>2. o.reply \in Seq(Int) /\ o.reply # <<>> /\ Len(o.reply) = 1
      BY <3>1
    <3>3. Wanted(q, o.reply) = 1
      BY <1>4, <3>2 DEF Wanted
    <3> QED BY <1>4, <3>1, <3>2, <3>3 DEF Fits
  <2> QED BY <2>2 DEF Answers
<1> QED BY <1>2, <1>3, <1>4

(***************************************************************************)
(* Methods of an object that is there.                                     *)
(***************************************************************************)
LEMMA ObjectAnswers ==
    ASSUME NEW S, Careless = {}, Good(S), Fitting(S), NEW q, q.cmd = "object",
           Proper(S, q), Allowed(S, q), Room(q, S)
    PROVE  Answers(S, q, Outcomes(S, q))
<1> DEFINE i == q.id
           o == S[i]
           outcomes == handle_command(S, i, q.code, q.args)
<1>1. Exists(S, i) /\ i \in DOMAIN S /\ o # NULL /\ o.type \in ObjectTypes /\ WellFormed(S)
  BY SlotFacts, ObjectFields DEF Proper, Exists, Good
<1>2. Outcomes(S, q) = outcomes
  <2>1. Outcomes(S, q) = reply_object_command(S, i, q.code, q.args)
    BY DEF Outcomes
  <2> QED BY <1>1, <2>1 DEF reply_object_command
<1>3. q.type = o.type
  BY DEF Proper
<1>4. PICK k \in Calls(o.type) : k = TheCall(o.type, q.code) /\ k[1] = q.code
                                 /\ ArgumentsFit(S, k[2], q.args)
  BY <1>3 DEF Proper
<1>5. \A a \in outcomes : WellFormed(a.objects)
  <2>1. AllGood(outcomes)
    BY <1>1, HandledGood DEF Careful
  <2> QED BY <2>1 DEF AllGood, Good
<1>6. ASSUME Makes(q) = {},
             Quiet(S, outcomes, k[3], IF o.type = OBJ_LEARNING_ALGORITHM THEN 4 ELSE 3)
      PROVE  Answers(S, q, outcomes)
  <2> HIDE DEF outcomes
  <2> QED BY <1>1, <1>3, <1>4, <1>5, <1>6, QuietAnswers
<1>7. CASE o.type = OBJ_LOGGER
  <2>1. outcomes = logger_command(S, k[1], q.args)
    BY <1>4, <1>7 DEF handle_command
  <2>2. k \in logger_calls
    BY <1>4, <1>7 DEF Calls
  <2>3. Quiet(S, outcomes, k[3], 3)
    BY <1>1, <1>4, <2>1, <2>2, LoggerQuiet
  <2>4. Makes(q) = {}
    BY <1>3, <1>7 DEF Makes
  <2> HIDE DEF outcomes
  <2> QED BY <1>2, <1>6, <1>7, <2>3, <2>4
<1>8. CASE o.type = OBJ_NORMALIZER
  <2>1. outcomes = normalizer_command(S, k[1], q.args)
    BY <1>4, <1>8 DEF handle_command
  <2>2. k \in normalizer_calls
    BY <1>4, <1>8 DEF Calls
  <2>3. Quiet(S, outcomes, k[3], 3)
    BY <1>1, <1>4, <2>1, <2>2, NormalizerQuiet
  <2>4. Makes(q) = {}
    BY <1>3, <1>8 DEF Makes
  <2> HIDE DEF outcomes
  <2> QED BY <1>2, <1>6, <1>8, <2>3, <2>4
<1>9. CASE o.type = OBJ_KNOWLEDGEBASE_ITERATOR
  <2>1. outcomes = iterator_command(S, i, k[1], q.args)
    BY <1>4, <1>9 DEF handle_command
  <2>2. k \in iterated_calls
    BY <1>4, <1>9 DEF Calls
  <2>3. Quiet(S, outcomes, k[3], 3)
    BY <1>1, <1>4, <1>9, <2>1, <2>2, IteratorQuiet DEF Holds
  <2>4. Makes(q) = {}
    BY <1>3, <1>9 DEF Makes
  <2> HIDE DEF outcomes
  <2> QED BY <1>2, <1>6, <1>9, <2>3, <2>4
<1>10. CASE o.type = OBJ_LEARNING_ALGORITHM
  <2>1. outcomes = algorithm_command(S, i, k[1], q.args)
    BY <1>4, <1>10 DEF handle_command
  <2>2. k \in algorithm_calls \cup link_calls
    BY <1>4, <1>10 DEF Calls
  <2>3. /\ k[1] # 42
        /\ k[1] = 11 => o.logger # None
        /\ k[1] = 16 => o.normalizer # None
    BY <1>1, <1>4, <1>10 DEF Allowed
  <2>4. Quiet(S, outcomes, k[3], 4)
    BY <1>1, <1>4, <1>10, <2>1, <2>2, <2>3, AlgorithmQuiet DEF Holds
  <2>5. Makes(q) = {}
    BY <1>3, <1>10 DEF Makes
  <2> HIDE DEF outcomes
  <2> QED BY <1>2, <1>6, <1>10, <2>4, <2>5
<1>11. CASE o.type = OBJ_KNOWLEDGEBASE
  <2>1. outcomes = knowledgebase_command(S, i, k[1], q.args)
    BY <1>4, <1>11 DEF handle_command
  <2>2. k \in knowledgebase_calls \cup iterator_calls /\ Holds(S, i, OBJ_KNOWLEDGEBASE)
    BY <1>1, <1>4, <1>11 DEF Calls, Holds
  <2>3. CASE k[1] \notin {25} \cup 30..33
    <3>1. k[1] \in {1, 27, 40, 41, 50} => \A j \in DOMAIN S : S[j] # NULL => S[j].cursor # i
      BY <1>1, <1>4, <1>11 DEF Allowed, Shrinks, Exists
    <3>2. k \in knowledgebase_calls
      BY <2>2, <2>3 DEF iterator_calls
    <3>3. Quiet(S, outcomes, k[3], 3)
      BY <1>1, <1>4, <2>1, <2>3, <3>1, <3>2, KnowledgebaseQuiet
    <3>4. Makes(q) = {}
      BY <1>3, <1>4, <1>11, <2>3 DEF Makes
    <3> HIDE DEF outcomes
    <3> QED BY <1>2, <1>6, <1>11, <3>3, <3>4
  <2>4. CASE k[1] \in {25} \cup 30..33
    <3>1. k[2] = "nothing" /\ k[3] = "result"
      BY <2>2, <2>4 DEF knowledgebase_calls, iterator_calls
    <3>2. q.args = <<>>
      BY <1>4, <3>1 DEF ArgumentsFit
    <3> DEFINE type == IF k[1] = 25 THEN OBJ_KNOWLEDGEBASE ELSE OBJ_KNOWLEDGEBASE_ITERATOR
    <3>3. Making(S, outcomes, type)
      BY <2>1, <2>2, <2>4, <3>2, KnowledgebaseMaking
    <3>4. Makes(q) = {type}
      BY <1>3, <1>4, <1>11, <2>4 DEF Makes
    <3>5. NextSlot(S) < MaxObjects
      BY <3>4 DEF Room
    <3> HIDE DEF type, outcomes
    <3> QED BY <1>1, <1>2, <1>3, <1>4, <3>1, <3>3, <3>4, <3>5, MakingAnswers
  <2> QED BY <2>3, <2>4
<1> QED BY <1>1, <1>7, <1>8, <1>9, <1>10, <1>11

(***************************************************************************)
(* Whatever a careful client asks for, the answer is right.                *)
(***************************************************************************)
LEMMA OutcomesRight ==
    ASSUME NEW S, Careless = {}, Good(S), Fitting(S), NEW q,
           Proper(S, q), Allowed(S, q), Room(q, S)
    PROVE  Answers(S, q, Outcomes(S, q)) /\ AllGood(Outcomes(S, q))
<1>1. AllGood(Outcomes(S, q))
  <2>1. q.cmd \in Served /\ Careful
    BY DEF Served, Proper, Careful
  <2> QED BY <2>1, OutcomesGood
<1>2. CASE q.cmd = "create"
  <2>1. Outcomes(S, q) = reply_create_object(S, q.type, q.args)
    BY <1>2 DEF Outcomes
  <2>2. Making(S, Outcomes(S, q), q.type)
    BY <1>2, <2>1, CreateMaking DEF Proper, PassedToCreate
  <2>3. Makes(q) = {q.type}
    BY <1>2 DEF Makes
  <2>4. NextSlot(S) < MaxObjects
    BY <2>3 DEF Room
  <2>5. Answers(S, q, Outcomes(S, q))
    BY <1>2, <2>2, <2>3, <2>4, MakingAnswers DEF Good
  <2> QED BY <1>1, <2>5
<1>3. CASE q.cmd = "delete"
  <2> DEFINE H == HandlesOf(S)
  <2>1. Exists(S, q.id) /\ ~(get_depending_reference_count(S[q.id]) > 0)
    BY <1>3 DEF Proper, Allowed
  <2>2. Outcomes(S, q) = reply_delete_object(S, q.id)
    BY <1>3 DEF Outcomes
  <2>3. ASSUME NEW o \in Outcomes(S, q)
        PROVE  ~o.crashed /\ Fits(H, q, o.reply, o.objects) /\ Fitting(o.objects)
    <3>1. /\ ~o.crashed /\ o.reply = <<ERR_SUCCESS>>
          /\ HandlesOf(o.objects) = {s \in H : s.id # q.id}
          /\ DOMAIN o.objects = DOMAIN S
      BY <2>1, <2>2, <2>3, DeleteLeaves
    <3>2. /\ o.reply \in Seq(Int) /\ o.reply # <<>> /\ Len(o.reply) = 1 /\ o.reply[1] = 0
      BY <3>1
    <3>3. Wanted(q, o.reply) = 1
      BY <1>3, <3>2 DEF Wanted
    <3>4. StubsAfter(H, q, o.reply) = {s \in H : s.id # q.id}
      <4>1. StubsAfter(H, q, o.reply) = H \ {[id |-> q.id, type |-> q.type]}
        BY <1>3, <3>2 DEF StubsAfter
      <4>2. ASSUME NEW s \in H PROVE s.id = q.id <=> s = [id |-> q.id, type |-> q.type]
        <5>1. S[q.id].type = q.type
          BY <1>3 DEF Proper
        <5>2. s = [id |-> s.id, type |-> S[s.id].type]
          BY DEF HandlesOf
        <5> QED BY <5>1, <5>2
      <4> QED BY <4>1, <4>2
    <3> HIDE DEF H
    <3> QED BY <3>1, <3>2, <3>3, <3>4 DEF Fits, Fitting
  <2> QED BY <1>1, <2>3 DEF Answers
<1>4. CASE q.cmd = "object"
  BY <1>1, <1>4, ObjectAnswers
<1>5. CASE q.cmd \in {"type", "hello", "disconnect"}
  BY <1>1, <1>5, PlainAnswers
<1> QED BY <1>2, <1>3, <1>4, <1>5 DEF Proper

(***************************************************************************)
(* What a stub passes with a method fits the objects, if the handles do.   *)
(***************************************************************************)
LEMMA ArgumentsAreThere ==
    ASSUME NEW c, NEW S, WellFormed(S), stubs[c] = HandlesOf(S), NEW type, NEW code,
           NEW args \in Arguments(c, type, code)
    PROVE  ArgumentsFit(S, TheCall(type, code)[2], args)
<1> DEFINE passed == TheCall(type, code)[2]
<1>1. ASSUME NEW t, args \in Handles(c, t) PROVE \E i : Holds(S, i, t) /\ args = <<i>>
  <2>1. PICK s \in stubs[c] : s.type = t /\ args = <<s.id>>
    BY <1>1 DEF Handles
  <2>2. s.id \in DOMAIN S /\ S[s.id] # NULL /\ S[s.id].type = s.type
    BY HandleFacts
  <2> QED BY <2>1, <2>2 DEF Holds
<1>2. args \in CASE passed = "nothing" -> {<<>>}
                 [] passed = "number" -> {<<1>>}
                 [] passed = "data" -> {<<Data>>}
                 [] passed = "logger" -> Handles(c, OBJ_LOGGER)
                 [] passed = "knowledgebase" -> Handles(c, OBJ_KNOWLEDGEBASE)
                 [] passed = "iterator" -> Handles(c, OBJ_KNOWLEDGEBASE_ITERATOR)
                 [] passed = "normalizer" -> Handles(c, OBJ_NORMALIZER)
  BY Zenon DEF Arguments
<1> HIDE DEF passed
<1>3. passed = "nothing" => args = <<>>
  BY <1>2
<1>4. passed = "number" => args = <<1>>
  BY <1>2
<1>5. passed = "data" => args = <<Data>>
  BY <1>2
<1>6. passed = "logger" => args \in Handles(c, OBJ_LOGGER)
  BY <1>2
<1>7. passed = "knowledgebase" => args \in Handles(c, OBJ_KNOWLEDGEBASE)
  BY <1>2
<1>8. passed = "iterator" => args \in Handles(c, OBJ_KNOWLEDGEBASE_ITERATOR)
  BY <1>2
<1>9. passed = "normalizer" => args \in Handles(c, OBJ_NORMALIZER)
  BY <1>2
<1>10. ArgumentsFit(S, passed, args)
  BY <1>1, <1>3, <1>4, <1>5, <1>6, <1>7, <1>8, <1>9 DEF ArgumentsFit
<1> QED BY <1>10 DEF passed

(***************************************************************************)
(* The requests of a client whose handles fit its objects.                 *)
(***************************************************************************)
LEMMA RequestsProper ==
    ASSUME NEW c \in Clients, NEW S, Good(S), stubs[c] = HandlesOf(S), NEW q \in Requests(c)
    PROVE  Proper(S, q) /\ q = Request(q.cmd, q.type, q.id, q.code, q.args)
<1>1. \A s \in stubs[c] : Exists(S, s.id) /\ S[s.id].type = s.type
  BY HandleFacts DEF Good, Exists
<1>2. \A cmd, type, id, code, args :
        LET r == Request(cmd, type, id, code, args) IN
        r.cmd = cmd /\ r.type = type /\ r.id = id /\ r.code = code /\ r.args = args
  BY DEF Request
<1>3. CASE q \in create_requests(c)
  <2>1. PICK type \in Types[c] :
          q = Request("create", type, 0, 0, CASE type = OBJ_LEARNING_ALGORITHM -> <<1, 1>>
                                              [] type = OBJ_NORMALIZER -> <<1>>
                                              [] OTHER -> <<>>)
    BY <1>3, Zenon DEF create_requests
  <2>2. type \in ObjectTypes
    BY TypesAssumption
  <2> QED BY <1>2, <2>1, <2>2 DEF Proper
<1>4. CASE q \in object_requests(c)
  <2>1. PICK s \in stubs[c], k \in Commands[c] :
          /\ k[1] = s.type
          /\ \E args \in Arguments(c, s.type, k[2]) : q = Request("object", s.type, s.id, k[2], args)
    BY <1>4 DEF object_requests
  <2>2. PICK args \in Arguments(c, s.type, k[2]) : q = Request("object", s.type, s.id, k[2], args)
    BY <2>1
  <2> DEFINE m == TheCall(s.type, k[2])
  <2>3. m \in Calls(s.type) /\ m[1] = k[2]
    <3>1. \E l \in Calls(s.type) : l[1] = k[2]
      BY <2>1, CommandsAssumption
    <3> QED BY <3>1 DEF TheCall
  <2>4. ArgumentsFit(S, m[2], args)
    BY ArgumentsAreThere DEF Good
  <2>5. /\ q.cmd = "object" /\ q.type = s.type /\ q.id = s.id /\ q.code = k[2] /\ q.args = args
        /\ q = Request(q.cmd, q.type, q.id, q.code, q.args)
    BY <1>2, <2>2
  <2>6. Exists(S, q.id) /\ S[q.id].type = s.type
    BY <1>1, <2>5
  <2>7. m = TheCall(q.type, q.code)
    BY <2>5
  <2> HIDE DEF m
  <2> QED BY <2>3, <2>4, <2>5, <2>6, <2>7 DEF Proper
<1>5. CASE q \in {Request(cmd, s.type, s.id, 0, <<>>) : cmd \in {"delete", "type"}, s \in stubs[c]}
  <2>1. PICK cmd \in {"delete", "type"}, s \in stubs[c] : q = Request(cmd, s.type, s.id, 0, <<>>)
    BY <1>5
  <2> QED BY <1>1, <1>2, <2>1 DEF Proper
<1>6. CASE q \in {Request(cmd, None, 0, 0, <<>>) : cmd \in {"hello", "disconnect"}}
  <2>1. PICK cmd \in {"hello", "disconnect"} : q = Request(cmd, None, 0, 0, <<>>)
    BY <1>6
  <2> QED BY <1>2, <2>1 DEF Proper
<1> QED BY <1>3, <1>4, <1>5, <1>6 DEF Requests

-----------------------------------------------------------------------------
(* The steps of the system.                                                  *)

Fine(s, n, r, in, H, O) ==
    /\ InPhase(s, n, r, in, H, O)
    /\ Good(O) /\ Fitting(O)
    /\ \A h \in H : h.id \in Nat /\ h.type \in ObjectTypes

CallInv ==
    /\ main \in {"running", "aborted"}
    /\ servant = [c \in Clients |-> servant[c]] /\ conn = [c \in Clients |-> conn[c]]
    /\ call = [c \in Clients |-> call[c]] /\ inbox = [c \in Clients |-> inbox[c]]
    /\ stubs = [c \in Clients |-> stubs[c]] /\ objects = [c \in Clients |-> objects[c]]
    /\ \A c \in Clients : Fine(servant[c], conn[c], call[c], inbox[c], stubs[c], objects[c])

(***************************************************************************)
(* A client without a handle and without objects.                          *)
(***************************************************************************)
LEMMA NoHandles == HandlesOf(<<>>) = {} /\ Good(<<>>) /\ Fitting(<<>>)
<1>1. DOMAIN <<>> = {}
  OBVIOUS
<1>2. HandlesOf(<<>>) = {}
  BY <1>1 DEF HandlesOf
<1> QED BY <1>1, <1>2, NoObjectsGood DEF Fitting

(***************************************************************************)
(* At first nobody is connected.                                           *)
(***************************************************************************)
LEMMA InitFine == Init => CallInv
<1> SUFFICES ASSUME Init PROVE CallInv
  OBVIOUS
<1>1. ASSUME NEW c \in Clients
      PROVE  /\ servant[c] = "none" /\ conn[c] = "none" /\ call[c] = NoCall
             /\ inbox[c] = <<>> /\ stubs[c] = {} /\ objects[c] = <<>>
  BY DEF Init
<1>2. Fine("none", "none", NoCall, <<>>, {}, <<>>)
  BY NoHandles DEF Fine, InPhase, NotYet
<1>3. \A c \in Clients : Fine(servant[c], conn[c], call[c], inbox[c], stubs[c], objects[c])
  BY <1>1, <1>2
<1> QED BY <1>3 DEF Init, CallInv

(***************************************************************************)
(* A step that concerns one client.                                        *)
(***************************************************************************)
LEMMA OneClientFine ==
    ASSUME CallInv, NEW c \in Clients, NEW s, NEW n, NEW r, NEW in, NEW H, NEW O,
           main' = main,
           servant' = [servant EXCEPT ![c] = s], conn' = [conn EXCEPT ![c] = n],
           call' = [call EXCEPT ![c] = r], inbox' = [inbox EXCEPT ![c] = in],
           stubs' = [stubs EXCEPT ![c] = H], objects' = [objects EXCEPT ![c] = O],
           Fine(s, n, r, in, H, O)
    PROVE  CallInv'
<1>1. /\ servant' = [d \in Clients |-> servant'[d]] /\ conn' = [d \in Clients |-> conn'[d]]
      /\ call' = [d \in Clients |-> call'[d]] /\ inbox' = [d \in Clients |-> inbox'[d]]
      /\ stubs' = [d \in Clients |-> stubs'[d]] /\ objects' = [d \in Clients |-> objects'[d]]
  BY DEF CallInv
<1>2. /\ servant'[c] = s /\ conn'[c] = n /\ call'[c] = r
      /\ inbox'[c] = in /\ stubs'[c] = H /\ objects'[c] = O
  BY DEF CallInv
<1>3. \A d \in Clients : d # c =>
        /\ servant'[d] = servant[d] /\ conn'[d] = conn[d] /\ call'[d] = call[d]
        /\ inbox'[d] = inbox[d] /\ stubs'[d] = stubs[d] /\ objects'[d] = objects[d]
  BY DEF CallInv
<1>4. ASSUME NEW d \in Clients
      PROVE  Fine(servant'[d], conn'[d], call'[d], inbox'[d], stubs'[d], objects'[d])
  <2>1. CASE d = c
    BY <1>2, <2>1
  <2>2. CASE d # c
    BY <1>3, <2>2 DEF CallInv
  <2> QED BY <2>1, <2>2
<1> QED BY <1>1, <1>4 DEF CallInv

(***************************************************************************)
(* What a step that leaves a variable alone does to one client.            *)
(***************************************************************************)
LEMMA Untouched ==
    ASSUME CallInv, NEW c \in Clients
    PROVE  /\ servant = [servant EXCEPT ![c] = servant[c]] /\ conn = [conn EXCEPT ![c] = conn[c]]
           /\ call = [call EXCEPT ![c] = call[c]] /\ inbox = [inbox EXCEPT ![c] = inbox[c]]
           /\ stubs = [stubs EXCEPT ![c] = stubs[c]]
           /\ objects = [objects EXCEPT ![c] = objects[c]]
BY DEF CallInv

(***************************************************************************)
(* A request that is marked as served reads the same answer.               *)
(***************************************************************************)
LEMMA MarkServed ==
    ASSUME NEW q, q = Request(q.cmd, q.type, q.id, q.code, q.args)
    PROVE  LET r == [q EXCEPT !.served = TRUE] IN
           /\ r.served /\ r.cmd = q.cmd
           /\ \A H, in, S : Fits(H, q, in, S) => Fits(H, r, in, S)
<1> DEFINE r == [q EXCEPT !.served = TRUE]
<1>1. r.served /\ r.cmd = q.cmd /\ r.type = q.type /\ r.id = q.id /\ r.code = q.code
  BY DEF Request
<1> HIDE DEF r
<1>2. Makes(r) = Makes(q)
  BY <1>1 DEF Makes
<1>3. \A in : Wanted(r, in) = Wanted(q, in)
  BY <1>1 DEF Wanted
<1>4. \A H, in : StubsAfter(H, r, in) = StubsAfter(H, q, in)
  BY <1>1, <1>2 DEF StubsAfter
<1>5. \A H, in, S : Fits(H, q, in, S) => Fits(H, r, in, S)
  BY <1>1, <1>3, <1>4 DEF Fits
<1> QED BY <1>1, <1>5 DEF r

(***************************************************************************)
(* A round of the main loop.                                               *)
(***************************************************************************)
LEMMA MainLoopFine ==
    ASSUME CallInv, MainLoop
    PROVE  CallInv'
<1>1. PICK incoming \in SUBSET {c \in Clients : servant[c] = "backlog"},
           ended \in SUBSET {c \in Clients : servant[c] = "zombie"} :
        servant' = [c \in Clients |->
                      IF c \in ended THEN "reaped"
                      ELSE IF c \notin incoming THEN servant[c]
                      ELSE IF conn[c] = "open" THEN "starting" ELSE "reaped"]
  BY DEF MainLoop
<1>2. /\ main' = main /\ conn' = conn /\ call' = call /\ inbox' = inbox
      /\ stubs' = stubs /\ objects' = objects
  BY DEF MainLoop
<1>3. ASSUME NEW c \in Clients
      PROVE  Fine(servant'[c], conn[c], call[c], inbox[c], stubs[c], objects[c])
  <2>1. \/ servant'[c] = servant[c]
        \/ servant[c] = "zombie" /\ servant'[c] = "reaped"
        \/ servant[c] = "backlog" /\ conn[c] = "open" /\ servant'[c] = "starting"
        \/ servant[c] = "backlog" /\ conn[c] # "open" /\ servant'[c] = "reaped"
    BY <1>1
  <2>2. Fine(servant[c], conn[c], call[c], inbox[c], stubs[c], objects[c])
    BY DEF CallInv
  <2> QED BY <2>1, <2>2 DEF Fine, InPhase, NotYet, Greeting, Idle, Asking, Answered, Leaving, Gone
<1>4. servant' = [c \in Clients |-> servant'[c]]
  BY <1>1
<1> QED BY <1>2, <1>3, <1>4 DEF CallInv

(***************************************************************************)
(* A fork that fails touches no client.                                    *)
(***************************************************************************)
LEMMA ForkFailsFine ==
    ASSUME CallInv, ForkFails
    PROVE  CallInv'
BY DEF ForkFails, CallInv

(***************************************************************************)
(* The capabilities are what a new client waits for.                       *)
(***************************************************************************)
LEMMA SendCapabilitiesFine ==
    ASSUME CallInv, NEW c \in Clients, SendCapabilities(c)
    PROVE  CallInv'
<1> DEFINE q == Request("capa", None, 0, 0, <<>>)
           r == [q EXCEPT !.served = TRUE]
           in == <<ERR_SUCCESS, Data>>
<1>1. Fine(servant[c], conn[c], call[c], inbox[c], stubs[c], objects[c])
  BY DEF CallInv
<1>2. servant[c] = "starting" /\ conn[c] = "open"
  BY DEF SendCapabilities
<1>3. Greeting(servant[c], conn[c], call[c], inbox[c], stubs[c], objects[c])
  BY <1>1, <1>2 DEF Fine, InPhase, NotYet, Idle, Asking, Answered, Leaving, Gone
<1>4. call[c] = q /\ inbox[c] = <<>> /\ stubs[c] = {} /\ objects[c] = <<>>
  BY <1>3 DEF Greeting
<1>5. q = Request(q.cmd, q.type, q.id, q.code, q.args) /\ q.cmd = "capa"
  BY DEF Request
<1>6. Fits({}, q, in, <<>>)
  <2>1. in \in Seq(Int) /\ in # <<>> /\ Len(in) = 2 /\ in[1] = ERR_SUCCESS
    OBVIOUS
  <2> HIDE DEF q, in
  <2>2. Wanted(q, in) = 2
    BY <1>5, <2>1 DEF Wanted
  <2>3. StubsAfter({}, q, in) = {}
    BY <1>5, <2>1 DEF StubsAfter, Makes
  <2> QED BY <2>1, <2>2, <2>3, NoHandles DEF Fits
<1> HIDE DEF q
<1>7. r.served /\ r.cmd = "capa" /\ Fits({}, r, in, <<>>)
  BY <1>5, <1>6, MarkServed
<1>8. call' = [call EXCEPT ![c] = r]
  BY <1>4 DEF SendCapabilities
<1>9. inbox' = [inbox EXCEPT ![c] = in]
  <2>1. <<>> \o in = in
    OBVIOUS
  <2> QED BY <1>4, <2>1 DEF SendCapabilities
<1> HIDE DEF r, in
<1>10. Fine("running", "open", r, in, {}, <<>>)
  <2>1. r # NoCall
    BY <1>7 DEF NoCall
  <2> QED BY <1>7, <2>1, NoHandles DEF Fine, InPhase, Answered
<1>11. /\ main' = main /\ servant' = [servant EXCEPT ![c] = "running"]
       /\ conn' = [conn EXCEPT ![c] = "open"] /\ stubs' = [stubs EXCEPT ![c] = {}]
       /\ objects' = [objects EXCEPT ![c] = <<>>]
  BY <1>2, <1>4, Untouched DEF SendCapabilities
<1> QED BY <1>8, <1>9, <1>10, <1>11, OneClientFine

(***************************************************************************)
(* A servant answers.                                                      *)
(***************************************************************************)
LEMMA ServeFine ==
    ASSUME CallInv, Careless = {}, NEW c \in Clients, Serve(c)
    PROVE  CallInv'
<1> DEFINE q == call[c]
           r == [q EXCEPT !.served = TRUE]
           S == objects[c]
           H == stubs[c]
<1>1. Fine(servant[c], conn[c], q, inbox[c], H, S)
  BY DEF CallInv
<1>2. servant[c] = "running" /\ conn[c] = "open" /\ q # NoCall /\ ~q.served
  BY DEF Serve
<1>3. Asking(servant[c], conn[c], q, inbox[c], H, S)
  <2> HIDE DEF q, S, H
  <2> QED BY <1>1, <1>2 DEF Fine, InPhase, NotYet, Greeting, Idle, Answered, Leaving, Gone
<1>4. /\ q = Request(q.cmd, q.type, q.id, q.code, q.args)
      /\ inbox[c] = <<>> /\ H = HandlesOf(S)
      /\ Proper(S, q) /\ Allowed(S, q) /\ Room(q, S)
  BY <1>3 DEF Asking
<1>5. PICK o \in Outcomes(S, q) :
        /\ servant' = [servant EXCEPT ![c] =
                         IF o.crashed \/ q.cmd = "disconnect" THEN "zombie" ELSE "running"]
        /\ objects' = [objects EXCEPT ![c] =
                         IF servant'[c] = "zombie" THEN <<>> ELSE o.objects]
        /\ inbox' = [inbox EXCEPT ![c] = @ \o o.reply]
  BY DEF Serve
<1>6. ~o.crashed /\ Fits(H, q, o.reply, o.objects) /\ Fitting(o.objects) /\ Good(o.objects)
  <2>1. Good(S) /\ Fitting(S)
    BY <1>1 DEF Fine
  <2> HIDE DEF q, S, H
  <2>2. Answers(S, q, Outcomes(S, q)) /\ AllGood(Outcomes(S, q))
    BY <1>4, <2>1, OutcomesRight
  <2> QED BY <1>4, <1>5, <2>2 DEF Answers, AllGood
<1> DEFINE s == IF q.cmd = "disconnect" THEN "zombie" ELSE "running"
           O == IF q.cmd = "disconnect" THEN <<>> ELSE o.objects
<1>7. servant' = [servant EXCEPT ![c] = s]
  BY <1>5, <1>6
<1>8. objects' = [objects EXCEPT ![c] = O]
  <2>1. servant'[c] = s
    BY <1>7 DEF CallInv
  <2>2. (IF servant'[c] = "zombie" THEN <<>> ELSE o.objects) = O
    BY <2>1
  <2> HIDE DEF O, s, q, S
  <2> QED BY <1>5, <2>2
<1>9. inbox' = [inbox EXCEPT ![c] = o.reply]
  <2>1. o.reply \in Seq(Int)
    BY <1>6 DEF Fits
  <2>2. <<>> \o o.reply = o.reply
    BY <2>1
  <2> QED BY <1>4, <1>5, <2>2
<1>10. call' = [call EXCEPT ![c] = r]
  BY DEF Serve
<1>11. r.served /\ r.cmd = q.cmd /\ Fits(H, r, o.reply, o.objects) /\ r # NoCall
  <2> HIDE DEF q
  <2>1. r.served /\ r.cmd = q.cmd /\ Fits(H, r, o.reply, o.objects)
    BY <1>4, <1>6, MarkServed
  <2>2. q.cmd # "none"
    BY <1>4 DEF Proper
  <2> QED BY <2>1, <2>2 DEF NoCall
<1> HIDE DEF r
<1>12. Fine(s, "open", r, o.reply, H, O)
  <2>1. Good(O) /\ Fitting(O)
    BY <1>6, NoHandles
  <2>2. \A h \in H : h.id \in Nat /\ h.type \in ObjectTypes
    BY <1>1 DEF Fine
  <2> HIDE DEF q, H
  <2>3. CASE q.cmd = "disconnect"
    <3>1. Fits(H, r, o.reply, O)
      BY <1>11, <2>3 DEF Fits
    <3>2. Leaving(s, "open", r, o.reply, H, O)
      BY <1>11, <2>3, <3>1 DEF Leaving
    <3> QED BY <2>1, <2>2, <3>2 DEF Fine, InPhase
  <2>4. CASE q.cmd # "disconnect"
    <3>1. Answered(s, "open", r, o.reply, H, O)
      BY <1>11, <2>4 DEF Answered
    <3> QED BY <2>1, <2>2, <3>1 DEF Fine, InPhase
  <2> QED BY <2>3, <2>4
<1>13. /\ main' = main /\ conn' = [conn EXCEPT ![c] = "open"]
       /\ stubs' = [stubs EXCEPT ![c] = H]
  BY <1>2, Untouched DEF Serve
<1> HIDE DEF s, O, H
<1> QED BY <1>7, <1>8, <1>9, <1>10, <1>12, <1>13, OneClientFine

(***************************************************************************)
(* A servant whose client has gone ends.                                   *)
(***************************************************************************)
LEMMA AbandonFine ==
    ASSUME CallInv, NEW c \in Clients, Abandon(c)
    PROVE  CallInv'
<1>1. Fine(servant[c], conn[c], call[c], inbox[c], stubs[c], objects[c])
  BY DEF CallInv
<1>2. servant[c] \in {"starting", "running"} /\ conn[c] = "closed"
  BY DEF Abandon
<1>3. Gone(servant[c], conn[c], call[c], inbox[c], stubs[c], objects[c])
  BY <1>1, <1>2 DEF Fine, InPhase, NotYet, Greeting, Idle, Asking, Answered, Leaving
<1>4. Fine("zombie", conn[c], call[c], inbox[c], stubs[c], <<>>)
  BY <1>1, <1>3, NoHandles DEF Fine, InPhase, Gone
<1>5. /\ main' = main /\ servant' = [servant EXCEPT ![c] = "zombie"]
      /\ objects' = [objects EXCEPT ![c] = <<>>]
      /\ conn' = [conn EXCEPT ![c] = conn[c]] /\ call' = [call EXCEPT ![c] = call[c]]
      /\ inbox' = [inbox EXCEPT ![c] = inbox[c]] /\ stubs' = [stubs EXCEPT ![c] = stubs[c]]
  BY Untouched DEF Abandon
<1> QED BY <1>4, <1>5, OneClientFine

(***************************************************************************)
(* A client that leaves leaves nothing unread.                             *)
(***************************************************************************)
LEMMA LeftFine ==
    ASSUME CallInv, NEW c \in Clients, conn[c] = "open",
           main' = main, servant' = servant, objects' = objects,
           conn' = [conn EXCEPT ![c] = "closed"], stubs' = [stubs EXCEPT ![c] = {}],
           call' = [call EXCEPT ![c] = NoCall], inbox' = [inbox EXCEPT ![c] = <<>>]
    PROVE  CallInv'
<1>1. Fine(servant[c], conn[c], call[c], inbox[c], stubs[c], objects[c])
  BY DEF CallInv
<1>2. servant[c] \in {"backlog", "starting", "running", "zombie", "reaped"}
  BY <1>1 DEF Fine, InPhase, NotYet, Greeting, Idle, Asking, Answered, Leaving, Gone
<1>3. Fine(servant[c], "closed", NoCall, <<>>, {}, objects[c])
  BY <1>1, <1>2 DEF Fine, InPhase, Gone
<1>4. /\ servant' = [servant EXCEPT ![c] = servant[c]]
      /\ objects' = [objects EXCEPT ![c] = objects[c]]
  BY Untouched
<1> QED BY <1>3, <1>4, OneClientFine

(***************************************************************************)
(* A client connects, once.                                                *)
(***************************************************************************)
LEMMA ConnectFine ==
    ASSUME CallInv, NEW c \in Clients, Connect(c)
    PROVE  CallInv'
<1> DEFINE q == Request("capa", None, 0, 0, <<>>)
<1>1. Fine(servant[c], conn[c], call[c], inbox[c], stubs[c], objects[c])
  BY DEF CallInv
<1>2. conn[c] = "none"
  BY DEF Connect
<1>3. NotYet(servant[c], conn[c], call[c], inbox[c], stubs[c], objects[c])
  BY <1>1, <1>2 DEF Fine, InPhase, Greeting, Idle, Asking, Answered, Leaving, Gone
<1>4. Fine("backlog", "open", q, inbox[c], stubs[c], objects[c])
  BY <1>1, <1>3 DEF Fine, InPhase, NotYet, Greeting
<1> HIDE DEF q
<1>5. /\ main' = main /\ servant' = [servant EXCEPT ![c] = "backlog"]
      /\ conn' = [conn EXCEPT ![c] = "open"] /\ call' = [call EXCEPT ![c] = q]
      /\ objects' = [objects EXCEPT ![c] = objects[c]]
      /\ inbox' = [inbox EXCEPT ![c] = inbox[c]] /\ stubs' = [stubs EXCEPT ![c] = stubs[c]]
  BY Untouched DEF Connect, q
<1> QED BY <1>4, <1>5, OneClientFine

(***************************************************************************)
(* A client asks for something that its handles stand for.                 *)
(***************************************************************************)
LEMMA CallFine ==
    ASSUME CallInv, NEW c \in Clients, Call(c)
    PROVE  CallInv'
<1> DEFINE S == objects[c]
           H == stubs[c]
<1>1. Fine(servant[c], conn[c], call[c], inbox[c], H, S)
  BY DEF CallInv
<1>2. conn[c] = "open" /\ call[c] = NoCall
  BY DEF Call
<1>3. Idle(servant[c], conn[c], call[c], inbox[c], H, S)
  <2>1. NoCall.cmd = "none" /\ Request("capa", None, 0, 0, <<>>).cmd = "capa"
    BY DEF NoCall, Request
  <2>2. ~Proper(S, NoCall)
    BY <2>1 DEF Proper
  <2> HIDE DEF S, H
  <2> QED BY <1>1, <1>2, <2>1, <2>2
          DEF Fine, InPhase, NotYet, Greeting, Asking, Answered, Leaving, Gone
<1>4. PICK q \in Requests(c) :
        /\ Allowed(S, q)
        /\ Makes(q) # {} => NextSlot(S) < MaxObjects
        /\ call' = [call EXCEPT ![c] = q]
  BY DEF Call
<1>5. H = HandlesOf(S) /\ inbox[c] = <<>> /\ servant[c] = "running"
  BY <1>3 DEF Idle
<1>6. Good(S)
  BY <1>1 DEF Fine
<1>7. Proper(S, q) /\ q = Request(q.cmd, q.type, q.id, q.code, q.args)
  BY <1>5, <1>6, RequestsProper
<1>8. Room(q, S)
  BY <1>4 DEF Room
<1>9. Fine(servant[c], conn[c], q, inbox[c], H, S)
  <2> HIDE DEF S, H
  <2>1. Asking(servant[c], conn[c], q, inbox[c], H, S)
    BY <1>2, <1>4, <1>5, <1>7, <1>8 DEF Asking
  <2> QED BY <1>1, <2>1 DEF Fine, InPhase
<1>10. /\ main' = main /\ servant' = [servant EXCEPT ![c] = servant[c]]
       /\ conn' = [conn EXCEPT ![c] = conn[c]]
       /\ objects' = [objects EXCEPT ![c] = S]
       /\ inbox' = [inbox EXCEPT ![c] = inbox[c]] /\ stubs' = [stubs EXCEPT ![c] = H]
  BY Untouched DEF Call, serverVars
<1> HIDE DEF S, H
<1> QED BY <1>4, <1>9, <1>10, OneClientFine

(***************************************************************************)
(* A stub reads the answer.                                                *)
(***************************************************************************)
LEMMA ReturnFine ==
    ASSUME CallInv, NEW c \in Clients, Return(c)
    PROVE  CallInv'
<1> DEFINE q == call[c]
           in == inbox[c]
           H == stubs[c]
           S == objects[c]
           wanted == Wanted(q, in)
<1>1. Fine(servant[c], conn[c], q, in, H, S)
  BY DEF CallInv
<1>3. /\ conn[c] = "open" /\ q # NoCall /\ Len(in) >= wanted
      /\ inbox' = [inbox EXCEPT ![c] = SubSeq(in, wanted + 1, Len(in))]
      /\ call' = [call EXCEPT ![c] = NoCall]
      /\ main' = main /\ servant' = servant /\ objects' = objects
  BY DEF Return, serverVars
<1>4. in # <<>>
  <2>1. wanted = 1 \/ in # <<>>
    BY DEF Wanted
  <2>2. Len(<<>>) = 0
    OBVIOUS
  <2> QED BY <1>3, <2>1, <2>2
<1>5. \/ Answered(servant[c], conn[c], q, in, H, S)
      \/ Leaving(servant[c], conn[c], q, in, H, S)
  <2> HIDE DEF q, in, H, S
  <2> QED BY <1>1, <1>3, <1>4 DEF Fine, InPhase, NotYet, Greeting, Idle, Asking, Gone
<1>6. Fits(H, q, in, S)
  BY <1>5 DEF Answered, Leaving
<1>7. inbox' = [inbox EXCEPT ![c] = <<>>]
  <2>1. in \in Seq(Int) /\ Len(in) = wanted
    BY <1>6 DEF Fits
  <2> HIDE DEF wanted, in
  <2>2. SubSeq(in, wanted + 1, Len(in)) = <<>>
    BY <2>1
  <2> QED BY <1>3, <2>2
<1>8. CASE q.cmd = "disconnect"
  <2>1. conn' = [conn EXCEPT ![c] = "closed"] /\ stubs' = [stubs EXCEPT ![c] = {}]
    BY <1>8 DEF Return, Closed
  <2> HIDE DEF wanted, q, in, H, S
  <2> QED BY <1>3, <1>7, <2>1, LeftFine
<1>9. CASE q.cmd # "disconnect"
  <2>1. conn' = conn /\ stubs' = [stubs EXCEPT ![c] = StubsAfter(H, q, in)]
    BY <1>9 DEF Return, StubsAfter
  <2>2. StubsAfter(H, q, in) = HandlesOf(S) /\ servant[c] = "running"
    BY <1>5, <1>6, <1>9 DEF Fits, Answered, Leaving
  <2>3. Good(S) /\ Fitting(S)
    BY <1>1 DEF Fine
  <2>4. \A h \in HandlesOf(S) : h.id \in Nat /\ h.type \in ObjectTypes
    BY <2>3, HandleFacts DEF Good
  <2>5. Fine(servant[c], conn[c], NoCall, <<>>, HandlesOf(S), S)
    <3> HIDE DEF S
    <3> QED BY <1>3, <2>2, <2>3, <2>4 DEF Fine, InPhase, Idle
  <2>6. /\ main' = main /\ servant' = [servant EXCEPT ![c] = servant[c]]
        /\ conn' = [conn EXCEPT ![c] = conn[c]]
        /\ objects' = [objects EXCEPT ![c] = S]
    BY <1>3, <2>1, Untouched
  <2>7. stubs' = [stubs EXCEPT ![c] = HandlesOf(S)]
    BY <2>1, <2>2
  <2>8. call' = [call EXCEPT ![c] = NoCall]
    BY <1>3
  <2> HIDE DEF S
  <2> DEFINE G == HandlesOf(S)
  <2>9. Fine(servant[c], conn[c], NoCall, <<>>, G, S) /\ stubs' = [stubs EXCEPT ![c] = G]
    BY <2>5, <2>7
  <2> HIDE DEF G, wanted, q, in, H
  <2> QED BY <1>7, <2>6, <2>8, <2>9, OneClientFine
<1> QED BY <1>8, <1>9

(***************************************************************************)
(* Every step of the main process, of a servant and of a client.           *)
(***************************************************************************)
LEMMA NextFine ==
    ASSUME CallInv, [Next]_vars, Careless = {}
    PROVE  CallInv'
<1>1. ASSUME NEW c \in Clients, Broken(c) \/ Hangup(c) PROVE CallInv'
  <2>1. /\ conn[c] = "open" /\ main' = main /\ servant' = servant /\ objects' = objects
        /\ conn' = [conn EXCEPT ![c] = "closed"] /\ stubs' = [stubs EXCEPT ![c] = {}]
        /\ call' = [call EXCEPT ![c] = NoCall] /\ inbox' = [inbox EXCEPT ![c] = <<>>]
    BY <1>1 DEF Broken, Hangup, Closed, serverVars
  <2> QED BY <2>1, LeftFine
<1>2. CASE UNCHANGED vars
  BY <1>2 DEF vars, CallInv
<1> QED BY <1>1, <1>2, MainLoopFine, ForkFailsFine, SendCapabilitiesFine, ServeFine, AbandonFine,
           ConnectFine, CallFine, ReturnFine
        DEF Next, ServantStep, ClientStep

(***************************************************************************)
(* The invariant holds in every state if the clients are careful.          *)
(***************************************************************************)
LEMMA CallInvHolds == Careless = {} => (Spec => []CallInv)
<1> HAVE Careless = {}
<1>1. CallInv /\ [Next]_vars => CallInv'
  BY NextFine
<1> QED BY InitFine, <1>1, PTL DEF Spec

(***************************************************************************)
(* Slots that fit are slots of the right type.                             *)
(***************************************************************************)
LEMMA FittingSlots ==
    ASSUME NEW S, WellFormed(S), Fitting(S)
    PROVE  Slots(S)
<1>1. PICK n \in Nat : S \in [0..(n - 1) -> Objects \cup {NULL}]
  BY DEF WellFormed
<1>2. DOMAIN S = 0..(n - 1) /\ \A i \in DOMAIN S : S[i] = NULL \/ S[i] \in Objects
  BY <1>1
<1>3. n <= MaxObjects
  <2> SUFFICES ASSUME ~(n <= MaxObjects) PROVE FALSE
    OBVIOUS
  <2>1. n - 1 \in 0..(n - 1)
    BY MaxObjectsAssumption
  <2>2. n - 1 \in 0..(MaxObjects - 1)
    BY <1>2, <2>1 DEF Fitting
  <2> QED BY <2>2, MaxObjectsAssumption
<1>4. n \in 0..MaxObjects
  BY <1>3, MaxObjectsAssumption
<1> QED BY <1>2, <1>4 DEF Slots

(***************************************************************************)
(* What the phases say of the types.                                       *)
(***************************************************************************)
LEMMA CallInvTypes == CallInv => TypeOK
<1> SUFFICES ASSUME CallInv PROVE TypeOK
  OBVIOUS
<1>1. ASSUME NEW c \in Clients
      PROVE  /\ servant[c] \in {"none", "backlog", "starting", "running", "zombie", "reaped"}
             /\ conn[c] \in {"none", "open", "closed"}
             /\ Slots(objects[c])
             /\ \A s \in stubs[c] : s.id \in Nat /\ s.type \in ObjectTypes
  <2>1. Fine(servant[c], conn[c], call[c], inbox[c], stubs[c], objects[c])
    BY DEF CallInv
  <2>2. Slots(objects[c])
    BY <2>1, FittingSlots DEF Fine, Good
  <2> QED BY <2>1, <2>2 DEF Fine, InPhase, NotYet, Greeting, Idle, Asking, Answered, Leaving, Gone
<1>2. servant \in [Clients -> {"none", "backlog", "starting", "running", "zombie", "reaped"}]
  BY <1>1 DEF CallInv
<1>3. conn \in [Clients -> {"none", "open", "closed"}]
  BY <1>1 DEF CallInv
<1> QED BY <1>1, <1>2, <1>3 DEF CallInv, TypeOK

(***************************************************************************)
(* What the phases say of a client that is not in a call, and of a servant *)
(* that has ended.                                                         *)
(***************************************************************************)
LEMMA CallInvSuffices == CallInv => HandlesMatch /\ StreamInStep /\ ServantsSurvive
<1> SUFFICES ASSUME CallInv PROVE HandlesMatch /\ StreamInStep /\ ServantsSurvive
  OBVIOUS
<1>1. NoCall.cmd = "none" /\ Request("capa", None, 0, 0, <<>>).cmd = "capa"
  BY DEF NoCall, Request
<1>2. \A S : ~Proper(S, NoCall)
  BY <1>1 DEF Proper
<1>3. ASSUME NEW c \in Clients
      PROVE  /\ conn[c] = "open" /\ call[c] = NoCall => stubs[c] = HandlesOf(objects[c])
             /\ call[c] = NoCall => inbox[c] = <<>>
             /\ servant[c] \in {"zombie", "reaped"} =>
                  conn[c] = "closed" \/ call[c].cmd = "disconnect"
  <2>1. InPhase(servant[c], conn[c], call[c], inbox[c], stubs[c], objects[c])
    BY DEF CallInv, Fine
  <2> QED BY <1>1, <1>2, <2>1
          DEF InPhase, NotYet, Greeting, Idle, Asking, Answered, Leaving, Gone
<1>4. HandlesMatch
  BY <1>3 DEF HandlesMatch, HandlesOf
<1>5. StreamInStep
  BY <1>3 DEF StreamInStep
<1>6. ServantsSurvive
  BY <1>3 DEF ServantsSurvive
<1> QED BY <1>4, <1>5, <1>6

(***************************************************************************)
(* TypeOK: the state of every process has its type, and no client has more *)
(* objects than it may come to use (servant.cpp, dispatcher.cpp).          *)
(***************************************************************************)
THEOREM TypesAreRight == Careless = {} => (Spec => []TypeOK)
BY CallInvHolds, CallInvTypes, PTL

(***************************************************************************)
(* HandlesMatch: between its calls a careful client has a handle for each  *)
(* object that its servant keeps for it and for no other, whatever objects *)
(* it has created, used and destroyed, and however slots were used again   *)
(* (DispatcherObject.java, servant.cpp, store_object and                   *)
(* reply_delete_object).                                                   *)
(***************************************************************************)
THEOREM HandlesAlwaysMatch == Careless = {} => (Spec => []HandlesMatch)
BY CallInvHolds, CallInvSuffices, PTL

(***************************************************************************)
(* StreamInStep: every stub reads to the last integer what the servant     *)
(* sends for its command, errors included, so the next answer begins where *)
(* the client expects it (Dispatcher*.java, co_*.cpp, handle_command).     *)
(***************************************************************************)
THEOREM StreamStaysInStep == Careless = {} => (Spec => []StreamInStep)
BY CallInvHolds, CallInvSuffices, PTL

(***************************************************************************)
(* ServantsSurvive: no command of a careful client makes its servant       *)
(* follow a reference to a slot that was freed or to a node that is gone;  *)
(* a servant ends only when its client leaves (servant.cpp, serve).        *)
(***************************************************************************)
THEOREM ServantsDoSurvive == Careless = {} => (Spec => []ServantsSurvive)
BY CallInvHolds, CallInvSuffices, PTL

=============================================================================
