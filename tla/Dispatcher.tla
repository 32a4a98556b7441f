----------------------------- MODULE Dispatcher -----------------------------
(***************************************************************************)
(* The dispatcher and its clients.  The main process accepts connections   *)
(* and forks one servant per client; the servant executes the commands of  *)
(* its client one by one; the client is a program on top of jalf, whose    *)
(* DispatcherFactory writes a request and waits for the reply.             *)
(*                                                                         *)
(* The servant checks little of what it is told.  Careless names the       *)
(* unchecked things that clients do nevertheless; with Careless = {} the   *)
(* properties below say that the rest is enough.                           *)
(***************************************************************************)
EXTENDS Servant

CONSTANTS
    Clients,      \* programs that connect to the dispatcher
    Commands,     \* Commands[c]: the <<type of object, code>> that client c sends
    Types,        \* Types[c]: the types of objects that client c creates
    MaxObjects,   \* bound: slots that a client may come to use
    Careless      \* what clients do although nobody checks it

Carelessness == {"same_normalizer", "unset_none", "assign_iterator", "destroy_used",
                 "shrink_under_iterator", "counterexample"}

ASSUME CarelessAssumption == Careless \subseteq Carelessness
ASSUME MaxObjectsAssumption == MaxObjects \in Nat
ASSUME TypesAssumption == \A c \in Clients : Types[c] \subseteq ObjectTypes

VARIABLES
    main,      \* the listening process: "running" or "aborted"
    servant,   \* servant[c]: "none", "backlog", "starting", "running", "zombie", "reaped"
    objects,   \* objects[c]: the slots of c's servant
    conn,      \* conn[c]: the socket of client c: "none", "open" or "closed"
    call,      \* call[c]: the request that c waits for, or NoCall
    inbox,     \* inbox[c]: integers that were sent to c and that c has not read
    stubs      \* stubs[c]: the handles [id, type] that c has not destroyed

vars == <<main, servant, objects, conn, call, inbox, stubs>>
serverVars == <<main, servant, objects>>

NoCall == [cmd |-> "none", served |-> FALSE]

\* A request of a stub of some type for the object in slot id; a request to create an
\* object names a type only.
Request(cmd, type, id, code, args) ==
    [cmd |-> cmd, type |-> type, id |-> id, code |-> code, args |-> args, served |-> FALSE]

Init ==
    /\ main = "running"
    /\ servant = [c \in Clients |-> "none"]
    /\ objects = [c \in Clients |-> <<>>]
    /\ conn = [c \in Clients |-> "none"]
    /\ call = [c \in Clients |-> NoCall]
    /\ inbox = [c \in Clients |-> <<>>]
    /\ stubs = [c \in Clients |-> {}]

-----------------------------------------------------------------------------
(* The main process.                                                         *)

\* Mutant: children are reaped only after a new connection.
MainLoop_reaps_late ==
    /\ main = "running"
    /\ \E incoming \in {c \in Clients : servant[c] = "backlog"},
          ended \in SUBSET {c \in Clients : servant[c] = "zombie"} :
         /\ Cardinality(ended) <= 1
         /\ servant' = [c \in Clients |->
                          IF c \in ended THEN "reaped"
                          ELSE IF c # incoming THEN servant[c]
                          ELSE IF conn[c] = "open" THEN "starting" ELSE "reaped"]
    /\ UNCHANGED <<main, objects, conn, call, inbox, stubs>>

\* One round of the loop: accept a connection if there is one, fork unless the client
\* has left already, then reap one child that has ended.
MainLoop ==
    /\ main = "running"
    /\ \E incoming \in SUBSET {c \in Clients : servant[c] = "backlog"},
          ended \in SUBSET {c \in Clients : servant[c] = "zombie"} :
         /\ Cardinality(incoming) <= 1 /\ Cardinality(ended) <= 1
         /\ incoming = {} => ~ \E c \in Clients : servant[c] = "backlog"
         /\ ended = {} => ~ \E c \in Clients : servant[c] = "zombie"
         /\ incoming \cup ended # {}
         /\ servant' = [c \in Clients |->
                          IF c \in ended THEN "reaped"
                          ELSE IF c \notin incoming THEN servant[c]
                          ELSE IF conn[c] = "open" THEN "starting" ELSE "reaped"]
    /\ UNCHANGED <<main, objects, conn, call, inbox, stubs>>

\* fork() fails: the main process gives up and does not reap; the children go on.
ForkFails ==
    /\ main = "running"
    /\ \E c \in Clients : servant[c] = "backlog" /\ conn[c] = "open"
    /\ main' = "aborted"
    /\ UNCHANGED <<servant, objects, conn, call, inbox, stubs>>

-----------------------------------------------------------------------------
(* A servant.                                                                *)

\* The first thing that a servant does is to send its capabilities.
SendCapabilities(c) ==
    /\ servant[c] = "starting" /\ conn[c] = "open"
    /\ servant' = [servant EXCEPT ![c] = "running"]
    /\ inbox' = [inbox EXCEPT ![c] = @ \o <<ERR_SUCCESS, Data>>]
    /\ call' = [call EXCEPT ![c].served = TRUE]
    /\ UNCHANGED <<main, objects, conn, stubs>>

Serve(c) ==
    /\ servant[c] = "running" /\ conn[c] = "open"
    /\ call[c] # NoCall /\ ~call[c].served
    /\ \E outcome \in Outcomes(objects[c], call[c]) :
         /\ servant' = [servant EXCEPT ![c] =
                          IF outcome.crashed \/ call[c].cmd = "disconnect"
                          THEN "zombie" ELSE "running"]
         /\ objects' = [objects EXCEPT ![c] =
                          IF servant'[c] = "zombie" THEN <<>> ELSE outcome.objects]
         /\ inbox' = [inbox EXCEPT ![c] = @ \o outcome.reply]
    /\ call' = [call EXCEPT ![c].served = TRUE]
    /\ UNCHANGED <<main, conn, stubs>>

\* A receive or a send fails because the client has gone: the servant ends, and what
\* it was doing for the client is lost with it.
Abandon(c) ==
    /\ servant[c] \in {"starting", "running"} /\ conn[c] = "closed"
    /\ servant' = [servant EXCEPT ![c] = "zombie"]
    /\ objects' = [objects EXCEPT ![c] = <<>>]
    /\ UNCHANGED <<main, conn, call, inbox, stubs>>

ServantStep(c) == SendCapabilities(c) \/ Serve(c) \/ Abandon(c)

-----------------------------------------------------------------------------
(* A client: DispatcherFactory and the DispatcherObjects made by it.         *)

Closed(c) == conn' = [conn EXCEPT ![c] = "closed"] /\ stubs' = [stubs EXCEPT ![c] = {}]

\* The constructor of the factory connects and waits for the capabilities.
Connect(c) ==
    /\ main = "running" /\ conn[c] = "none"
    /\ conn' = [conn EXCEPT ![c] = "open"]
    /\ servant' = [servant EXCEPT ![c] = "backlog"]
    /\ call' = [call EXCEPT ![c] = Request("capa", None, 0, 0, <<>>)]
    /\ UNCHANGED <<main, objects, inbox, stubs>>

\* The calls of the stubs, by class: the code, what is passed with it, and what the stub
\* reads after an errno that says success.  "optional" is a flag that tells whether more
\* follows.
logger_calls == {<<0, "nothing", "result">>, <<1, "number", "nothing">>}

\* jalf itself has no use for 12, 13, 16, 25 and 26; they are as the protocol describes them.
knowledgebase_calls ==
    (({0, 5, 6, 28, 29} \cup 10..17) \X {"nothing"} \X {"result"})
      \cup {<<1, "data", "nothing">>, <<20, "data", "optional">>, <<21, "data", "optional">>, <<22, "data", "result">>,
            <<25, "nothing", "result">>, <<26, "knowledgebase", "result">>,
            <<27, "data", "nothing">>, <<40, "nothing", "nothing">>,
            <<41, "nothing", "nothing">>, <<50, "number", "result">>}

iterator_calls == (30..33) \X {"nothing"} \X {"result"}   \* new iterators
\* Of these jalf uses 2, 20 and 30: it compares iterators, reads words and moves on.
iterated_calls ==
    {<<0, "nothing", "result">>, <<1, "iterator", "nothing">>, <<2, "iterator", "result">>,
     <<10, "nothing", "result">>, <<20, "nothing", "result">>, <<21, "nothing", "optional">>,
     <<30, "nothing", "nothing">>, <<31, "number", "result">>}

algorithm_calls ==
    ({0, 2, 4, 20, 21, 30} \X {"nothing"} \X {"result"})
      \cup {<<1, "data", "nothing">>, <<3, "data", "result">>, <<31, "number", "nothing">>,
            <<40, "nothing", "result">>, <<41, "nothing", "optional">>,
            <<42, "data", "result">>, <<50, "nothing", "result">>,
            <<51, "nothing", "nothing">>}
link_calls ==
    {<<10, "logger", "nothing">>, <<11, "nothing", "nothing">>,
     <<12, "knowledgebase", "nothing">>, <<13, "nothing", "result">>,
     <<14, "normalizer", "nothing">>, <<15, "nothing", "result">>,
     <<16, "nothing", "nothing">>}

normalizer_calls ==
    {<<0, "nothing", "result">>, <<1, "data", "nothing">>, <<10, "nothing", "result">>}

Calls(type) ==
    CASE type = OBJ_LOGGER -> logger_calls
      [] type = OBJ_KNOWLEDGEBASE -> knowledgebase_calls \cup iterator_calls
      [] type = OBJ_KNOWLEDGEBASE_ITERATOR -> iterated_calls
      [] type = OBJ_LEARNING_ALGORITHM -> algorithm_calls \cup link_calls
      [] type = OBJ_NORMALIZER -> normalizer_calls
TheCall(type, code) == CHOOSE k \in Calls(type) : k[1] = code

\* A client sends what the stub of an object has a method for.
ASSUME CommandsAssumption ==
    \A c \in Clients : \A k \in Commands[c] :
        k[1] \in ObjectTypes /\ \E m \in Calls(k[1]) : m[1] = k[2]

Handles(c, type) == {<<s.id>> : s \in {t \in stubs[c] : t.type = type}}
Arguments(c, type, code) ==
    LET passed == TheCall(type, code)[2]
    IN  CASE passed = "nothing" -> {<<>>}
          [] passed = "number" -> {<<1>>}
          [] passed = "data" -> {<<Data>>}
          [] passed = "logger" -> Handles(c, OBJ_LOGGER)
          [] passed = "knowledgebase" -> Handles(c, OBJ_KNOWLEDGEBASE)
          [] passed = "iterator" -> Handles(c, OBJ_KNOWLEDGEBASE_ITERATOR)
          [] passed = "normalizer" -> Handles(c, OBJ_NORMALIZER)

\* The constructors of the stubs: an algorithm is made with its kind and alphabet size,
\* a normalizer with its kind.
create_requests(c) ==
    {Request("create", type, 0, 0, CASE type = OBJ_LEARNING_ALGORITHM -> <<1, 1>>
                                     [] type = OBJ_NORMALIZER -> <<1>>
                                     [] OTHER -> <<>>) : type \in Types[c]}

object_requests(c) ==
    UNION {UNION {{Request("object", s.type, s.id, k[2], args) :
                        args \in Arguments(c, s.type, k[2])} :
                     k \in {l \in Commands[c] : l[1] = s.type}} : s \in stubs[c]}

Requests(c) ==
    create_requests(c) \cup object_requests(c)
      \cup {Request(cmd, s.type, s.id, 0, <<>>) : cmd \in {"delete", "type"}, s \in stubs[c]}
      \cup {Request(cmd, None, 0, 0, <<>>) : cmd \in {"hello", "disconnect"}}

\* Commands that make an object and those that may free nodes of the tree.
Makes(request) ==
    CASE request.cmd = "create" -> {request.type}
      [] request.cmd = "object" /\ request.type = OBJ_KNOWLEDGEBASE /\ request.code = 25 ->
            {OBJ_KNOWLEDGEBASE}
      [] request.cmd = "object" /\ request.type = OBJ_KNOWLEDGEBASE /\ request.code \in 30..33 ->
            {OBJ_KNOWLEDGEBASE_ITERATOR}
      [] OTHER -> {}
Shrinks(o, request) ==
    request.cmd = "object" /\ o.type = OBJ_KNOWLEDGEBASE /\ request.code \in {1, 27, 40, 41, 50}

\* What a careful client does not ask for: the servant would do it, and lose track of
\* references, use an iterator into freed memory, or answer with the wrong integers.
Allowed(slots, request) ==
    LET o == slots[request.id]
        Sends(type, codes) == request.cmd = "object" /\ o.type = type /\ request.code \in codes
    IN  request.cmd \in {"delete", "object"} /\ Exists(slots, request.id) =>
          /\ "same_normalizer" \notin Careless =>
               ~(Sends(OBJ_LEARNING_ALGORITHM, {14}) /\ request.args[1] = o.normalizer)
          /\ "unset_none" \notin Careless =>
               /\ ~(Sends(OBJ_LEARNING_ALGORITHM, {11}) /\ o.logger = None)
               /\ ~(Sends(OBJ_LEARNING_ALGORITHM, {16}) /\ o.normalizer = None)
          /\ "assign_iterator" \notin Careless =>
               (Sends(OBJ_KNOWLEDGEBASE_ITERATOR, {1}) /\ Exists(slots, request.args[1]) =>
                  slots[request.args[1]].cursor \in {None, o.knowledgebase})
          /\ "destroy_used" \notin Careless =>
               ~(request.cmd = "delete" /\ get_depending_reference_count(o) > 0)
          /\ "shrink_under_iterator" \notin Careless =>
               (Shrinks(o, request) => \A i \in DOMAIN slots :
                                         Exists(slots, i) => slots[i].cursor # request.id)
          /\ "counterexample" \notin Careless => ~Sends(OBJ_LEARNING_ALGORITHM, {42})

\* The factory is a monitor: there is one request at a time.
Call(c) ==
    /\ conn[c] = "open" /\ call[c] = NoCall
    /\ \E request \in Requests(c) :
         /\ Allowed(objects[c], request)
         /\ Makes(request) # {} => NextSlot(objects[c]) < MaxObjects
         /\ call' = [call EXCEPT ![c] = request]
    /\ UNCHANGED <<serverVars, conn, inbox, stubs>>

\* How many integers the stub reads for a request, given those that arrived.
Wanted(request, in) ==
    IF in = <<>> THEN 1
    ELSE IF in[1] # ERR_SUCCESS \/ request.cmd \in {"delete", "disconnect"} THEN 1
    ELSE IF request.cmd # "object" THEN 2
    ELSE LET read == TheCall(request.type, request.code)[3]
         IN  IF read = "nothing" THEN 1
             ELSE IF read = "optional" /\ Len(in) >= 2 /\ in[2] # 0
             THEN IF request.type = OBJ_LEARNING_ALGORITHM THEN 4 ELSE 3
             ELSE 2

\* The stub has what it waits for.  An error is thrown to the caller: destroy() does so
\* for ERR_UNRESOLVED_REFERENCES_REMOVED too, and keeps the handle, although the object
\* is gone and another one may take its slot.
Return(c) ==
    LET request == call[c]
        wanted == Wanted(request, inbox[c])
        success == inbox[c][1] = ERR_SUCCESS
    IN  /\ conn[c] = "open" /\ request # NoCall
        /\ Len(inbox[c]) >= wanted
        /\ inbox' = [inbox EXCEPT ![c] = SubSeq(@, wanted + 1, Len(@))]
        /\ call' = [call EXCEPT ![c] = NoCall]
        /\ IF request.cmd = "disconnect" THEN Closed(c)
           ELSE /\ stubs' = [stubs EXCEPT ![c] =
                      IF ~success THEN @
                      ELSE IF request.cmd = "delete"
                      THEN @ \ {[id |-> request.id, type |-> request.type]}
                      ELSE @ \cup {[id |-> inbox[c][2], type |-> t] : t \in Makes(request)}]
                /\ UNCHANGED conn
        /\ UNCHANGED serverVars

\* The connection ends before the reply is complete: a DispatcherIOException.
Broken(c) ==
    /\ conn[c] = "open" /\ call[c] # NoCall
    /\ \/ servant[c] \in {"zombie", "reaped"}
       \/ servant[c] = "backlog" /\ main = "aborted"
    /\ Len(inbox[c]) < Wanted(call[c], inbox[c])
    /\ call' = [call EXCEPT ![c] = NoCall]
    /\ inbox' = [inbox EXCEPT ![c] = <<>>]
    /\ Closed(c)
    /\ UNCHANGED serverVars

\* The client program ends or is killed, at any time.
Hangup(c) ==
    /\ conn[c] = "open"
    /\ call' = [call EXCEPT ![c] = NoCall]
    /\ inbox' = [inbox EXCEPT ![c] = <<>>]
    /\ Closed(c)
    /\ UNCHANGED serverVars

ClientStep(c) == Connect(c) \/ Call(c) \/ Return(c) \/ Broken(c) \/ Hangup(c)

Next == MainLoop \/ ForkFails \/ \E c \in Clients : ServantStep(c) \/ ClientStep(c)

\* The operating system schedules every process: the main process keeps going round its
\* loop, a servant serves, and a stub reads what has arrived.
Fairness ==
    /\ WF_vars(MainLoop)
    /\ \A c \in Clients : WF_vars(ServantStep(c)) /\ WF_vars(Return(c) \/ Broken(c))

Spec == Init /\ [][Next]_vars /\ Fairness

-----------------------------------------------------------------------------
(* Properties.                                                               *)

Objects == [type : ObjectTypes,
            referring_algorithms : SUBSET Nat, referring_iterators : SUBSET Nat,
            knowledgebase : Nat \cup {None}, logger : Nat \cup {None},
            normalizer : Nat \cup {None}, cursor : Nat \cup {None, Freed}]

\* The slots of a servant are a vector of objects and null pointers.
Slots(slots) ==
    /\ \E n \in 0..MaxObjects : DOMAIN slots = 0..(n - 1)
    /\ \A i \in DOMAIN slots : slots[i] = NULL \/ slots[i] \in Objects

\* The types of the state of all processes.
TypeOK ==
    /\ main \in {"running", "aborted"}
    /\ servant \in [Clients -> {"none", "backlog", "starting", "running", "zombie", "reaped"}]
    /\ conn \in [Clients -> {"none", "open", "closed"}]
    /\ \A c \in Clients : Slots(objects[c])
    /\ \A c \in Clients : \A s \in stubs[c] : s.id \in Nat /\ s.type \in ObjectTypes

Refers(slots, a, member, i) ==
    Exists(slots, a) /\ slots[a].type = OBJ_LEARNING_ALGORITHM /\ slots[a][member] = i

MutualSlots(slots) ==
    \A i \in DOMAIN slots : slots[i] # NULL =>
      LET o == slots[i] IN
      /\ \A a \in o.referring_algorithms :
           /\ o.type \in {OBJ_LOGGER, OBJ_KNOWLEDGEBASE, OBJ_NORMALIZER}
           /\ Refers(slots, a, Member(o.type), i)
      /\ \A t \in o.referring_iterators :
           /\ o.type = OBJ_KNOWLEDGEBASE
           /\ Exists(slots, t) /\ slots[t].type = OBJ_KNOWLEDGEBASE_ITERATOR
           /\ slots[t].knowledgebase = i
      /\ o.type = OBJ_LEARNING_ALGORITHM =>
           \A type \in {OBJ_LOGGER, OBJ_KNOWLEDGEBASE, OBJ_NORMALIZER} :
             o[Member(type)] # None =>
               /\ Exists(slots, o[Member(type)])
               /\ slots[o[Member(type)]].type = type
               /\ i \in slots[o[Member(type)]].referring_algorithms
      /\ o.type = OBJ_KNOWLEDGEBASE_ITERATOR /\ o.knowledgebase # None =>
           /\ Exists(slots, o.knowledgebase)
           /\ slots[o.knowledgebase].type = OBJ_KNOWLEDGEBASE
           /\ i \in slots[o.knowledgebase].referring_iterators

\* Two objects agree on who refers to whom, and no reference names a slot that was freed
\* or reused: this is what the destructors, which follow the references, rely on
\* (co_*.cpp, ref_... and deref_...).
ReferencesMutual == \A c \in Clients : MutualSlots(objects[c])

\* An iterator that counts as valid stands in the tree of a knowledgebase that is there
\* and that will tell it when it goes: whichever of the two is deleted first, and whatever
\* takes the slot then, no iterator points at a freed node (co_knowledgebase.cpp:45,
\* co_knowledgebase_iterator.cpp:168, deref_knowledgebase).
IteratorsInPlace ==
    \A c \in Clients : \A t \in DOMAIN objects[c] :
      LET slots == objects[c]
          k == slots[t].cursor
      IN  slots[t] # NULL /\ k # None =>
            /\ k = slots[t].knowledgebase
            /\ Exists(slots, k) /\ slots[k].type = OBJ_KNOWLEDGEBASE
            /\ t \in slots[k].referring_iterators

\* The handles of a client that is not in a call are exactly the objects that its
\* servant keeps for it: no handle outlives its object, where a new object could take
\* the slot, and no object is left that nobody can delete (DispatcherObject.destroy()).
HandlesMatch ==
    \A c \in Clients : conn[c] = "open" /\ call[c] = NoCall /\ servant[c] = "running" =>
      stubs[c] = {[id |-> i, type |-> objects[c][i].type] :
                     i \in {j \in DOMAIN objects[c] : objects[c][j] # NULL}}

\* A client that is not in a call has read all that was sent to it; otherwise the next
\* reply begins with the rest of the last one.
StreamInStep ==
    \A c \in Clients : call[c] = NoCall => inbox[c] = <<>>

\* A servant ends when its client left or said goodbye, never by a crash.
ServantsSurvive ==
    \A c \in Clients : servant[c] \in {"zombie", "reaped"} =>
      conn[c] = "closed" \/ call[c].cmd = "disconnect"

\* Every call of a client returns, with a result or with an exception.
CallsReturn == \A c \in Clients : call[c] # NoCall ~> call[c] = NoCall

\* Every ended servant is reaped by the main process (waitpid in its loop), unless that
\* has given up.
ServantsReaped ==
    \A c \in Clients : servant[c] = "zombie" ~> servant[c] = "reaped" \/ main = "aborted"

=============================================================================
