---------------------------- MODULE MCDispatcher ----------------------------
(* Instances of Dispatcher for TLC: one client that works with objects and one *)
(* that connects, says hello and leaves; and a single client that destroys     *)
(* objects that are in use.                                                    *)
EXTENDS Dispatcher

CONSTANTS worker, visitor

MCClients == {worker, visitor}

\* One code of each group of commands that have the same effect on the objects.
WorkerCommands ==
    ({OBJ_LOGGER} \X {0})
      \cup ({OBJ_KNOWLEDGEBASE} \X {20, 27, 30, 41})
      \cup ({OBJ_KNOWLEDGEBASE_ITERATOR} \X {1, 21, 30})
      \cup ({OBJ_LEARNING_ALGORITHM} \X {10, 11, 12, 13, 14, 16, 41, 42})

\* A client that destroys objects in use keeps handles whose slots may be used again for
\* objects of other classes.  These codes have, in whichever class, no reply that is longer
\* than what the stub reads: nothing piles up in the inbox.
DestroyerCommands ==
    ({OBJ_KNOWLEDGEBASE} \X {25, 30, 32})
      \cup ({OBJ_KNOWLEDGEBASE_ITERATOR} \X {1, 21})
      \cup ({OBJ_LEARNING_ALGORITHM} \X {12, 13})

MCCommands == [c \in MCClients |-> IF c = worker THEN WorkerCommands ELSE {}]
MCDestroyerCommands == [c \in {worker} |-> DestroyerCommands]
MCDestroyerTypes == [c \in {worker} |->
    {OBJ_KNOWLEDGEBASE, OBJ_KNOWLEDGEBASE_ITERATOR, OBJ_LEARNING_ALGORITHM}]
MCTypes == [c \in MCClients |-> IF c = worker THEN ObjectTypes ELSE {}]

=============================================================================
