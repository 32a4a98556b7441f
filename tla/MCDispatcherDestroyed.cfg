SPECIFICATION Spec
CONSTANTS
    worker = worker
    visitor = visitor
    Clients = {worker}
    Commands <- MCDestroyerCommands
    Types <- MCDestroyerTypes
    MaxObjects = 3
    Careless = {"destroy_used"}
INVARIANTS IteratorsInPlace
CHECK_DEADLOCK FALSE
