SPECIFICATION Spec
CONSTANTS
    worker = worker
    visitor = visitor
    Clients <- MCClients
    Commands <- MCCommands
    Types <- MCTypes
    MaxObjects = 3
    Careless = {"counterexample"}
PROPERTIES CallsReturn
CHECK_DEADLOCK FALSE
