SPECIFICATION Spec
CONSTANTS
    worker = worker
    visitor = visitor
    Clients <- MCClients
    Commands <- MCCommands
    Types <- MCTypes
    MaxObjects = 3
    Careless = {}
INVARIANTS TypeOK ReferencesMutual HandlesMatch StreamInStep ServantsSurvive
PROPERTIES CallsReturn ServantsReaped
CHECK_DEADLOCK FALSE
