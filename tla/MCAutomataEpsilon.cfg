CONSTANTS
    AlphabetSize = 2
    Texts <- MCNothing
    Streams <- MCNothing
    Conjectures <- MCEmptyMoves
    Others <- MCOthers
    AntichainFrom = 3
    Careless <- MCEpsilon
    MaxStates = 4
    MaxMonoid = 6
    MaxOperations = 2
    WordLength = 4
    WitnessLength = 5
SPECIFICATION Spec
PROPERTY EmptyMovesRemoved
CHECK_DEADLOCK FALSE
