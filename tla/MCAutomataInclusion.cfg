CONSTANTS
    AlphabetSize = 2
    Texts <- MCTexts
    Streams <- MCStreams
    Conjectures <- MCConjectures
    Others <- MCOthers
    AntichainFrom = 3
    Careless <- MCNothing
    MaxStates = 3
    MaxMonoid = 6
    MaxOperations = 3
    WordLength = 4
    WitnessLength = 5
SPECIFICATION Spec
INVARIANT InclusionRight
CHECK_DEADLOCK FALSE
