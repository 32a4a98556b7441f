CONSTANTS
    AlphabetSize = 2
    Texts <- MCTexts
    Streams <- MCStreams
    Conjectures <- MCConjectures
    Others <- MCOthers
    AntichainFrom = 3
    Careless <- MCNothing
    MaxStates = 3
    MaxMonoid = 12
    MaxOperations = 3
    WordLength = 4
    WitnessLength = 5
SPECIFICATION Spec
INVARIANTS QuestionsRight MinimalMeansMinimal ClassesRight
PROPERTY OperationsRight
CHECK_DEADLOCK FALSE
