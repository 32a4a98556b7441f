CONSTANTS
    Symbols <- MCSymbols
    Answers = {TRUE, FALSE}
    NoAnswer = NoAnswer
    Filter <- MCFilter
    TSMod = 4096
    DefaultOutput = FALSE
    Nondeterminism = 2
    Settings <- MCSettings
    Targets <- MCTargets
    Reject = FALSE
    MaxCounterexample = 5
SPECIFICATION FairSpec
INVARIANTS TypeOK ConjectureConsistent EncodingRight SearchBrackets NotLargerThanTarget MergedIsCongruence InclusionMeansNoWitness
PROPERTIES Learned
CHECK_DEADLOCK FALSE
