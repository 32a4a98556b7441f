CONSTANTS
    Symbols <- MCSymbols
    Answers = {"yes", "no"}
    NoAnswer = NoAnswer
    Filter <- MCFilter
    TSMod = 4096
    Targets <- MCTargets
    Reject = "no"
    Garbage = {0}
    MaxCounterexample = 3
    MaxActivations = 6
    MaxReloads = 1
    MaxUndos <- MCMaxUndos
SPECIFICATION Spec
INVARIANTS TypeOK SuccessorsPresent ConjectureExplainsTable ConjecturesGrow CellsKnown ReadyMeansReady
PROPERTIES Learns
CHECK_DEADLOCK FALSE
