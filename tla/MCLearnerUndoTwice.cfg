CONSTANTS
    Symbols <- MCSymbols
    Answers = {"yes", "no"}
    NoAnswer = NoAnswer
    Filter <- MCFilter
    TSMod = 4096
    Targets <- MCSmallTargets
    Reject = "no"
    Garbage = {0}
    MaxCounterexample = 3
    MaxActivations = 6
    MaxReloads = 1
    MaxUndos <- MCTwoUndos
SPECIFICATION Spec
INVARIANT SuccessorsPresent
CHECK_DEADLOCK FALSE
