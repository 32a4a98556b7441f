CONSTANTS
    Symbols <- MCSymbols
    Answers = {"yes", "no"}
    NoAnswer = NoAnswer
    Accept = "yes"
    Filter <- MCFilter
    TSMod = 4096
    Targets <- MCTargets
    Reject = "no"
    Searches = {FALSE}
    SaveDuring = {"transition", "split", "binary", "linear"}
    MaxCounterexample = 3
    Forgotten = {1, 4}
    MaxInterruptions = 1
SPECIFICATION Spec
INVARIANT LeavesInPlace
CHECK_DEADLOCK FALSE
