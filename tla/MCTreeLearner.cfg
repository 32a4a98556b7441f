CONSTANTS
    Symbols <- MCSymbols
    Answers = {"yes", "no"}
    NoAnswer = NoAnswer
    Accept = "yes"
    Filter <- MCFilter
    TSMod = 4096
    Targets <- MCTargets
    Reject = "no"
    Searches = {TRUE, FALSE}
    SaveDuring = {"transition", "split", "binary"}
    MaxCounterexample = 3
    Forgotten = {1, 4}
    MaxInterruptions = 1
SPECIFICATION Spec
INVARIANTS TypeOK LeavesInPlace TransitionsRight SearchBracketsBadPrefix LeavesGrow
PROPERTIES Learns
CHECK_DEADLOCK FALSE
