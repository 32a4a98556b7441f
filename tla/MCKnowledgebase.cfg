CONSTANTS
    Symbols <- MCSymbols
    Answers = {"yes", "no"}
    NoAnswer = NoAnswer
    Filter <- MCFilter
    TSMod = 5
    UserWords <- MCUserWords
    MaxPrefixCount = 1
    MaxUndo = 4
SPECIFICATION PersistSpec
INVARIANTS TypeOK QueriesSound AnswerCountExact KnowledgeInThePast
PROPERTIES QueriesStayExact ImplementsLog UndoExact
