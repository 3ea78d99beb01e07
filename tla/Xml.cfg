SPECIFICATION Spec
CONSTANTS
    Names = {"a", "b"}
    MaxNodes = 5
    MaxTokens = 5
    MaxEdits = 2
    MaxText = 5
INVARIANTS OneList ReadAsSent
PROPERTY KeepsTree
CHECK_DEADLOCK FALSE
