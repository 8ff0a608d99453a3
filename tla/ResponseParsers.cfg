SPECIFICATION Spec
CONSTANTS
    Dialects <- MCDialects
    Tokens <- MCTokens
    Messages <- MCMessages
    Null = Null
    MaxLost = 2
INVARIANTS
    WholeParsed
    ToolsNotMixed
    StatusHonest
CHECK_DEADLOCK FALSE
