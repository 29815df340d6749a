SPECIFICATION ParserSpec
CONSTANTS
    NoList = NoList
    Symbol <- MCSymbol
    Statements <- MCStatements
    Inputs <- Assignments
INVARIANT UpdatesAreRead
CHECK_DEADLOCK FALSE
