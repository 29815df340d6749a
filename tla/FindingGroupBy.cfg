SPECIFICATION ParserSpec
CONSTANTS
    NoList = NoList
    Symbol <- MCSymbol
    Statements <- MCStatements
    Inputs <- GroupBy
PROPERTY ParserAlwaysAnswers
CHECK_DEADLOCK FALSE
