SPECIFICATION ParserSpec
CONSTANTS
    NoList = NoList
    Symbol <- MCSymbol
    Statements <- MCStatements
    Inputs <- MCInputs
INVARIANTS ParserTypeOK WellFormedStatementsAreRead QueriesSuitTheInterpreter NothingInvented OnlyUnfinishedStatementsSegfault
PROPERTY ParserAnswers
CHECK_DEADLOCK FALSE
