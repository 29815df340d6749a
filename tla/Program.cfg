SPECIFICATION ProgramSpec
CONSTANTS
    a1 = a1
    a2 = a2
    a3 = a3
    TableName <- MCTableName
    ColumnName <- MCColumnName
    IntValue <- MCIntValue
    Str <- MCStr
    Addr = {a1, a2, a3}
    Free = Free
    Junk = Junk
    NoList = NoList
    Missing = Missing
    DefaultCapacity = 2
    AllocMayFail = FALSE
    MaxTables = 4
    MaxColumns = 2
    MaxRows = 4
    TypeNames <- MCTypeNames
    Decimal <- MCDecimal
    NotANumber <- MCNotANumber
    StrictLibc = TRUE
    Rank <- MCRank
    Like <- MCLike
    Mod32 = 32
    Mod64 = 64
    Queries <- MCQueries
    CsvNames <- MCCsvNames
    Understood <- Statements
    Disks <- MCDisks
INVARIANTS RunsTheScript ImportedTablesAreTheFiles
PROPERTIES ImplementsSql ProgramEnds SoundScriptsFinish
CHECK_DEADLOCK FALSE
