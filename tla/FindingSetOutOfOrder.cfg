SPECIFICATION HSpec
CONSTANTS
    a1 = a1
    a2 = a2
    a3 = a3
    a4 = a4
    one = one
    five = five
    abc = abc
    aPercent = aPercent
    TableName = {"T"}
    ColumnName = {"k", "v"}
    IntValue <- MCIntValue
    Str = {one, five, abc, aPercent}
    Addr = {a1, a2, a3}
    Free = Free
    Junk = Junk
    NoList = NoList
    DefaultCapacity = 2
    AllocMayFail = FALSE
    MaxTables = 1
    MaxColumns = 2
    MaxRows = 3
    TypeNames <- MCTypeNames
    Decimal <- MCDecimal
    NotANumber <- MCNotANumber
    StrictLibc = FALSE
    Rank <- MCRank
    Like <- MCLike
    Mod32 = 8
    Mod64 = 16
    Queries <- SetOutOfOrder
SYMMETRY AddrSymmetry
PROPERTY ImplementsSql
CHECK_DEADLOCK FALSE
