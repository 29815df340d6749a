SPECIFICATION StorageSpec
CONSTANTS
    a1 = a1
    a2 = a2
    a3 = a3
    a4 = a4
    a5 = a5
    a6 = a6
    s1 = s1
    s2 = s2
    TableName = {"T"}
    ColumnName = {"k", "v"}
    IntValue = {1, 2}
    Str = {s1, s2}
    Addr = {a1, a2, a3, a4, a5, a6}
    Free = Free
    Junk = Junk
    DefaultCapacity = 1
    AllocMayFail = FALSE
    MaxTables = 1
    MaxColumns = 2
    MaxRows = 3
SYMMETRY AddrSymmetry
INVARIANTS TypeOK CapacityIsAllocated RowsOwnTheirStrings NoLostStrings NoJunkRead NoCrash DeinitReleasesAll
PROPERTY ImplementsRowStore
CHECK_DEADLOCK FALSE
