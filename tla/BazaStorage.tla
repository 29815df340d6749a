---------------------------- MODULE BazaStorage ----------------------------
(***************************************************************************)
(* The storage backend: src/storage.c and src/storage_internal.c.          *)
(*                                                                         *)
(* DB.tables is a linked list of tables; a table is a linked list of       *)
(* columns; a column points at an array of row_capacity slots of which the *)
(* first row_count hold rows.  An integer slot holds its value, a string   *)
(* slot holds the address of a string its table owns.  Memory obtained     *)
(* from malloc or realloc and not yet written is Junk.                     *)
(*                                                                         *)
(* The actions are the calls of storage.h.  StorageNext is the most        *)
(* general client of that API that keeps its rules: after table_row_add it *)
(* writes the new row once, column by column (`fill' is its cursor), it    *)
(* replaces the values of rows that exist, and it deletes rows that exist  *)
(* or not.                                                                 *)
(* BazaInterpreter drives the same actions from queries.                   *)
(***************************************************************************)
EXTENDS BazaTypes, Integers, Sequences, FiniteSets

CONSTANTS
    TableName, ColumnName,
    IntValue,           \* what an integer slot can hold
    Addr,               \* the addresses strdup can return
    Free,               \* marks an address that is not allocated
    Junk,               \* the content of memory nobody has written
    DefaultCapacity,    \* BAZA_DEFAULT_ROW_CAPACITY
    AllocMayFail,       \* whether malloc and realloc may return NULL
    MaxTables, MaxColumns, MaxRows  \* bounds on what the client asks for

ASSUME StorageAssumption ==
    /\ Free \notin Str
    /\ Junk \notin Addr
    /\ Junk \notin IntValue
    /\ DefaultCapacity \in Nat \ {0}
    /\ AllocMayFail \in BOOLEAN
    /\ MaxTables \in Nat /\ MaxColumns \in Nat /\ MaxRows \in Nat

VARIABLES
    tables,      \* DB.tables, in list order
    heap,        \* the string at each address, or Free
    tableId,     \* TABLE_ID, the static counter of itable_new
    columnId,    \* COLUMN_ID, the static counter of icolumn_new
    fill,        \* the client's position in the row it is filling
    status       \* "up", "down" after storage_deinit, or "crashed"

storageVars == <<tables, heap, tableId, columnId, fill, status>>

NoFill == [table |-> 0, row |-> 0, col |-> 0]
Filling == fill.col # 0

Slots(n) == 0 .. n - 1

----------------------------------------------------------------------------
(* Lookups.  Lists are searched from the head, so the first match wins.    *)

IsFirst(t, S) == t \in S /\ \A u \in S : t <= u

TablesNamed(name) == {t \in DOMAIN tables : tables[t].name = name}
TableNamed(name) == CHOOSE t \in TablesNamed(name) : IsFirst(t, TablesNamed(name))

TablesWithId(id) == {t \in DOMAIN tables : tables[t].id = id}
TableWithId(id) == CHOOSE t \in TablesWithId(id) : IsFirst(t, TablesWithId(id))

ColumnsNamed(tab, name) == {c \in DOMAIN tab.columns : tab.columns[c].name = name}

\* The slot pointer of column c and row r, as the cell it designates.
Cell(t, c, r) == tables[t].columns[c].data[r]

\* table_column_get_row answers NULL only past row_count itself.
RowPointer(t, r) == r <= tables[t].row_count

\* Writing through that pointer stays inside the column's allocation.
Writable(t, c, r) == RowPointer(t, r) /\ r \in DOMAIN tables[t].columns[c].data

TypeOf(t, c) == tables[t].columns[c].type
IsString(t, c) == TypeOf(t, c) = "STRING"

----------------------------------------------------------------------------
(* Operations on one table.                                                *)

NewTable(name) ==
    [id |-> tableId, name |-> name, row_count |-> 0,
     row_capacity |-> DefaultCapacity, columns |-> <<>>]

\* Faulty: malloc where realloc belongs, so growing loses the rows.
ReallocDataLosesRows(column, capacity) ==
    [column EXCEPT !.data = [i \in Slots(capacity) |-> Junk]]

\* malloc gives a block of Junk; realloc keeps what was there.
ReallocData(column, capacity) ==
    [column EXCEPT !.data =
        [i \in Slots(capacity) |->
            IF i \in DOMAIN column.data THEN column.data[i] ELSE Junk]]

\* A realloc that fails leaves the column without data.
LoseData(column) == [column EXCEPT !.data = [i \in {} |-> Junk]]

\* itable_realloc ignores what icolumn_realloc_data returns.
ReallocTable(tab, capacity, failed) ==
    [tab EXCEPT
        !.row_capacity = capacity,
        !.columns = [c \in DOMAIN tab.columns |->
            IF c \in failed THEN LoseData(tab.columns[c])
                            ELSE ReallocData(tab.columns[c], capacity)]]

FailureSets(tab) == IF AllocMayFail THEN SUBSET DOMAIN tab.columns ELSE {{}}

\* Faulty: grows one row late.
NeedsReallocLate(tab) == tab.row_count > tab.row_capacity

NeedsRealloc(tab) == tab.row_count = tab.row_capacity

\* Faulty: the last move is missed, so the last slot is in the table twice.
ShiftDownShort(column, index, size) ==
    [column EXCEPT !.data =
        [i \in DOMAIN column.data |->
            IF index <= i /\ i < size - 2 THEN column.data[i + 1]
                                          ELSE column.data[i]]]

\* Faulty: the last row takes the place of the deleted one.
ShiftDownSwaps(column, index, size) ==
    [column EXCEPT !.data =
        [i \in DOMAIN column.data |->
            IF i = index THEN column.data[size - 1] ELSE column.data[i]]]

\* icolumn_row_delete: the rows above index move one slot down; the last
\* slot keeps a stale copy.
ShiftDown(column, index, size) ==
    [column EXCEPT !.data =
        [i \in DOMAIN column.data |->
            IF index <= i /\ i < size - 1 THEN column.data[i + 1]
                                          ELSE column.data[i]]]

RemoveRow(tab, index) ==
    [tab EXCEPT
        !.row_count = @ - 1,
        !.columns = [c \in DOMAIN tab.columns |->
                        ShiftDown(tab.columns[c], index, tab.row_count)]]

----------------------------------------------------------------------------
(* free(): a set of slots <<t, c, r>> whose strings are released.          *)

StringSlots(t, rows) ==
    {s \in {t} \X (DOMAIN tables[t].columns) \X rows : IsString(s[1], s[2])}

Held(s) == Cell(s[1], s[2], s[3])

\* Every pointer designates a live string, and no two are the same.
CanFree(slots) ==
    /\ \A s \in slots : /\ s[3] \in DOMAIN tables[s[1]].columns[s[2]].data
                        /\ Held(s) \in Addr
                        /\ heap[Held(s)] # Free
    /\ \A s1, s2 \in slots : Held(s1) = Held(s2) => s1 = s2

\* Faulty: the strings are forgotten and not freed.
HeapWithoutFree(slots) == heap

HeapWithout(slots) ==
    [a \in Addr |-> IF \E s \in slots : Held(s) = a THEN Free ELSE heap[a]]

FreeAddr(h) == {a \in Addr : h[a] = Free}

Crash ==
    /\ status' = "crashed"
    /\ UNCHANGED <<tables, heap, tableId, columnId, fill>>

----------------------------------------------------------------------------
(* The calls of storage.h.                                                 *)

\* db_table_new.  A failed malloc changes nothing (RESULT_SERVER_ERROR).
\* Whether the name is already taken is not looked at.
DbTableNew(name) ==
    /\ tables' = Append(tables, NewTable(name))
    /\ tableId' = tableId + 1
    /\ UNCHANGED <<heap, columnId, fill, status>>

\* The checks of itable_column_new, in its order.
ColumnNewResult(t, name) ==
    IF tables[t].row_count > 0 THEN "RESULT_TABLE_NOT_EMPTY"
    ELSE IF ColumnsNamed(tables[t], name) # {} THEN "RESULT_DUPLICATE_COLUMN_NAME"
    ELSE "RESULT_OK"

\* Faulty: ids that count the columns of one table.
NewColumnNumbered(t, type, name) ==
    ReallocData([id |-> Len(tables[t].columns), name |-> name, type |-> type,
                 data |-> [i \in {} |-> Junk]],
                tables[t].row_capacity)

NewColumn(t, type, name) ==
    ReallocData([id |-> columnId, name |-> name, type |-> type,
                 data |-> [i \in {} |-> Junk]],
                tables[t].row_capacity)

\* Faulty: the first allocation of a column is not looked at.
TableColumnNewUnchecked(t, type, name) ==
    /\ ColumnNewResult(t, name) = "RESULT_OK"
    /\ columnId' = columnId + 1
    /\ \E column \in {NewColumn(t, type, name), LoseData(NewColumn(t, type, name))} :
          tables' = [tables EXCEPT ![t].columns = Append(@, column)]
    /\ UNCHANGED <<heap, tableId, fill, status>>

\* table_column_new.  The id is spent even when the column's data cannot be
\* allocated (RESULT_ALLOC); a column that cannot be allocated itself changes
\* nothing.
TableColumnNew(t, type, name) ==
    /\ ColumnNewResult(t, name) = "RESULT_OK"
    /\ columnId' = columnId + 1
    /\ \/ tables' = [tables EXCEPT ![t].columns = Append(@, NewColumn(t, type, name))]
       \/ AllocMayFail /\ UNCHANGED tables
    /\ UNCHANGED <<heap, tableId, fill, status>>

\* table_row_add, after which the client owes the new row's values.
TableRowAdd(t) ==
    LET grown == [tables[t] EXCEPT !.row_count = @ + 1]
    IN  /\ \E failed \in FailureSets(grown) :
              tables' = [tables EXCEPT ![t] =
                  IF NeedsRealloc(grown)
                  THEN ReallocTable(grown, grown.row_capacity * 2, failed)
                  ELSE grown]
        /\ fill' = IF grown.columns = <<>> THEN NoFill
                   ELSE [table |-> t, row |-> tables[t].row_count, col |-> 1]
        /\ UNCHANGED <<heap, tableId, columnId, status>>

\* Faulty: the last value of the row is left out.
NextFillStopsEarly ==
    IF fill.col + 1 < Len(tables[fill.table].columns)
    THEN [fill EXCEPT !.col = @ + 1]
    ELSE NoFill

\* Faulty: one value too many.
NextFillPastEnd ==
    IF fill.col <= Len(tables[fill.table].columns)
    THEN [fill EXCEPT !.col = @ + 1]
    ELSE NoFill

NextFill ==
    IF fill.col < Len(tables[fill.table].columns)
    THEN [fill EXCEPT !.col = @ + 1]
    ELSE NoFill

\* insert_values with replace = false, one column: a string is duplicated
\* and its address stored, an integer is stored.
FillCell(value) ==
    LET t == fill.table
        c == fill.col
    IN  /\ Filling
        /\ IF ~Writable(t, c, fill.row) THEN Crash
           ELSE /\ IF IsString(t, c)
                   THEN \E a \in FreeAddr(heap) :
                          /\ heap' = [heap EXCEPT ![a] = value]
                          /\ tables' = [tables EXCEPT ![t].columns[c].data[fill.row] = a]
                   ELSE /\ tables' = [tables EXCEPT ![t].columns[c].data[fill.row] = value]
                        /\ UNCHANGED heap
                /\ fill' = NextFill
                /\ UNCHANGED <<tableId, columnId, status>>

\* insert_values with replace = true, one column: the old string is freed,
\* and strdup may hand its address out again.
ReplaceCell(t, c, r, value) ==
    LET old == {<<t, c, r>>} \cap StringSlots(t, {r})
    IN  IF ~(Writable(t, c, r) /\ CanFree(old)) THEN Crash
        ELSE /\ IF IsString(t, c)
                THEN \E a \in FreeAddr(HeapWithout(old)) :
                       /\ heap' = [HeapWithout(old) EXCEPT ![a] = value]
                       /\ tables' = [tables EXCEPT ![t].columns[c].data[r] = a]
                ELSE /\ tables' = [tables EXCEPT ![t].columns[c].data[r] = value]
                     /\ UNCHANGED heap
             /\ UNCHANGED <<tableId, columnId, fill, status>>

\* table_row_delete: an index past the end changes nothing
\* (RESULT_INDEX_OUT_OF_BOUNDS).
TableRowDelete(t, index) ==
    LET dead == StringSlots(t, {index})
    IN  IF index >= tables[t].row_count THEN UNCHANGED storageVars
        ELSE IF ~CanFree(dead) THEN Crash
        ELSE /\ heap' = HeapWithout(dead)
             /\ tables' = [tables EXCEPT ![t] = RemoveRow(tables[t], index)]
             /\ UNCHANGED <<tableId, columnId, fill, status>>

\* Faulty: the last row of each table is missed.
AllStringsButLast ==
    UNION {StringSlots(t, Slots(tables[t].row_count - 1)) : t \in DOMAIN tables}

\* storage_deinit frees the strings of the rows every table has; DB.tables
\* is not reset, and nothing is called after it.
AllStrings == UNION {StringSlots(t, Slots(tables[t].row_count)) : t \in DOMAIN tables}

StorageDeinit ==
    IF ~CanFree(AllStrings) THEN Crash
    ELSE /\ heap' = HeapWithout(AllStrings)
         /\ status' = "down"
         /\ UNCHANGED <<tables, tableId, columnId, fill>>

----------------------------------------------------------------------------
(* The most general client.                                                *)

StorageInit ==
    /\ tables = <<>>
    /\ heap = [a \in Addr |-> Free]
    /\ tableId = 0
    /\ columnId = 0
    /\ fill = NoFill
    /\ status = "up"

Ready == status = "up" /\ ~Filling

ClientNewTable ==
    /\ Ready
    /\ Len(tables) < MaxTables
    /\ \E name \in TableName : DbTableNew(name)

\* A column that could not be allocated counts against the bound as well.
ClientNewColumn ==
    /\ Ready
    /\ columnId < MaxTables * MaxColumns
    /\ \E t \in DOMAIN tables, type \in BaseType, name \in ColumnName :
          /\ Len(tables[t].columns) < MaxColumns
          /\ TableColumnNew(t, type, name)

ClientAddRow ==
    /\ Ready
    /\ \E t \in DOMAIN tables :
          /\ tables[t].row_count < MaxRows
          /\ TableRowAdd(t)

\* The values a slot of this column is given.
ValuesFor(t, c) == IF IsString(t, c) THEN Str ELSE IntValue

ClientFill ==
    /\ status = "up"
    /\ Filling
    /\ \E value \in ValuesFor(fill.table, fill.col) : FillCell(value)

ClientReplace ==
    /\ Ready
    /\ \E t \in DOMAIN tables : \E c \in DOMAIN tables[t].columns :
       \E r \in Slots(tables[t].row_count) :
       \E value \in ValuesFor(t, c) : ReplaceCell(t, c, r, value)

ClientDelete ==
    /\ Ready
    /\ \E t \in DOMAIN tables : \E r \in 0 .. tables[t].row_count :
          TableRowDelete(t, r)

ClientDeinit == Ready /\ StorageDeinit

StorageNext ==
    \/ ClientNewTable
    \/ ClientNewColumn
    \/ ClientAddRow
    \/ ClientFill
    \/ ClientReplace
    \/ ClientDelete
    \/ ClientDeinit

StorageSpec == StorageInit /\ [][StorageNext]_storageVars

----------------------------------------------------------------------------
(* Properties.                                                             *)

Columns(t) == DOMAIN tables[t].columns

Slot == IntValue \cup Addr \cup {Junk}

ColumnType(capacity) ==
    [id : Nat, name : ColumnName, type : BaseType,
     data : [Slots(capacity) -> Slot] \cup [{} -> {Junk}]]

TableType(capacity) ==
    [id : Nat, name : TableName, row_count : Slots(capacity),
     row_capacity : {capacity}, columns : Seq(ColumnType(capacity))]

\* Every variable has its type: a table has fewer rows than its capacity, a
\* column's data is either missing or as long as that capacity, the heap maps
\* addresses to strings, and the client's cursor designates a column of the
\* last row of its table.
TypeOK ==
    /\ \A t \in DOMAIN tables :
          /\ tables[t].row_capacity \in Nat \ {0}
          /\ tables[t] \in TableType(tables[t].row_capacity)
    /\ heap \in [Addr -> Str \cup {Free}]
    /\ tableId \in Nat /\ columnId \in Nat
    /\ status \in {"up", "down", "crashed"}
    /\ fill \in [table : Nat, row : Nat, col : Nat]
    /\ Filling => /\ fill.table \in DOMAIN tables
                  /\ fill.col \in Columns(fill.table)
                  /\ fill.row = tables[fill.table].row_count - 1

\* A table's capacity is more than the rows it has, and it is what each of
\* its columns has allocated ("the max number of rows that this table can
\* currently store (i.e. are allocated)", storage_internal.h:36): a row can
\* always be added, and an index up to row_count, which table_column_get_row
\* lets through, still designates allocated memory.
CapacityIsAllocated ==
    \A t \in DOMAIN tables :
        /\ tables[t].row_count < tables[t].row_capacity
        /\ \A c \in Columns(t) :
              DOMAIN tables[t].columns[c].data = Slots(tables[t].row_capacity)

\* The slots the client has written: every column of every row, except the
\* columns of the row being filled that insert_values has not reached.
Written(t, r, c) == ~(Filling /\ t = fill.table /\ r = fill.row /\ c >= fill.col)

OwnedSlots ==
    UNION {{s \in StringSlots(t, Slots(tables[t].row_count)) : Written(t, s[3], s[2])}
           : t \in DOMAIN tables}

\* Each string slot of each row holds the address of a live string that no
\* other slot holds, through growth, shifting on delete, and replacement:
\* no dangling pointer and no double free is ever reachable.
RowsOwnTheirStrings == status = "up" => CanFree(OwnedSlots)

\* Each live string is held by some row: delete and replace free what they
\* drop, growth loses nothing.
NoLostStrings ==
    status = "up" =>
        \A a \in Addr : heap[a] # Free => \E s \in OwnedSlots : Held(s) = a

\* The integer slots of complete rows have been written: what a query reads
\* is never uninitialised memory.
NoJunkRead ==
    \A t \in DOMAIN tables : \A c \in Columns(t) :
    \A r \in Slots(tables[t].row_count) :
        Written(t, r, c) => tables[t].columns[c].data[r] # Junk

\* realloc may fail while a table grows (itable_realloc ignores it) and leave
\* a column without data.  The row that made the table grow is then never
\* completed: filling it follows the null pointer, so no row is read from, and
\* no value replaced in, a column that lost its data.
LostColumnIsNeverRead ==
    status = "up" =>
        \A t \in DOMAIN tables : \A c \in Columns(t) :
            \/ DOMAIN tables[t].columns[c].data = Slots(tables[t].row_capacity)
            \/ Filling /\ fill.table = t /\ fill.col <= c

\* No write goes outside a column's allocation and nothing is freed twice.
NoCrash == status # "crashed"

\* A table is looked up by the id db_table_new gave it, a column by the id
\* icolumn_new gave it: both find what the id was given to, also when several
\* tables have one name and several tables a column of one name.
IdsDesignate ==
    \A t \in DOMAIN tables :
        /\ TableWithId(tables[t].id) = t
        /\ \A c \in Columns(t), u \in DOMAIN tables : \A d \in Columns(u) :
              tables[u].columns[d].id = tables[t].columns[c].id => <<u, d>> = <<t, c>>

\* storage_deinit leaves no string allocated.
DeinitReleasesAll == status = "down" => FreeAddr(heap) = Addr

----------------------------------------------------------------------------
(* What the backend promises its client, as the tables of values it stores.*)

ValueAt(t, r, c) == IF IsString(t, c) THEN heap[Cell(t, c, r)] ELSE Cell(t, c, r)

CompleteRows(t) ==
    IF Filling /\ fill.table = t THEN tables[t].row_count - 1
                                 ELSE tables[t].row_count

TableContents(t) ==
    [name |-> tables[t].name,
     columns |-> [c \in Columns(t) |-> [name |-> tables[t].columns[c].name,
                                        type |-> tables[t].columns[c].type]],
     rows |-> [r \in 1 .. CompleteRows(t) |->
                  [c \in Columns(t) |-> ValueAt(t, r - 1, c)]]]

Contents ==
    IF status = "down" THEN <<>> ELSE [t \in DOMAIN tables |-> TableContents(t)]

RowStore == INSTANCE BazaRowStore WITH store <- Contents

\* Capacities, reallocation, slot shifting, the heap and the filling of a row
\* column by column are invisible: the backend is a list of tables of rows of
\* values, where a row is appended whole, one value is set, or one row is
\* removed and the others keep their order and their values.
ImplementsRowStore == RowStore!Spec

============================================================================
