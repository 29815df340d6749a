------------------------- MODULE BazaStorageProofs -------------------------
(***************************************************************************)
(* Proofs about BazaStorage, for every value of its constants.             *)
(***************************************************************************)
EXTENDS BazaStorage, SequenceTheorems, TLAPS

TableTypes == UNION {TableType(capacity) : capacity \in Nat \ {0}}

TypeInv ==
    /\ tables \in Seq(TableTypes)
    /\ heap \in [Addr -> Str \cup {Free}]
    /\ tableId \in Nat /\ columnId \in Nat
    /\ status \in {"up", "down", "crashed"}
    /\ fill \in [table : Nat, row : Nat, col : Nat]
    /\ Filling => /\ fill.table \in DOMAIN tables
                  /\ fill.col \in Columns(fill.table)
                  /\ fill.row = tables[fill.table].row_count - 1

----------------------------------------------------------------------------
(* Sequences.                                                              *)

\* A function of the domain of a sequence is a sequence of the same length.
LEMMA MappedSeq ==
    ASSUME NEW S, NEW T, NEW seq \in Seq(S), NEW f,
           f = [i \in DOMAIN seq |-> f[i]],
           \A i \in DOMAIN seq : f[i] \in T
    PROVE  f \in Seq(T) /\ Len(f) = Len(seq) /\ DOMAIN f = DOMAIN seq
<1>1. Len(seq) \in Nat /\ DOMAIN seq = 1 .. Len(seq)
  BY LenProperties
<1>2. f \in [1 .. Len(seq) -> T]
  BY <1>1
<1>. QED BY <1>1, <1>2, SeqDef

----------------------------------------------------------------------------
(* The operations on one table keep its type.                              *)

LEMMA TableTypesDef ==
    ASSUME NEW tab
    PROVE  tab \in TableTypes <=> /\ tab.row_capacity \in Nat \ {0}
                                  /\ tab \in TableType(tab.row_capacity)
BY DEF TableTypes, TableType

LEMMA NewTableType ==
    ASSUME NEW name \in TableName, tableId \in Nat
    PROVE  NewTable(name) \in TableTypes
<1>1. NewTable(name) \in TableType(DefaultCapacity)
  BY StorageAssumption DEF NewTable, TableType, Slots
<1>. QED BY <1>1, StorageAssumption DEF TableTypes

LEMMA ReallocDataType ==
    ASSUME NEW capacity \in Nat, NEW column \in ColumnType(capacity), NEW wider \in Nat
    PROVE  ReallocData(column, wider) \in ColumnType(wider)
BY DEF ReallocData, ColumnType, Slots, Slot

LEMMA ReallocTableType ==
    ASSUME NEW capacity \in Nat \ {0}, NEW tab \in TableType(capacity),
           NEW wider \in Nat \ {0}, NEW failed, capacity <= wider
    PROVE  ReallocTable(tab, wider, failed) \in TableType(wider)
<1>1. \A c \in DOMAIN tab.columns :
        /\ ReallocData(tab.columns[c], wider) \in ColumnType(wider)
        /\ LoseData(tab.columns[c]) \in ColumnType(wider)
  <2>. SUFFICES ASSUME NEW c \in DOMAIN tab.columns
                PROVE  /\ ReallocData(tab.columns[c], wider) \in ColumnType(wider)
                       /\ LoseData(tab.columns[c]) \in ColumnType(wider)
    OBVIOUS
  <2>1. tab.columns[c] \in ColumnType(capacity)
    BY ElementOfSeq DEF TableType
  <2>. QED BY <2>1, ReallocDataType DEF LoseData, ColumnType
<1> DEFINE columns == [c \in DOMAIN tab.columns |->
                          IF c \in failed THEN LoseData(tab.columns[c])
                                          ELSE ReallocData(tab.columns[c], wider)]
<1>2. tab.columns \in Seq(ColumnType(capacity))
  BY DEF TableType
<1>3. columns \in Seq(ColumnType(wider))
  BY <1>1, <1>2, MappedSeq
<1>4. ReallocTable(tab, wider, failed) =
        [tab EXCEPT !.row_capacity = wider, !.columns = columns]
  BY DEF ReallocTable
<1>5. /\ tab.id \in Nat /\ tab.name \in TableName
      /\ tab.row_count \in Slots(wider)
  BY DEF TableType, Slots
<1>. HIDE DEF columns
<1>. QED BY <1>3, <1>4, <1>5 DEF TableType

LEMMA RemoveRowType ==
    ASSUME NEW capacity \in Nat \ {0}, NEW tab \in TableType(capacity),
           NEW index \in Nat, index < tab.row_count
    PROVE  RemoveRow(tab, index) \in TableType(capacity)
<1>1. ASSUME NEW c \in DOMAIN tab.columns
      PROVE  ShiftDown(tab.columns[c], index, tab.row_count) \in ColumnType(capacity)
  <2>1. tab.columns[c] \in ColumnType(capacity)
    BY ElementOfSeq DEF TableType
  <2>2. tab.row_count \in 0 .. capacity - 1
    BY DEF TableType, Slots
  <2>3. CASE tab.columns[c].data \in [Slots(capacity) -> Slot]
    <3>1. \A i \in Slots(capacity) :
            index <= i /\ i < tab.row_count - 1 => i + 1 \in Slots(capacity)
      BY <2>2 DEF Slots
    <3>2. ShiftDown(tab.columns[c], index, tab.row_count).data \in [Slots(capacity) -> Slot]
      BY <2>1, <2>3, <3>1 DEF ShiftDown, ColumnType
    <3>. QED BY <2>1, <3>2 DEF ShiftDown, ColumnType
  <2>4. CASE tab.columns[c].data \in [{} -> {Junk}]
    BY <2>1, <2>4 DEF ShiftDown, ColumnType
  <2>. QED BY <2>1, <2>3, <2>4 DEF ColumnType
<1> DEFINE columns == [c \in DOMAIN tab.columns |->
                          ShiftDown(tab.columns[c], index, tab.row_count)]
<1>2. tab.columns \in Seq(ColumnType(capacity))
  BY DEF TableType
<1>3. columns \in Seq(ColumnType(capacity))
  BY <1>1, <1>2, MappedSeq
<1>4. RemoveRow(tab, index) = [tab EXCEPT !.row_count = @ - 1, !.columns = columns]
  BY DEF RemoveRow
<1>5. tab.row_count - 1 \in Slots(capacity)
  BY DEF TableType, Slots
<1>. HIDE DEF columns
<1>. QED BY <1>3, <1>4, <1>5 DEF TableType

LEMMA SetCellType ==
    ASSUME NEW capacity \in Nat \ {0}, NEW tab \in TableType(capacity),
           NEW c \in DOMAIN tab.columns, NEW r \in DOMAIN tab.columns[c].data,
           NEW value \in Slot
    PROVE  [tab EXCEPT !.columns[c].data[r] = value] \in TableType(capacity)
<1>1. tab.columns[c] \in ColumnType(capacity)
  BY ElementOfSeq DEF TableType
<1>2. [tab.columns[c] EXCEPT !.data[r] = value] \in ColumnType(capacity)
  BY <1>1 DEF ColumnType
<1>3. tab.columns \in Seq(ColumnType(capacity)) /\ c \in 1 .. Len(tab.columns)
  BY DEF TableType
<1>4. [tab.columns EXCEPT ![c] = [tab.columns[c] EXCEPT !.data[r] = value]]
        \in Seq(ColumnType(capacity))
  BY <1>2, <1>3, ExceptSeq
<1>5. [tab EXCEPT !.columns[c].data[r] = value]
        = [tab EXCEPT !.columns =
              [tab.columns EXCEPT ![c] = [tab.columns[c] EXCEPT !.data[r] = value]]]
  BY DEF TableType
<1>. QED BY <1>4, <1>5 DEF TableType

LEMMA AddColumnType ==
    ASSUME NEW capacity \in Nat \ {0}, NEW tab \in TableType(capacity),
           NEW column \in ColumnType(capacity)
    PROVE  [tab EXCEPT !.columns = Append(@, column)] \in TableType(capacity)
<1>. SUFFICES ASSUME NEW C, C = ColumnType(capacity), NEW columns,
                     columns = Append(tab.columns, column)
              PROVE  [tab EXCEPT !.columns = columns] \in TableType(capacity)
  OBVIOUS
<1>1. tab.columns \in Seq(C) /\ column \in C
  BY DEF TableType
<1>2. columns \in Seq(C)
  BY <1>1
<1>. QED BY <1>2 DEF TableType

----------------------------------------------------------------------------
(* Type correctness.                                                       *)

LEMMA TableFacts ==
    ASSUME TypeInv, NEW t \in DOMAIN tables
    PROVE  /\ t \in 1 .. Len(tables)
           /\ tables[t] \in TableTypes
           /\ tables[t].row_capacity \in Nat \ {0}
           /\ tables[t] \in TableType(tables[t].row_capacity)
           /\ tables[t].row_count \in Nat
           /\ tables[t].row_count < tables[t].row_capacity
<1>1. t \in 1 .. Len(tables) /\ tables[t] \in TableTypes
  BY ElementOfSeq, LenProperties DEF TypeInv
<1>2. tables[t].row_capacity \in Nat \ {0} /\ tables[t] \in TableType(tables[t].row_capacity)
  BY <1>1, TableTypesDef
<1>. QED BY <1>1, <1>2 DEF TableType, Slots

LEMMA TypeInvIsTypeOK == TypeInv => TypeOK
<1>. SUFFICES ASSUME TypeInv PROVE TypeOK
  OBVIOUS
<1>1. \A t \in DOMAIN tables : /\ tables[t].row_capacity \in Nat \ {0}
                               /\ tables[t] \in TableType(tables[t].row_capacity)
  BY TableFacts
<1>. QED BY <1>1 DEF TypeInv, TypeOK

\* One table changes to another of its type, the others stay.
LEMMA ReplaceTable ==
    ASSUME TypeInv, NEW t \in DOMAIN tables, NEW tab \in TableTypes
    PROVE  /\ [tables EXCEPT ![t] = tab] \in Seq(TableTypes)
           /\ DOMAIN [tables EXCEPT ![t] = tab] = DOMAIN tables
BY TableFacts, ExceptSeq DEF TypeInv

LEMMA DbTableNewTypes ==
    ASSUME TypeInv, NEW name \in TableName, DbTableNew(name), ~Filling
    PROVE  TypeInv'
<1>1. NewTable(name) \in TableTypes
  BY NewTableType DEF TypeInv
<1>2. tables' \in Seq(TableTypes)
  BY <1>1, AppendProperties DEF DbTableNew, TypeInv
<1>. QED BY <1>2 DEF DbTableNew, TypeInv, Filling

LEMMA TableColumnNewTypes ==
    ASSUME TypeInv, ~Filling, NEW t \in DOMAIN tables, NEW type \in BaseType,
           NEW name \in ColumnName, TableColumnNew(t, type, name)
    PROVE  TypeInv'
<1> DEFINE capacity == tables[t].row_capacity
<1>1. capacity \in Nat \ {0} /\ tables[t] \in TableType(capacity)
  BY TableFacts
<1>2. NewColumn(t, type, name) \in ColumnType(capacity)
  <2>1. [id |-> columnId, name |-> name, type |-> type, data |-> [i \in {} |-> Junk]]
          \in ColumnType(0)
    BY DEF TypeInv, ColumnType, Slots
  <2>. QED BY <1>1, <2>1, ReallocDataType DEF NewColumn
<1>3. [tables[t] EXCEPT !.columns = Append(@, NewColumn(t, type, name))] \in TableTypes
  BY <1>1, <1>2, AddColumnType DEF TableTypes
<1>4. [tables EXCEPT ![t].columns = Append(@, NewColumn(t, type, name))] \in Seq(TableTypes)
  BY <1>3, ReplaceTable
<1>5. tables' \in Seq(TableTypes)
  BY <1>4 DEF TableColumnNew, TypeInv
<1>. QED BY <1>5 DEF TableColumnNew, TypeInv, Filling

LEMMA GrownType ==
    ASSUME TypeInv, NEW t \in DOMAIN tables, NEW failed,
           NEW grown, grown = [tables[t] EXCEPT !.row_count = @ + 1]
    PROVE  (IF NeedsRealloc(grown)
            THEN ReallocTable(grown, grown.row_capacity * 2, failed)
            ELSE grown) \in TableTypes
<1> DEFINE capacity == tables[t].row_capacity
<1>1. capacity \in Nat \ {0} /\ tables[t] \in TableType(capacity)
      /\ tables[t].row_count \in 0 .. capacity - 1
  BY TableFacts
<1>2. grown.row_capacity = capacity /\ grown.row_count = tables[t].row_count + 1
      /\ grown.columns = tables[t].columns /\ grown.id = tables[t].id
      /\ grown.name = tables[t].name
  BY <1>1 DEF TableType
<1>3. CASE NeedsRealloc(grown)
  <2> DEFINE wider == capacity * 2
             columns == ReallocTable(tables[t], wider, failed).columns
  <2>1. ReallocTable(tables[t], wider, failed) \in TableType(wider)
    BY <1>1, ReallocTableType
  <2>2. ReallocTable(grown, wider, failed)
          = [ReallocTable(tables[t], wider, failed) EXCEPT !.row_count = grown.row_count]
    BY <1>1, <1>2 DEF ReallocTable, TableType
  <2>3. grown.row_count \in Slots(wider)
    BY <1>1, <1>2 DEF Slots
  <2>4. ReallocTable(grown, wider, failed) \in TableType(wider)
    BY <2>1, <2>2, <2>3 DEF TableType
  <2>5. wider \in Nat \ {0}
    BY <1>1
  <2>. QED BY <1>2, <1>3, <2>4, <2>5 DEF TableTypes
<1>4. CASE ~NeedsRealloc(grown)
  <2>1. grown.row_count \in Slots(capacity)
    BY <1>1, <1>2, <1>4 DEF NeedsRealloc, Slots
  <2>2. grown \in TableType(capacity)
    BY <1>1, <2>1 DEF TableType
  <2>. QED BY <1>1, <1>4, <2>2 DEF TableTypes
<1>. QED BY <1>3, <1>4

LEMMA TableRowAddTypes ==
    ASSUME TypeInv, ~Filling, NEW t \in DOMAIN tables, TableRowAdd(t)
    PROVE  TypeInv'
<1> DEFINE grown == [tables[t] EXCEPT !.row_count = @ + 1]
           Next(failed) == IF NeedsRealloc(grown)
                           THEN ReallocTable(grown, grown.row_capacity * 2, failed)
                           ELSE grown
<1>1. PICK failed \in FailureSets(grown) : tables' = [tables EXCEPT ![t] = Next(failed)]
  BY DEF TableRowAdd
<1>2. Next(failed) \in TableTypes
  BY GrownType
<1>3. /\ tables[t] \in TableType(tables[t].row_capacity)
      /\ tables[t].row_count \in Nat
  BY TableFacts
<1>4. /\ grown.row_count = tables[t].row_count + 1
      /\ grown.columns = tables[t].columns
  BY <1>3 DEF TableType
<1>5. /\ Next(failed).row_count = tables[t].row_count + 1
      /\ DOMAIN Next(failed).columns = DOMAIN tables[t].columns
  BY <1>3, <1>4 DEF ReallocTable, TableType
<1>. HIDE DEF Next
<1>6. tables' \in Seq(TableTypes) /\ DOMAIN tables' = DOMAIN tables /\ tables'[t] = Next(failed)
  BY <1>1, <1>2, ReplaceTable DEF TypeInv
<1>7. fill' = IF tables[t].columns = <<>> THEN NoFill
              ELSE [table |-> t, row |-> tables[t].row_count, col |-> 1]
  BY <1>4 DEF TableRowAdd
<1>8. tables[t].columns # <<>> => 1 \in DOMAIN tables[t].columns
  <2>1. tables[t].columns \in Seq(ColumnType(tables[t].row_capacity))
    BY <1>3 DEF TableType
  <2>. QED BY <2>1, EmptySeq, LenProperties
<1>9. t \in Nat
  BY TableFacts
<1>10. fill' \in [table : Nat, row : Nat, col : Nat]
  BY <1>3, <1>7, <1>9 DEF NoFill
<1>11. Filling' => /\ fill'.table \in DOMAIN tables'
                   /\ fill'.col \in DOMAIN tables'[fill'.table].columns
                   /\ fill'.row = tables'[fill'.table].row_count - 1
  BY <1>3, <1>5, <1>6, <1>7, <1>8 DEF Filling, NoFill
<1>. QED BY <1>6, <1>10, <1>11 DEF TypeInv, TableRowAdd, Columns

\* Writing one slot of a table changes nothing else of its shape.
LEMMA WriteSlot ==
    ASSUME TypeInv, NEW t \in DOMAIN tables, NEW c \in Columns(t),
           NEW r \in DOMAIN tables[t].columns[c].data, NEW value \in Slot,
           tables' = [tables EXCEPT ![t].columns[c].data[r] = value]
    PROVE  /\ tables' \in Seq(TableTypes)
           /\ DOMAIN tables' = DOMAIN tables
           /\ \A u \in DOMAIN tables :
                 /\ DOMAIN tables'[u].columns = DOMAIN tables[u].columns
                 /\ tables'[u].row_count = tables[u].row_count
<1> DEFINE capacity == tables[t].row_capacity
           tab == [tables[t] EXCEPT !.columns[c].data[r] = value]
<1>1. capacity \in Nat \ {0} /\ tables[t] \in TableType(capacity)
  BY TableFacts
<1>2. tab \in TableType(capacity)
  BY <1>1, SetCellType DEF Columns
<1>3. tab \in TableTypes
  BY <1>1, <1>2 DEF TableTypes
<1>4. tables' = [tables EXCEPT ![t] = tab]
  OBVIOUS
<1>5. DOMAIN tab.columns = DOMAIN tables[t].columns /\ tab.row_count = tables[t].row_count
  BY <1>1 DEF TableType
<1>. HIDE DEF tab
<1>. QED BY <1>3, <1>4, <1>5, ReplaceTable

LEMMA NextFillTypes ==
    ASSUME TypeInv, Filling
    PROVE  /\ NextFill \in [table : Nat, row : Nat, col : Nat]
           /\ NextFill.col # 0 => /\ NextFill.table = fill.table
                                  /\ NextFill.row = fill.row
                                  /\ NextFill.col = fill.col + 1
                                  /\ NextFill.col \in Columns(fill.table)
<1>1. tables[fill.table] \in TableType(tables[fill.table].row_capacity)
  BY TableFacts DEF TypeInv
<1>2. tables[fill.table].columns \in Seq(ColumnType(tables[fill.table].row_capacity))
  BY <1>1 DEF TableType
<1>3. /\ DOMAIN tables[fill.table].columns = 1 .. Len(tables[fill.table].columns)
      /\ Len(tables[fill.table].columns) \in Nat
  BY <1>2, LenProperties
<1>. QED BY <1>3 DEF TypeInv, NextFill, NoFill, Columns, Filling

LEMMA FillCellTypes ==
    ASSUME TypeInv, Filling,
           NEW value \in ValuesFor(fill.table, fill.col), FillCell(value)
    PROVE  TypeInv'
<1> DEFINE t == fill.table
           c == fill.col
<1>1. CASE ~Writable(t, c, fill.row)
  BY <1>1 DEF FillCell, Crash, TypeInv, Filling, Columns
<1>2. CASE Writable(t, c, fill.row)
  <2>1. t \in DOMAIN tables /\ c \in Columns(t) /\ fill.row \in DOMAIN tables[t].columns[c].data
    BY <1>2 DEF TypeInv, Writable
  <2>2. fill' = NextFill /\ UNCHANGED <<tableId, columnId, status>>
    BY <1>2 DEF FillCell
  <2>3. PICK stored \in Slot :
            tables' = [tables EXCEPT ![t].columns[c].data[fill.row] = stored]
    BY <1>2 DEF FillCell, FreeAddr, Slot, ValuesFor
  <2>4. heap' \in [Addr -> Str \cup {Free}]
    BY <1>2 DEF FillCell, FreeAddr, ValuesFor, TypeInv
  <2>5. /\ tables' \in Seq(TableTypes)
        /\ DOMAIN tables' = DOMAIN tables
        /\ \A u \in DOMAIN tables :
              /\ DOMAIN tables'[u].columns = DOMAIN tables[u].columns
              /\ tables'[u].row_count = tables[u].row_count
    BY <2>1, <2>3, WriteSlot
  <2>. QED BY <2>1, <2>2, <2>4, <2>5, NextFillTypes DEF TypeInv, Filling, Columns
<1>. QED BY <1>1, <1>2

LEMMA ReplaceCellTypes ==
    ASSUME TypeInv, ~Filling, NEW t \in DOMAIN tables, NEW c \in Columns(t), NEW r,
           NEW value \in ValuesFor(t, c), ReplaceCell(t, c, r, value)
    PROVE  TypeInv'
<1> DEFINE old == {<<t, c, r>>} \cap StringSlots(t, {r})
<1>1. CASE ~(Writable(t, c, r) /\ CanFree(old))
  BY <1>1 DEF ReplaceCell, Crash, TypeInv, Filling
<1>2. CASE Writable(t, c, r) /\ CanFree(old)
  <2>1. r \in DOMAIN tables[t].columns[c].data
    BY <1>2 DEF Writable
  <2>2. UNCHANGED <<tableId, columnId, fill, status>>
    BY <1>2 DEF ReplaceCell
  <2>3. PICK stored \in Slot : tables' = [tables EXCEPT ![t].columns[c].data[r] = stored]
    BY <1>2 DEF ReplaceCell, FreeAddr, Slot, ValuesFor
  <2>4. heap' \in [Addr -> Str \cup {Free}]
    BY <1>2 DEF ReplaceCell, HeapWithout, FreeAddr, ValuesFor, TypeInv
  <2>5. tables' \in Seq(TableTypes)
    BY <2>1, <2>3, WriteSlot
  <2>. QED BY <2>2, <2>4, <2>5 DEF TypeInv, Filling
<1>. QED BY <1>1, <1>2

LEMMA TableRowDeleteTypes ==
    ASSUME TypeInv, ~Filling, NEW t \in DOMAIN tables, NEW index \in Nat,
           TableRowDelete(t, index)
    PROVE  TypeInv'
<1> DEFINE dead == StringSlots(t, {index})
<1>1. CASE index >= tables[t].row_count
  BY <1>1 DEF TableRowDelete, storageVars, TypeInv, Filling
<1>2. CASE ~(index >= tables[t].row_count) /\ ~CanFree(dead)
  BY <1>2 DEF TableRowDelete, Crash, TypeInv, Filling
<1>3. CASE ~(index >= tables[t].row_count) /\ CanFree(dead)
  <2>1. /\ tables' = [tables EXCEPT ![t] = RemoveRow(tables[t], index)]
        /\ heap' = HeapWithout(dead)
        /\ UNCHANGED <<tableId, columnId, fill, status>>
    BY <1>3 DEF TableRowDelete
  <2>2. RemoveRow(tables[t], index) \in TableTypes
    BY <1>3, TableFacts, RemoveRowType DEF TableTypes
  <2>3. tables' \in Seq(TableTypes)
    BY <2>1, <2>2, ReplaceTable
  <2>4. heap' \in [Addr -> Str \cup {Free}]
    BY <2>1 DEF HeapWithout, TypeInv
  <2>. QED BY <2>1, <2>3, <2>4 DEF TypeInv, Filling
<1>. QED BY <1>1, <1>2, <1>3

LEMMA StorageDeinitTypes ==
    ASSUME TypeInv, ~Filling, StorageDeinit
    PROVE  TypeInv'
BY DEF StorageDeinit, Crash, HeapWithout, TypeInv, Filling

LEMMA StorageTypesStep == TypeInv /\ [StorageNext]_storageVars => TypeInv'
<1>. SUFFICES ASSUME TypeInv, [StorageNext]_storageVars PROVE TypeInv'
  OBVIOUS
<1>1. CASE ClientNewTable
  BY <1>1, DbTableNewTypes DEF ClientNewTable, Ready
<1>2. CASE ClientNewColumn
  BY <1>2, TableColumnNewTypes DEF ClientNewColumn, Ready
<1>3. CASE ClientAddRow
  BY <1>3, TableRowAddTypes DEF ClientAddRow, Ready
<1>4. CASE ClientFill
  BY <1>4, FillCellTypes DEF ClientFill
<1>5. CASE ClientReplace
  BY <1>5, ReplaceCellTypes DEF ClientReplace, Ready, Columns
<1>6. CASE ClientDelete
  <2>1. PICK t \in DOMAIN tables : \E r \in 0 .. tables[t].row_count : TableRowDelete(t, r)
    BY <1>6 DEF ClientDelete
  <2>2. PICK r \in 0 .. tables[t].row_count : TableRowDelete(t, r)
    BY <2>1
  <2>3. r \in Nat
    BY TableFacts
  <2>. QED BY <1>6, <2>2, <2>3, TableRowDeleteTypes DEF ClientDelete, Ready
<1>7. CASE ClientDeinit
  BY <1>7, StorageDeinitTypes DEF ClientDeinit, Ready
<1>8. CASE UNCHANGED storageVars
  BY <1>8 DEF storageVars, TypeInv, Filling, Columns
<1>. QED BY <1>1, <1>2, <1>3, <1>4, <1>5, <1>6, <1>7, <1>8 DEF StorageNext

\* Whatever its client asks for and whether or not memory runs out, the
\* backend's variables have their types: in particular a table always has a
\* free slot beyond its last row (row_count < row_capacity).
THEOREM StorageTypes == StorageSpec => []TypeOK
<1>1. StorageInit => TypeInv
  BY EmptySeq DEF StorageInit, TypeInv, NoFill, Filling
<1>2. TypeInv /\ [StorageNext]_storageVars => TypeInv'
  BY StorageTypesStep
<1>3. TypeInv => TypeOK
  BY TypeInvIsTypeOK
<1>. QED BY <1>1, <1>2, <1>3, PTL DEF StorageSpec

----------------------------------------------------------------------------
(* Capacity: while memory lasts, every column has as many slots as its     *)
(* table's capacity says.                                                  *)

CapacityInv ==
    \A t \in DOMAIN tables : \A c \in Columns(t) :
        DOMAIN tables[t].columns[c].data = Slots(tables[t].row_capacity)

\* A table, one of its columns and that column's slots.
LEMMA ColumnFacts ==
    ASSUME TypeInv, NEW t \in DOMAIN tables, NEW c \in Columns(t)
    PROVE  /\ tables[t].columns \in Seq(ColumnType(tables[t].row_capacity))
           /\ tables[t].columns[c] \in ColumnType(tables[t].row_capacity)
           /\ c \in 1 .. Len(tables[t].columns)
<1>1. tables[t] \in TableType(tables[t].row_capacity)
  BY TableFacts
<1>2. tables[t].columns \in Seq(ColumnType(tables[t].row_capacity))
  BY <1>1 DEF TableType
<1>. QED BY <1>2, LenProperties, ElementOfSeq DEF Columns

\* The shape of the tables is kept when one slot is written ...
LEMMA WriteKeepsCapacity ==
    ASSUME TypeInv, CapacityInv, NEW t \in DOMAIN tables, NEW c \in Columns(t),
           NEW r \in DOMAIN tables[t].columns[c].data, NEW value,
           tables' = [tables EXCEPT ![t].columns[c].data[r] = value]
    PROVE  /\ CapacityInv'
           /\ \A u \in DOMAIN tables : tables'[u].row_capacity = tables[u].row_capacity
<1>1. tables[t] \in TableType(tables[t].row_capacity)
  BY TableFacts
<1>2. tables[t].columns[c] \in ColumnType(tables[t].row_capacity)
  BY ColumnFacts
<1>3. \A u \in DOMAIN tables :
        /\ tables'[u].row_capacity = tables[u].row_capacity
        /\ DOMAIN tables'[u].columns = DOMAIN tables[u].columns
        /\ \A d \in Columns(u) :
              DOMAIN tables'[u].columns[d].data = DOMAIN tables[u].columns[d].data
  BY <1>1, <1>2 DEF TableType, ColumnType, Columns
<1>. QED BY <1>3 DEF CapacityInv, Columns

LEMMA AddRowKeepsCapacity ==
    ASSUME TypeInv, CapacityInv, ~AllocMayFail, NEW t \in DOMAIN tables, TableRowAdd(t)
    PROVE  CapacityInv'
<1> DEFINE grown == [tables[t] EXCEPT !.row_count = @ + 1]
           wider == grown.row_capacity * 2
           tab == IF NeedsRealloc(grown) THEN ReallocTable(grown, wider, {}) ELSE grown
<1>1. tables' = [tables EXCEPT ![t] = tab]
  BY DEF TableRowAdd, FailureSets
<1>2. tables[t] \in TableType(tables[t].row_capacity)
  BY TableFacts
<1>3. \A c \in DOMAIN tab.columns :
        DOMAIN tab.columns[c].data = Slots(tab.row_capacity)
  <2>1. grown.columns = tables[t].columns /\ grown.row_capacity = tables[t].row_capacity
    BY <1>2 DEF TableType
  <2>2. CASE ~NeedsRealloc(grown)
    BY <2>1, <2>2 DEF CapacityInv, Columns
  <2>3. CASE NeedsRealloc(grown)
    <3>1. tab.row_capacity = wider /\ DOMAIN tab.columns = DOMAIN tables[t].columns
      BY <1>2, <2>1, <2>3 DEF ReallocTable, TableType
    <3>2. \A c \in DOMAIN tables[t].columns :
            tab.columns[c] = ReallocData(tables[t].columns[c], wider)
      BY <1>2, <2>1, <2>3 DEF ReallocTable, TableType
    <3>3. \A c \in DOMAIN tables[t].columns : tables[t].columns[c] \in ColumnType(tables[t].row_capacity)
      BY ColumnFacts DEF Columns
    <3>4. \A c \in DOMAIN tables[t].columns :
            DOMAIN ReallocData(tables[t].columns[c], wider).data = Slots(wider)
      BY <3>3 DEF ReallocData, ColumnType
    <3>. QED BY <3>1, <3>2, <3>4
  <2>. QED BY <2>2, <2>3
<1>. HIDE DEF tab
<1>. QED BY <1>1, <1>3 DEF CapacityInv, Columns

LEMMA DeleteKeepsCapacity ==
    ASSUME TypeInv, CapacityInv, NEW t \in DOMAIN tables, NEW index \in Nat,
           tables' = [tables EXCEPT ![t] = RemoveRow(tables[t], index)]
    PROVE  CapacityInv'
<1>1. tables[t] \in TableType(tables[t].row_capacity)
  BY TableFacts
<1>2. \A c \in Columns(t) : tables[t].columns[c] \in ColumnType(tables[t].row_capacity)
  BY ColumnFacts
<1>3. \A c \in Columns(t) :
        DOMAIN ShiftDown(tables[t].columns[c], index, tables[t].row_count).data
            = DOMAIN tables[t].columns[c].data
  BY <1>2 DEF ShiftDown, ColumnType
<1>4. /\ RemoveRow(tables[t], index).row_capacity = tables[t].row_capacity
      /\ DOMAIN RemoveRow(tables[t], index).columns = Columns(t)
      /\ \A c \in Columns(t) : RemoveRow(tables[t], index).columns[c]
                = ShiftDown(tables[t].columns[c], index, tables[t].row_count)
  BY <1>1 DEF RemoveRow, TableType, Columns
<1>. QED BY <1>3, <1>4 DEF CapacityInv, Columns

LEMMA NewColumnKeepsCapacity ==
    ASSUME TypeInv, CapacityInv, ~AllocMayFail, NEW t \in DOMAIN tables,
           NEW type, NEW name, TableColumnNew(t, type, name)
    PROVE  CapacityInv'
<1> DEFINE column == NewColumn(t, type, name)
<1>1. tables' = [tables EXCEPT ![t].columns = Append(@, column)]
  BY DEF TableColumnNew
<1>2. tables[t] \in TableType(tables[t].row_capacity)
  BY TableFacts
<1>3. DOMAIN column.data = Slots(tables[t].row_capacity)
  BY DEF NewColumn, ReallocData
<1>. HIDE DEF column
<1>4. tables[t].columns \in Seq(ColumnType(tables[t].row_capacity))
  BY <1>2 DEF TableType
<1>5. /\ tables'[t].row_capacity = tables[t].row_capacity
      /\ tables'[t].columns = Append(tables[t].columns, column)
  BY <1>1, <1>2 DEF TableType
<1>6. \A c \in DOMAIN tables'[t].columns :
        \/ c \in DOMAIN tables[t].columns /\ tables'[t].columns[c] = tables[t].columns[c]
        \/ tables'[t].columns[c] = column
  BY <1>4, <1>5
<1>7. /\ DOMAIN tables' = DOMAIN tables
      /\ \A u \in DOMAIN tables : u # t => tables'[u] = tables[u]
  BY <1>1
<1>. QED BY <1>3, <1>5, <1>6, <1>7 DEF CapacityInv, Columns

LEMMA NewTableKeepsCapacity ==
    ASSUME TypeInv, CapacityInv, NEW name, DbTableNew(name)
    PROVE  CapacityInv'
<1>1. tables' = Append(tables, NewTable(name))
  BY DEF DbTableNew
<1>2. \A t \in DOMAIN tables' : \/ t \in DOMAIN tables /\ tables'[t] = tables[t]
                                \/ tables'[t] = NewTable(name)
  BY <1>1 DEF TypeInv
<1>3. DOMAIN NewTable(name).columns = {}
  BY DEF NewTable
<1>. QED BY <1>2, <1>3 DEF CapacityInv, Columns

LEMMA CapacityStep ==
    ASSUME ~AllocMayFail, TypeInv, CapacityInv, [StorageNext]_storageVars
    PROVE  CapacityInv'
<1>1. ASSUME tables' = tables PROVE CapacityInv'
  BY <1>1 DEF CapacityInv, Columns
<1>2. CASE ClientNewTable
  BY <1>2, NewTableKeepsCapacity DEF ClientNewTable
<1>3. CASE ClientNewColumn
  BY <1>3, NewColumnKeepsCapacity DEF ClientNewColumn
<1>4. CASE ClientAddRow
  BY <1>4, AddRowKeepsCapacity DEF ClientAddRow
<1>5. CASE ClientFill
  <2>1. PICK value \in ValuesFor(fill.table, fill.col) : FillCell(value)
    BY <1>5 DEF ClientFill
  <2>2. fill.table \in DOMAIN tables /\ fill.col \in Columns(fill.table)
    BY <1>5 DEF ClientFill, TypeInv
  <2>3. CASE ~Writable(fill.table, fill.col, fill.row)
    BY <1>1, <2>1, <2>3 DEF FillCell, Crash
  <2>4. CASE Writable(fill.table, fill.col, fill.row)
    <3>1. fill.row \in DOMAIN tables[fill.table].columns[fill.col].data
      BY <2>4 DEF Writable
    <3>2. PICK stored \in Slot :
            tables' = [tables EXCEPT ![fill.table].columns[fill.col].data[fill.row] = stored]
      BY <2>1, <2>4 DEF FillCell, FreeAddr, Slot, ValuesFor
    <3>. QED BY <2>2, <3>1, <3>2, WriteKeepsCapacity
  <2>. QED BY <2>3, <2>4
<1>6. CASE ClientReplace
  <2>1. PICK t \in DOMAIN tables : \E c \in DOMAIN tables[t].columns :
            \E r \in Slots(tables[t].row_count) :
            \E value \in ValuesFor(t, c) : ReplaceCell(t, c, r, value)
    BY <1>6 DEF ClientReplace
  <2>2. PICK c \in Columns(t), r \in Slots(tables[t].row_count) :
            \E value \in ValuesFor(t, c) : ReplaceCell(t, c, r, value)
    BY <2>1 DEF Columns
  <2>3. CASE tables' = tables
    BY <1>1, <2>3
  <2>4. CASE tables' # tables
    <3>1. r \in DOMAIN tables[t].columns[c].data
      BY <2>2, <2>4 DEF ReplaceCell, Crash, Writable
    <3>2. PICK stored \in Slot : tables' = [tables EXCEPT ![t].columns[c].data[r] = stored]
      BY <2>2, <2>4 DEF ReplaceCell, Crash, FreeAddr, Slot, ValuesFor
    <3>. QED BY <3>1, <3>2, WriteKeepsCapacity
  <2>. QED BY <2>3, <2>4
<1>7. CASE ClientDelete
  <2>1. PICK t \in DOMAIN tables : \E r \in 0 .. tables[t].row_count : TableRowDelete(t, r)
    BY <1>7 DEF ClientDelete
  <2>2. PICK r \in 0 .. tables[t].row_count : TableRowDelete(t, r)
    BY <2>1
  <2>3. r \in Nat
    BY TableFacts
  <2>4. tables' = tables \/ tables' = [tables EXCEPT ![t] = RemoveRow(tables[t], r)]
    BY <2>2 DEF TableRowDelete, Crash, storageVars
  <2>. QED BY <1>1, <2>3, <2>4, DeleteKeepsCapacity
<1>8. CASE ClientDeinit
  BY <1>1, <1>8 DEF ClientDeinit, StorageDeinit, Crash
<1>9. CASE UNCHANGED storageVars
  BY <1>1, <1>9 DEF storageVars
<1>. QED BY <1>2, <1>3, <1>4, <1>5, <1>6, <1>7, <1>8, <1>9 DEF StorageNext

LEMMA CapacityInvIsCapacity == TypeInv /\ CapacityInv => CapacityIsAllocated
BY TableFacts DEF CapacityInv, CapacityIsAllocated

\* While memory lasts, row_capacity is what each column has allocated, and
\* more than the rows the table has, however the table grew.
THEOREM CapacityCorrect ==
    ASSUME ~AllocMayFail
    PROVE  StorageSpec => []CapacityIsAllocated
<1>1. StorageInit => TypeInv /\ CapacityInv
  BY EmptySeq DEF StorageInit, TypeInv, NoFill, Filling, CapacityInv
<1>2. TypeInv /\ CapacityInv /\ [StorageNext]_storageVars => TypeInv' /\ CapacityInv'
  BY CapacityStep, StorageTypesStep
<1>. QED BY <1>1, <1>2, CapacityInvIsCapacity, PTL DEF StorageSpec

----------------------------------------------------------------------------
(* Ids and lost columns, whether or not memory runs out: an id designates  *)
(* what it was given to, and a column that lost its data is never read.    *)

\* Ids are spent in order, those of tables and those of columns.
IdsInv ==
    /\ \A t \in DOMAIN tables : tables[t].id < tableId
    /\ \A t, u \in DOMAIN tables : tables[t].id = tables[u].id => t = u
    /\ \A t \in DOMAIN tables : \A c \in Columns(t) : tables[t].columns[c].id < columnId
    /\ \A t, u \in DOMAIN tables : \A c \in Columns(t), d \in Columns(u) :
          tables[t].columns[c].id = tables[u].columns[d].id => t = u /\ c = d

\* Steps that leave tables and columns what they are.
SameColumns ==
    /\ DOMAIN tables' = DOMAIN tables
    /\ \A u \in DOMAIN tables :
          /\ tables'[u].id = tables[u].id
          /\ Columns(u)' = Columns(u)
          /\ \A d \in Columns(u) : tables'[u].columns[d].id = tables[u].columns[d].id

\* ... and what they have allocated.
SameData ==
    \A u \in DOMAIN tables :
        /\ tables'[u].row_capacity = tables[u].row_capacity
        /\ \A d \in Columns(u) :
              DOMAIN tables'[u].columns[d].data = DOMAIN tables[u].columns[d].data

----------------------------------------------------------------------------
(* What calls do to columns.                                               *)

\* A slot is written.
LEMMA WriteKeepsColumns ==
    ASSUME TypeInv, NEW t \in DOMAIN tables, NEW c \in Columns(t),
           NEW r \in DOMAIN tables[t].columns[c].data, NEW value,
           tables' = [tables EXCEPT ![t].columns[c].data[r] = value]
    PROVE  SameColumns /\ SameData
<1>1. tables[t] \in TableType(tables[t].row_capacity)
  BY TableFacts
<1>2. tables[t].columns[c] \in ColumnType(tables[t].row_capacity)
  BY ColumnFacts
<1> DEFINE data == [tables[t].columns[c].data EXCEPT ![r] = value]
           column == [tables[t].columns[c] EXCEPT !.data = data]
           columns == [tables[t].columns EXCEPT ![c] = column]
<1>3. tables' = [tables EXCEPT ![t] = [tables[t] EXCEPT !.columns = columns]]
  BY <1>1, <1>2 DEF TableType, ColumnType
<1>4. column.data = data /\ column.id = tables[t].columns[c].id
  BY <1>2 DEF ColumnType
<1>5. DOMAIN data = DOMAIN tables[t].columns[c].data
  OBVIOUS
<1>. HIDE DEF data, column
<1>6. /\ DOMAIN columns = DOMAIN tables[t].columns
      /\ columns[c] = column
      /\ \A d \in Columns(t) : d # c => columns[d] = tables[t].columns[d]
  BY DEF Columns
<1>. HIDE DEF columns
<1>7. /\ DOMAIN tables' = DOMAIN tables
      /\ tables'[t].columns = columns
      /\ tables'[t].id = tables[t].id
      /\ tables'[t].row_capacity = tables[t].row_capacity
      /\ \A u \in DOMAIN tables : u # t => tables'[u] = tables[u]
  BY <1>1, <1>3 DEF TableType
<1>. QED BY <1>4, <1>5, <1>6, <1>7 DEF SameColumns, SameData, Columns

\* A row is deleted.
LEMMA DeleteKeepsColumns ==
    ASSUME TypeInv, NEW t \in DOMAIN tables, NEW index \in Nat,
           tables' = [tables EXCEPT ![t] = RemoveRow(tables[t], index)]
    PROVE  SameColumns /\ SameData
<1>1. tables[t] \in TableType(tables[t].row_capacity)
  BY TableFacts
<1>2. \A c \in Columns(t) : tables[t].columns[c] \in ColumnType(tables[t].row_capacity)
  BY ColumnFacts
<1>3. \A c \in Columns(t) :
        LET shifted == ShiftDown(tables[t].columns[c], index, tables[t].row_count)
        IN  /\ DOMAIN shifted.data = DOMAIN tables[t].columns[c].data
            /\ shifted.id = tables[t].columns[c].id
  BY <1>2 DEF ShiftDown, ColumnType
<1>4. /\ RemoveRow(tables[t], index).row_capacity = tables[t].row_capacity
      /\ RemoveRow(tables[t], index).id = tables[t].id
      /\ DOMAIN RemoveRow(tables[t], index).columns = Columns(t)
      /\ \A c \in Columns(t) : RemoveRow(tables[t], index).columns[c]
                = ShiftDown(tables[t].columns[c], index, tables[t].row_count)
  BY <1>1 DEF RemoveRow, TableType, Columns
<1>. QED BY <1>3, <1>4 DEF SameColumns, SameData, Columns

\* A row is added; the table may grow, and each of its columns may fail to.
LEMMA AddRowKeepsColumns ==
    ASSUME TypeInv, NEW t \in DOMAIN tables, TableRowAdd(t)
    PROVE  /\ SameColumns
           /\ \A u \in DOMAIN tables : u # t => tables'[u] = tables[u]
           /\ tables[t].columns = <<>> \/ fill' = [table |-> t, row |-> tables[t].row_count, col |-> 1]
<1> DEFINE grown == [tables[t] EXCEPT !.row_count = @ + 1]
           wider == grown.row_capacity * 2
<1>1. PICK failed \in FailureSets(grown) :
        tables' = [tables EXCEPT ![t] = IF NeedsRealloc(grown)
                                        THEN ReallocTable(grown, wider, failed) ELSE grown]
  BY DEF TableRowAdd
<1> DEFINE tab == IF NeedsRealloc(grown) THEN ReallocTable(grown, wider, failed) ELSE grown
<1>2. tables[t] \in TableType(tables[t].row_capacity)
  BY TableFacts
<1>3. grown.columns = tables[t].columns /\ grown.id = tables[t].id
  BY <1>2 DEF TableType
<1>4. /\ tab.id = tables[t].id
      /\ DOMAIN tab.columns = Columns(t)
      /\ \A d \in Columns(t) : tab.columns[d].id = tables[t].columns[d].id
  <2>1. CASE ~NeedsRealloc(grown)
    BY <1>3, <2>1 DEF Columns
  <2>2. CASE NeedsRealloc(grown)
    <3>1. /\ tab.id = tables[t].id
          /\ DOMAIN tab.columns = Columns(t)
          /\ \A d \in Columns(t) : tab.columns[d] =
                IF d \in failed THEN LoseData(tables[t].columns[d])
                                ELSE ReallocData(tables[t].columns[d], wider)
      BY <1>2, <1>3, <2>2 DEF ReallocTable, TableType, Columns
    <3>2. \A d \in Columns(t) : tables[t].columns[d] \in ColumnType(tables[t].row_capacity)
      BY ColumnFacts
    <3>3. \A d \in Columns(t) :
            /\ LoseData(tables[t].columns[d]).id = tables[t].columns[d].id
            /\ ReallocData(tables[t].columns[d], wider).id = tables[t].columns[d].id
      BY <3>2 DEF LoseData, ReallocData, ColumnType
    <3>. HIDE DEF tab, wider
    <3>. QED BY <3>1, <3>3
  <2>. QED BY <2>1, <2>2
<1>5. tables[t].columns = <<>> \/ fill' = [table |-> t, row |-> tables[t].row_count, col |-> 1]
  BY <1>3 DEF TableRowAdd
<1>. HIDE DEF tab
<1>6. /\ DOMAIN tables' = DOMAIN tables
      /\ tables'[t] = tab
      /\ \A u \in DOMAIN tables : u # t => tables'[u] = tables[u]
  BY <1>1 DEF tab
<1>. QED BY <1>4, <1>5, <1>6 DEF SameColumns, Columns

\* A column is added, at the end and with a new id.
LEMMA NewColumnIsLast ==
    ASSUME TypeInv, NEW t \in DOMAIN tables, NEW type, NEW name,
           tables' = [tables EXCEPT ![t].columns = Append(@, NewColumn(t, type, name))]
    PROVE  /\ DOMAIN tables' = DOMAIN tables
           /\ \A u \in DOMAIN tables : u # t => tables'[u] = tables[u]
           /\ tables'[t].id = tables[t].id
           /\ tables'[t].row_capacity = tables[t].row_capacity
           /\ \E last : /\ Columns(t)' = Columns(t) \cup {last} /\ last \notin Columns(t)
                        /\ tables'[t].columns[last].id = columnId
                        /\ DOMAIN tables'[t].columns[last].data = Slots(tables[t].row_capacity)
           /\ \A d \in Columns(t) : tables'[t].columns[d] = tables[t].columns[d]
<1> DEFINE column == NewColumn(t, type, name)
<1>1. tables[t] \in TableType(tables[t].row_capacity)
  BY TableFacts
<1>2. tables[t].columns \in Seq(ColumnType(tables[t].row_capacity))
  BY ColumnFacts, <1>1 DEF TableType
<1>3. column.id = columnId /\ DOMAIN column.data = Slots(tables[t].row_capacity)
  BY DEF NewColumn, ReallocData
<1>. HIDE DEF column
<1>4. /\ tables'[t].id = tables[t].id
      /\ tables'[t].row_capacity = tables[t].row_capacity
      /\ tables'[t].columns = Append(tables[t].columns, column)
  BY <1>1 DEF TableType, column
<1>5. /\ DOMAIN Append(tables[t].columns, column) = Columns(t) \cup {Len(tables[t].columns) + 1}
      /\ Len(tables[t].columns) + 1 \notin Columns(t)
      /\ Append(tables[t].columns, column)[Len(tables[t].columns) + 1] = column
      /\ \A d \in Columns(t) : Append(tables[t].columns, column)[d] = tables[t].columns[d]
  BY <1>2 DEF Columns
<1>6. /\ DOMAIN tables' = DOMAIN tables
      /\ \A u \in DOMAIN tables : u # t => tables'[u] = tables[u]
  OBVIOUS
<1> DEFINE last == Len(tables[t].columns) + 1
<1>7. /\ Columns(t)' = Columns(t) \cup {last} /\ last \notin Columns(t)
      /\ tables'[t].columns[last].id = columnId
      /\ DOMAIN tables'[t].columns[last].data = Slots(tables[t].row_capacity)
  BY <1>3, <1>4, <1>5 DEF Columns
<1>8. \A d \in Columns(t) : tables'[t].columns[d] = tables[t].columns[d]
  BY <1>4, <1>5
<1>. HIDE DEF last
<1>. QED BY <1>4, <1>6, <1>7, <1>8

\* A table is added, without columns.
LEMMA NewTableIsLast ==
    ASSUME TypeInv, NEW name, DbTableNew(name)
    PROVE  \E last : /\ DOMAIN tables' = DOMAIN tables \cup {last} /\ last \notin DOMAIN tables
                     /\ tables'[last].id = tableId /\ Columns(last)' = {}
                     /\ \A t \in DOMAIN tables : tables'[t] = tables[t]
<1>1. tables' = Append(tables, NewTable(name))
  BY DEF DbTableNew
<1>2. /\ DOMAIN tables' = DOMAIN tables \cup {Len(tables) + 1}
      /\ Len(tables) + 1 \notin DOMAIN tables
      /\ tables'[Len(tables) + 1] = NewTable(name)
      /\ \A t \in DOMAIN tables : tables'[t] = tables[t]
  BY <1>1 DEF TypeInv
<1>3. NewTable(name).id = tableId /\ DOMAIN NewTable(name).columns = {}
  BY DEF NewTable
<1>. QED BY <1>2, <1>3 DEF Columns

----------------------------------------------------------------------------
(* Ids.                                                                    *)

\* What leaves the columns as they are leaves their ids right, spent or not.
LEMMA SameColumnsSameIds ==
    ASSUME TypeInv, IdsInv, SameColumns, tableId' = tableId,
           columnId' = columnId \/ columnId' = columnId + 1
    PROVE  IdsInv'
<1>1. \A t \in DOMAIN tables : \A c \in Columns(t) : tables[t].columns[c].id < columnId'
  <2>1. ASSUME NEW t \in DOMAIN tables, NEW c \in Columns(t)
        PROVE  tables[t].columns[c].id \in Nat
    BY ColumnFacts DEF ColumnType
  <2>. QED BY <2>1 DEF IdsInv, TypeInv
<1>. QED BY <1>1 DEF IdsInv, SameColumns

LEMMA NewTableIds ==
    ASSUME TypeInv, IdsInv, NEW name, DbTableNew(name)
    PROVE  IdsInv'
<1>1. PICK last :
         /\ DOMAIN tables' = DOMAIN tables \cup {last} /\ last \notin DOMAIN tables
         /\ tables'[last].id = tableId /\ Columns(last)' = {}
         /\ \A t \in DOMAIN tables : tables'[t] = tables[t]
  BY NewTableIsLast
<1>2. tableId' = tableId + 1 /\ columnId' = columnId /\ tableId \in Nat
  BY DEF DbTableNew, TypeInv
<1>3. \A t \in DOMAIN tables : tables[t].id \in Nat
  BY TableFacts DEF TableType
<1>4. \A t \in DOMAIN tables : tables[t].id < tableId /\ Columns(t)' = Columns(t)
  BY <1>1 DEF IdsInv, Columns
<1>5. \A t \in DOMAIN tables' : tables'[t].id < tableId'
  BY <1>1, <1>2, <1>3, <1>4
<1>6. \A t, u \in DOMAIN tables' : tables'[t].id = tables'[u].id => t = u
  BY <1>1, <1>2, <1>3, <1>4 DEF IdsInv
<1>7. \A t \in DOMAIN tables' : \A c \in Columns(t)' : t \in DOMAIN tables /\ c \in Columns(t)
  BY <1>1, <1>4
<1>8. \A t \in DOMAIN tables' : \A c \in Columns(t)' :
         tables'[t].columns[c].id = tables[t].columns[c].id
  BY <1>1, <1>7
<1>9. \A t \in DOMAIN tables' : \A c \in Columns(t)' : tables'[t].columns[c].id < columnId'
  BY <1>2, <1>7, <1>8 DEF IdsInv
<1>10. \A t, u \in DOMAIN tables' : \A c \in Columns(t)', d \in Columns(u)' :
          tables'[t].columns[c].id = tables'[u].columns[d].id => t = u /\ c = d
  BY <1>7, <1>8 DEF IdsInv
<1>. QED BY <1>5, <1>6, <1>9, <1>10 DEF IdsInv

LEMMA NewColumnIds ==
    ASSUME TypeInv, IdsInv, NEW t \in DOMAIN tables, NEW type, NEW name,
           TableColumnNew(t, type, name)
    PROVE  IdsInv'
<1>1. columnId' = columnId + 1 /\ tableId' = tableId /\ columnId \in Nat
  BY DEF TableColumnNew, TypeInv
<1>2. CASE UNCHANGED tables
  BY <1>1, <1>2, SameColumnsSameIds DEF SameColumns, Columns
<1>3. CASE tables' = [tables EXCEPT ![t].columns = Append(@, NewColumn(t, type, name))]
  <2>1. /\ DOMAIN tables' = DOMAIN tables
        /\ \A u \in DOMAIN tables : u # t => tables'[u] = tables[u]
        /\ tables'[t].id = tables[t].id
        /\ \A d \in Columns(t) : tables'[t].columns[d] = tables[t].columns[d]
    BY <1>3, NewColumnIsLast
  <2>2. PICK last : /\ Columns(t)' = Columns(t) \cup {last} /\ last \notin Columns(t)
                    /\ tables'[t].columns[last].id = columnId
    BY <1>3, NewColumnIsLast
  <2>3. \A u \in DOMAIN tables : tables'[u].id = tables[u].id
    BY <2>1
  <2>4. \A u \in DOMAIN tables : \A d \in Columns(u)' :
           \/ d \in Columns(u) /\ tables'[u].columns[d].id = tables[u].columns[d].id
           \/ u = t /\ d = last /\ tables'[u].columns[d].id = columnId
    BY <2>1, <2>2 DEF Columns
  <2>5. \A u \in DOMAIN tables : \A d \in Columns(u) :
           tables[u].columns[d].id \in Nat /\ tables[u].columns[d].id < columnId
    BY ColumnFacts DEF ColumnType, IdsInv
  <2>6. \A u \in DOMAIN tables' : \A d \in Columns(u)' : tables'[u].columns[d].id < columnId'
    BY <1>1, <2>1, <2>4, <2>5
  <2>7. \A u, v \in DOMAIN tables' : \A c \in Columns(u)', d \in Columns(v)' :
           tables'[u].columns[c].id = tables'[v].columns[d].id => u = v /\ c = d
    BY <1>1, <2>1, <2>4, <2>5 DEF IdsInv
  <2>. QED BY <1>1, <2>1, <2>3, <2>6, <2>7 DEF IdsInv
<1>. QED BY <1>2, <1>3 DEF TableColumnNew

----------------------------------------------------------------------------
(* The client's steps, by what they do to columns.                         *)

\* A value is written, by ClientFill or ClientReplace, or the call crashes.
LEMMA FillIsWrite ==
    ASSUME TypeInv, ClientFill
    PROVE  \/ Crash
           \/ /\ SameColumns /\ SameData /\ UNCHANGED <<tableId, columnId, status>>
              /\ fill' = NextFill
              /\ fill.row \in DOMAIN tables[fill.table].columns[fill.col].data
<1>1. PICK value \in ValuesFor(fill.table, fill.col) : FillCell(value)
  BY DEF ClientFill
<1>2. fill.table \in DOMAIN tables /\ fill.col \in Columns(fill.table)
  BY DEF ClientFill, TypeInv
<1>3. CASE ~Writable(fill.table, fill.col, fill.row)
  BY <1>1, <1>3 DEF FillCell
<1>4. CASE Writable(fill.table, fill.col, fill.row)
  <2>1. fill.row \in DOMAIN tables[fill.table].columns[fill.col].data
    BY <1>4 DEF Writable
  <2>2. PICK stored :
          tables' = [tables EXCEPT ![fill.table].columns[fill.col].data[fill.row] = stored]
    BY <1>1, <1>4 DEF FillCell
  <2>3. SameColumns /\ SameData
    BY <1>2, <2>1, <2>2, WriteKeepsColumns
  <2>. QED BY <1>1, <1>4, <2>1, <2>3 DEF FillCell
<1>. QED BY <1>3, <1>4

LEMMA ReplaceIsWrite ==
    ASSUME TypeInv, ClientReplace
    PROVE  \/ Crash
           \/ SameColumns /\ SameData /\ UNCHANGED <<tableId, columnId, fill, status>>
<1>1. PICK t \in DOMAIN tables : \E c \in DOMAIN tables[t].columns :
         \E r \in Slots(tables[t].row_count) :
         \E value \in ValuesFor(t, c) : ReplaceCell(t, c, r, value)
  BY DEF ClientReplace
<1>2. PICK c \in Columns(t), r \in Slots(tables[t].row_count) :
         \E value \in ValuesFor(t, c) : ReplaceCell(t, c, r, value)
  BY <1>1 DEF Columns
<1>3. PICK value \in ValuesFor(t, c) : ReplaceCell(t, c, r, value)
  BY <1>2
<1>4. CASE ~Crash
  <2>1. /\ r \in DOMAIN tables[t].columns[c].data
        /\ UNCHANGED <<tableId, columnId, fill, status>>
    BY <1>3, <1>4 DEF ReplaceCell, Writable
  <2>2. PICK stored : tables' = [tables EXCEPT ![t].columns[c].data[r] = stored]
    BY <1>3, <1>4 DEF ReplaceCell
  <2>. QED BY <2>1, <2>2, WriteKeepsColumns
<1>. QED BY <1>4

LEMMA DeleteIsShift ==
    ASSUME TypeInv, ClientDelete
    PROVE  \/ Crash
           \/ SameColumns /\ SameData /\ UNCHANGED <<tableId, columnId, fill, status>>
<1>1. PICK t \in DOMAIN tables : \E r \in 0 .. tables[t].row_count : TableRowDelete(t, r)
  BY DEF ClientDelete
<1>2. PICK r \in 0 .. tables[t].row_count : TableRowDelete(t, r)
  BY <1>1
<1>3. r \in Nat
  BY TableFacts
<1>4. CASE UNCHANGED storageVars
  BY <1>4 DEF storageVars, SameColumns, SameData, Columns
<1>5. CASE tables' = [tables EXCEPT ![t] = RemoveRow(tables[t], r)]
           /\ UNCHANGED <<tableId, columnId, fill, status>>
  BY <1>3, <1>5, DeleteKeepsColumns
<1>. QED BY <1>2, <1>4, <1>5 DEF TableRowDelete

\* A crash, the end and a stutter leave the tables alone.
LEMMA TablesStay ==
    ASSUME Crash \/ ClientDeinit \/ UNCHANGED storageVars
    PROVE  /\ SameColumns /\ SameData /\ UNCHANGED <<tableId, columnId, fill>>
           /\ status' = status \/ status' # "up"
BY DEF Crash, ClientDeinit, StorageDeinit, storageVars, SameColumns, SameData, Columns

LEMMA IdsStep == TypeInv /\ IdsInv /\ [StorageNext]_storageVars => IdsInv'
<1>. SUFFICES ASSUME TypeInv, IdsInv, [StorageNext]_storageVars PROVE IdsInv'
  OBVIOUS
<1>1. ASSUME SameColumns, UNCHANGED <<tableId, columnId>> PROVE IdsInv'
  BY <1>1, SameColumnsSameIds
<1>2. CASE Crash \/ ClientDeinit \/ UNCHANGED storageVars
  BY <1>1, <1>2, TablesStay
<1>3. CASE ClientNewTable
  BY <1>3, NewTableIds DEF ClientNewTable
<1>4. CASE ClientNewColumn
  BY <1>4, NewColumnIds DEF ClientNewColumn
<1>5. CASE ClientAddRow
  <2>1. PICK t \in DOMAIN tables : TableRowAdd(t)
    BY <1>5 DEF ClientAddRow
  <2>. QED BY <1>1, <2>1, AddRowKeepsColumns DEF TableRowAdd
<1>6. CASE ClientFill
  BY <1>1, <1>2, <1>6, FillIsWrite
<1>7. CASE ClientReplace
  BY <1>1, <1>2, <1>7, ReplaceIsWrite
<1>8. CASE ClientDelete
  BY <1>1, <1>2, <1>8, DeleteIsShift
<1>. QED BY <1>2, <1>3, <1>4, <1>5, <1>6, <1>7, <1>8 DEF StorageNext

\* Distinct ids are found by the search for the first.
LEMMA IdsInvDesignates == TypeInv /\ IdsInv => IdsDesignate
<1>. SUFFICES ASSUME TypeInv, IdsInv PROVE IdsDesignate
  OBVIOUS
<1>1. ASSUME NEW t \in DOMAIN tables
      PROVE  TableWithId(tables[t].id) = t
  <2>1. TablesWithId(tables[t].id) = {t}
    BY DEF TablesWithId, IdsInv
  <2>2. t \in Nat
    BY TableFacts
  <2>. QED BY <2>1, <2>2 DEF TableWithId, IsFirst
<1>. QED BY <1>1 DEF IdsDesignate, IdsInv

\* Whether or not memory runs out, a table's id finds that table and no column
\* shares its id with another: ids of columns that could not be allocated are
\* spent and never given again.
THEOREM IdsAlwaysDesignate == StorageSpec => []IdsDesignate
<1>1. StorageInit => TypeInv /\ IdsInv
  BY EmptySeq DEF StorageInit, TypeInv, NoFill, Filling, IdsInv
<1>2. TypeInv /\ IdsInv /\ [StorageNext]_storageVars => TypeInv' /\ IdsInv'
  BY IdsStep, StorageTypesStep
<1>. QED BY <1>1, <1>2, IdsInvDesignates, PTL DEF StorageSpec

----------------------------------------------------------------------------
(* Columns that lost their data.                                           *)

LEMMA LostColumnStep ==
    TypeInv /\ LostColumnIsNeverRead /\ [StorageNext]_storageVars => LostColumnIsNeverRead'
<1>. SUFFICES ASSUME TypeInv, LostColumnIsNeverRead, [StorageNext]_storageVars,
                     status' = "up"
              PROVE  LostColumnIsNeverRead'
  BY DEF LostColumnIsNeverRead
<1> DEFINE Whole(t, c) == DOMAIN tables[t].columns[c].data = Slots(tables[t].row_capacity)
<1>1. ASSUME status = "up", SameColumns, SameData, fill' = fill
      PROVE  LostColumnIsNeverRead'
  BY <1>1 DEF LostColumnIsNeverRead, SameColumns, SameData, Filling
<1>2. CASE Crash \/ ClientDeinit \/ UNCHANGED storageVars
  <2>1. status = "up"
    BY <1>2 DEF Crash, ClientDeinit, Ready, storageVars
  <2>. QED BY <1>1, <1>2, <2>1, TablesStay
<1>3. ASSUME Ready, NEW t \in DOMAIN tables, NEW c \in Columns(t) PROVE Whole(t, c)
  BY <1>3 DEF Ready, LostColumnIsNeverRead
<1>4. CASE ClientNewTable
  <2>1. Ready
    BY <1>4 DEF ClientNewTable
  <2>2. PICK name \in TableName : DbTableNew(name)
    BY <1>4 DEF ClientNewTable
  <2>3. PICK last :
          /\ DOMAIN tables' = DOMAIN tables \cup {last} /\ Columns(last)' = {}
          /\ \A t \in DOMAIN tables : tables'[t] = tables[t]
    BY <2>2, NewTableIsLast
  <2>. QED BY <1>3, <2>1, <2>3 DEF LostColumnIsNeverRead, Columns
<1>5. CASE ClientNewColumn
  <2>1. Ready
    BY <1>5 DEF ClientNewColumn
  <2>2. PICK t \in DOMAIN tables, type \in BaseType, name \in ColumnName :
           TableColumnNew(t, type, name)
    BY <1>5 DEF ClientNewColumn
  <2>3. CASE UNCHANGED tables
    BY <1>3, <2>1, <2>3 DEF LostColumnIsNeverRead, Columns
  <2>4. CASE tables' = [tables EXCEPT ![t].columns = Append(@, NewColumn(t, type, name))]
    <3>1. /\ DOMAIN tables' = DOMAIN tables
          /\ \A u \in DOMAIN tables : u # t => tables'[u] = tables[u]
          /\ tables'[t].row_capacity = tables[t].row_capacity
          /\ \A d \in Columns(t) : tables'[t].columns[d] = tables[t].columns[d]
      BY <2>4, NewColumnIsLast
    <3>2. PICK last :
            /\ Columns(t)' = Columns(t) \cup {last}
            /\ DOMAIN tables'[t].columns[last].data = Slots(tables[t].row_capacity)
      BY <2>4, NewColumnIsLast
    <3>. QED BY <1>3, <2>1, <3>1, <3>2 DEF LostColumnIsNeverRead, Columns
  <2>. QED BY <2>2, <2>3, <2>4 DEF TableColumnNew
<1>6. CASE ClientAddRow
  <2>1. Ready
    BY <1>6 DEF ClientAddRow
  <2>2. PICK t \in DOMAIN tables : TableRowAdd(t)
    BY <1>6 DEF ClientAddRow
  <2>3. /\ SameColumns
        /\ \A u \in DOMAIN tables : u # t => tables'[u] = tables[u]
    BY <2>2, AddRowKeepsColumns
  <2>4. ASSUME NEW c \in Columns(t)
        PROVE  Filling' /\ fill'.table = t /\ fill'.col <= c
    <3>1. tables[t].columns # <<>> /\ c \in Nat /\ 1 <= c
      BY ColumnFacts DEF Columns
    <3>2. fill' = [table |-> t, row |-> tables[t].row_count, col |-> 1]
      BY <2>2, <3>1, AddRowKeepsColumns
    <3>. QED BY <3>1, <3>2 DEF Filling
  <2>. QED BY <1>3, <2>1, <2>3, <2>4 DEF LostColumnIsNeverRead, SameColumns, Columns
<1>7. CASE ClientFill
  <2>1. status = "up" /\ Filling
    BY <1>7 DEF ClientFill
  <2>2. CASE ~Crash
    <3>1. /\ SameColumns /\ SameData /\ fill' = NextFill
          /\ fill.row \in DOMAIN tables[fill.table].columns[fill.col].data
      BY <1>7, <2>2, FillIsWrite
    <3>2. /\ fill.table \in DOMAIN tables /\ fill.col \in Columns(fill.table)
          /\ fill \in [table : Nat, row : Nat, col : Nat]
      BY <2>1 DEF TypeInv
    <3>3. Whole(fill.table, fill.col)
      <4>1. tables[fill.table].columns[fill.col]
               \in ColumnType(tables[fill.table].row_capacity)
        BY <3>2, ColumnFacts
      <4>. QED BY <3>1, <4>1 DEF ColumnType
    <3>4. ASSUME NEW t \in DOMAIN tables, NEW c \in Columns(t), ~Whole(t, c)
          PROVE  Filling' /\ fill'.table = t /\ fill'.col <= c
      <4>1. fill.table = t /\ fill.col <= c /\ c # fill.col
        BY <2>1, <3>3, <3>4 DEF LostColumnIsNeverRead
      <4>2. c \in Nat /\ c <= Len(tables[t].columns) /\ Len(tables[t].columns) \in Nat
        BY ColumnFacts, LenProperties
      <4>3. fill.col < Len(tables[t].columns) /\ fill.col + 1 <= c
        BY <3>2, <4>1, <4>2
      <4>4. fill' = [fill EXCEPT !.col = @ + 1]
        BY <3>1, <4>1, <4>3 DEF NextFill
      <4>. QED BY <3>2, <4>1, <4>3, <4>4 DEF Filling
    <3>. QED BY <3>1, <3>4 DEF LostColumnIsNeverRead, SameColumns, SameData
  <2>. QED BY <1>2, <2>2
<1>8. CASE ClientReplace
  BY <1>1, <1>2, <1>8, ReplaceIsWrite DEF ClientReplace, Ready
<1>9. CASE ClientDelete
  BY <1>1, <1>2, <1>9, DeleteIsShift DEF ClientDelete, Ready
<1>. QED BY <1>2, <1>4, <1>5, <1>6, <1>7, <1>8, <1>9 DEF StorageNext

\* When realloc fails while a table grows, a column that lost its data is one the
\* client has yet to fill in the new row: whatever memory does, nothing reads it.
THEOREM LostColumnsAreNeverRead == StorageSpec => []LostColumnIsNeverRead
<1>1. StorageInit => TypeInv /\ LostColumnIsNeverRead
  BY EmptySeq DEF StorageInit, TypeInv, NoFill, Filling, LostColumnIsNeverRead
<1>2. /\ TypeInv /\ LostColumnIsNeverRead /\ [StorageNext]_storageVars
      => TypeInv' /\ LostColumnIsNeverRead'
  BY LostColumnStep, StorageTypesStep
<1>. QED BY <1>1, <1>2, PTL DEF StorageSpec

----------------------------------------------------------------------------
(* While memory lasts, BazaStorage neither follows a dangling pointer, nor *)
(* frees twice, nor loses a string: the strings on the heap are at every   *)
(* moment in one-to-one correspondence with the string slots of the rows.  *)


\* A string slot of a row that has been written.
Owns(t, c, r) ==
    /\ t \in DOMAIN tables
    /\ c \in Columns(t)
    /\ r \in Slots(tables[t].row_count)
    /\ IsString(t, c)
    /\ Written(t, r, c)

\* Each holds the address of a live string, which no other holds ...
OwnershipInv ==
    /\ \A t, c, r \in Nat :
          Owns(t, c, r) => Cell(t, c, r) \in Addr /\ heap[Cell(t, c, r)] # Free
    /\ \A t1, c1, r1, t2, c2, r2 \in Nat :
          /\ Owns(t1, c1, r1) /\ Owns(t2, c2, r2)
          /\ Cell(t1, c1, r1) = Cell(t2, c2, r2)
          => t1 = t2 /\ c1 = c2 /\ r1 = r2

\* ... and each live string is held by one of them.
NoOrphan ==
    \A a \in Addr : heap[a] # Free =>
        \E t, c, r \in Nat : Owns(t, c, r) /\ Cell(t, c, r) = a

HeapInv ==
    /\ status # "crashed"
    /\ status = "up" => OwnershipInv /\ NoOrphan
    /\ status = "down" => \A a \in Addr : heap[a] = Free

Inv == TypeInv /\ CapacityInv /\ HeapInv

----------------------------------------------------------------------------
(* What the slots of a well-formed table are.                              *)

LEMMA OwnsFacts ==
    ASSUME TypeInv, CapacityInv, NEW t, NEW c, NEW r, Owns(t, c, r)
    PROVE  /\ t \in Nat /\ c \in Nat /\ r \in Nat
           /\ r \in DOMAIN tables[t].columns[c].data
           /\ r < tables[t].row_count
           /\ tables[t].row_count < tables[t].row_capacity
<1>1. tables[t].row_count \in Nat /\ tables[t].row_count < tables[t].row_capacity
      /\ t \in Nat /\ tables[t].row_capacity \in Nat
  BY TableFacts DEF Owns
<1>2. c \in Nat
  BY ColumnFacts DEF Owns
<1>3. r \in Nat /\ r < tables[t].row_count
  BY <1>1 DEF Owns, Slots
<1>4. r \in Slots(tables[t].row_capacity)
  BY <1>1, <1>3 DEF Slots
<1>. QED BY <1>1, <1>2, <1>3, <1>4 DEF Owns, CapacityInv

\* CanFree speaks of a set of slots as tuples.
LEMMA CanFreeOwned ==
    ASSUME TypeInv, CapacityInv, OwnershipInv, NEW slots,
           \A s \in slots : \E t, c, r : s = <<t, c, r>> /\ Owns(t, c, r)
    PROVE  CanFree(slots)
<1>1. ASSUME NEW s \in slots
      PROVE  /\ s[3] \in DOMAIN tables[s[1]].columns[s[2]].data
             /\ Held(s) \in Addr
             /\ heap[Held(s)] # Free
  <2>1. PICK t, c, r : s = <<t, c, r>> /\ Owns(t, c, r)
    OBVIOUS
  <2>2. t \in Nat /\ c \in Nat /\ r \in Nat /\ r \in DOMAIN tables[t].columns[c].data
    BY <2>1, OwnsFacts
  <2>3. s[1] = t /\ s[2] = c /\ s[3] = r /\ Held(s) = Cell(t, c, r)
    BY <2>1 DEF Held
  <2>. QED BY <2>1, <2>2, <2>3 DEF OwnershipInv
<1>2. ASSUME NEW s1 \in slots, NEW s2 \in slots, Held(s1) = Held(s2)
      PROVE  s1 = s2
  <2>1. PICK t1, c1, r1 : s1 = <<t1, c1, r1>> /\ Owns(t1, c1, r1)
    OBVIOUS
  <2>2. PICK t2, c2, r2 : s2 = <<t2, c2, r2>> /\ Owns(t2, c2, r2)
    OBVIOUS
  <2>3. /\ t1 \in Nat /\ c1 \in Nat /\ r1 \in Nat
        /\ t2 \in Nat /\ c2 \in Nat /\ r2 \in Nat
    BY <2>1, <2>2, OwnsFacts
  <2>4. Cell(t1, c1, r1) = Cell(t2, c2, r2)
    BY <1>2, <2>1, <2>2 DEF Held
  <2>. QED BY <2>1, <2>2, <2>3, <2>4 DEF OwnershipInv
<1>. QED BY <1>1, <1>2 DEF CanFree

LEMMA OwnedSlotsAreOwned ==
    ASSUME TypeInv
    PROVE  \A s : s \in OwnedSlots <=>
                    \E t, c, r : s = <<t, c, r>> /\ Owns(t, c, r)
<1>1. ASSUME NEW s \in OwnedSlots
      PROVE  \E t, c, r : s = <<t, c, r>> /\ Owns(t, c, r)
  <2>1. PICK t \in DOMAIN tables :
            s \in StringSlots(t, Slots(tables[t].row_count)) /\ Written(t, s[3], s[2])
    BY <1>1 DEF OwnedSlots
  <2>2. PICK c \in Columns(t), r \in Slots(tables[t].row_count) : s = <<t, c, r>>
    BY <2>1 DEF StringSlots, Columns
  <2>3. IsString(t, c) /\ Written(t, r, c)
    BY <2>1, <2>2 DEF StringSlots
  <2>. QED BY <2>1, <2>2, <2>3 DEF Owns
<1>2. ASSUME NEW t, NEW c, NEW r, Owns(t, c, r)
      PROVE  <<t, c, r>> \in OwnedSlots
  <2>1. <<t, c, r>> \in StringSlots(t, Slots(tables[t].row_count))
    BY <1>2 DEF Owns, StringSlots, Columns
  <2>. QED BY <1>2, <2>1 DEF OwnedSlots, Owns
<1>. QED BY <1>1, <1>2

----------------------------------------------------------------------------
(* Calls that touch no string.                                             *)

\* When the same slots own the same addresses, nothing changes.
LEMMA SameOwners ==
    ASSUME TypeInv, HeapInv, UNCHANGED <<heap, status>>,
           \A t, c, r : Owns(t, c, r)' <=> Owns(t, c, r),
           \A t, c, r : Owns(t, c, r) => Cell(t, c, r)' = Cell(t, c, r)
    PROVE  HeapInv'
BY DEF HeapInv, OwnershipInv, NoOrphan

LEMMA NewTableKeepsOwners ==
    ASSUME Inv, ~Filling, NEW name, DbTableNew(name)
    PROVE  HeapInv'
<1>1. tables' = Append(tables, NewTable(name)) /\ UNCHANGED <<heap, columnId, fill, status>>
  BY DEF DbTableNew
<1>2. /\ DOMAIN tables' = DOMAIN tables \cup {Len(tables) + 1}
      /\ tables'[Len(tables) + 1] = NewTable(name)
      /\ \A t \in DOMAIN tables : tables'[t] = tables[t]
  BY <1>1 DEF Inv, TypeInv
<1>3. DOMAIN NewTable(name).columns = {}
  BY DEF NewTable
<1>4. Len(tables) + 1 \notin DOMAIN tables
  BY LenProperties DEF Inv, TypeInv
<1>5. ASSUME NEW t, NEW c, NEW r
      PROVE  Owns(t, c, r)' <=> Owns(t, c, r)
  BY <1>1, <1>2, <1>3, <1>4 DEF Owns, Columns, IsString, TypeOf, Written, Filling
<1>6. ASSUME NEW t, NEW c, NEW r, Owns(t, c, r)
      PROVE  Cell(t, c, r)' = Cell(t, c, r)
  BY <1>2, <1>6 DEF Owns, Cell
<1>. QED BY <1>1, <1>5, <1>6, SameOwners DEF Inv

LEMMA NewColumnKeepsOwners ==
    ASSUME Inv, ~Filling, NEW t \in DOMAIN tables, NEW type, NEW name,
           TableColumnNew(t, type, name)
    PROVE  HeapInv'
<1> DEFINE column == NewColumn(t, type, name)
<1>1. UNCHANGED <<heap, fill, status>>
  BY DEF TableColumnNew
<1>2. CASE UNCHANGED tables
  <2>1. \A u, c, r : Owns(u, c, r)' <=> Owns(u, c, r)
    BY <1>1, <1>2 DEF Owns, Columns, IsString, TypeOf, Written, Filling
  <2>2. \A u, c, r : Cell(u, c, r)' = Cell(u, c, r)
    BY <1>2 DEF Cell
  <2>. QED BY <1>1, <2>1, <2>2, SameOwners DEF Inv
<1>3. CASE tables' = [tables EXCEPT ![t].columns = Append(@, column)]
  <2>. HIDE DEF column
  <2>1. tables[t].row_count = 0
    BY TableFacts DEF TableColumnNew, ColumnNewResult, Inv
  <2>2. tables[t] \in TableType(tables[t].row_capacity)
    BY TableFacts DEF Inv
  <2>3. /\ DOMAIN tables' = DOMAIN tables
        /\ tables'[t].row_count = 0
        /\ \A u \in DOMAIN tables : u # t => tables'[u] = tables[u]
    BY <1>3, <2>1, <2>2 DEF TableType
  <2>4. ASSUME NEW c, NEW r
        PROVE  ~Owns(t, c, r) /\ ~Owns(t, c, r)'
    BY <2>1, <2>3 DEF Owns, Slots
  <2>5. ASSUME NEW u, NEW c, NEW r, u # t
        PROVE  Owns(u, c, r)' <=> Owns(u, c, r)
    BY <1>1, <2>3, <2>5 DEF Owns, Columns, IsString, TypeOf, Written, Filling
  <2>6. ASSUME NEW u, NEW c, NEW r, Owns(u, c, r)
        PROVE  Cell(u, c, r)' = Cell(u, c, r)
    BY <2>3, <2>4, <2>6 DEF Cell, Owns
  <2>. QED BY <1>1, <2>4, <2>5, <2>6, SameOwners DEF Inv
<1>. QED BY <1>2, <1>3 DEF TableColumnNew

\* Growth copies the slots there are; the new row is not written yet.
LEMMA AddRowKeepsOwners ==
    ASSUME Inv, ~AllocMayFail, ~Filling, NEW t \in DOMAIN tables, TableRowAdd(t)
    PROVE  HeapInv'
<1> DEFINE grown == [tables[t] EXCEPT !.row_count = @ + 1]
           wider == grown.row_capacity * 2
           tab == IF NeedsRealloc(grown) THEN ReallocTable(grown, wider, {}) ELSE grown
           n == tables[t].row_count
<1>1. tables' = [tables EXCEPT ![t] = tab] /\ UNCHANGED <<heap, status>>
  BY DEF TableRowAdd, FailureSets
<1>2. /\ tables[t] \in TableType(tables[t].row_capacity)
      /\ n \in Nat /\ n < tables[t].row_capacity
      /\ tables[t].row_capacity \in Nat \ {0}
  BY TableFacts DEF Inv
<1>3. /\ grown.columns = tables[t].columns
      /\ grown.row_capacity = tables[t].row_capacity
      /\ grown.row_count = n + 1
  BY <1>2 DEF TableType
<1>4. tab.row_count = n + 1 /\ DOMAIN tab.columns = Columns(t)
  BY <1>2, <1>3 DEF ReallocTable, TableType, Columns
<1>5. ASSUME NEW c \in Columns(t)
      PROVE  /\ tab.columns[c].type = tables[t].columns[c].type
             /\ \A r \in Slots(n) : tab.columns[c].data[r] = Cell(t, c, r)
  <2>1. tables[t].columns[c] \in ColumnType(tables[t].row_capacity)
    BY ColumnFacts DEF Inv
  <2>2. DOMAIN tables[t].columns[c].data = Slots(tables[t].row_capacity)
    BY DEF Inv, CapacityInv
  <2>3. CASE ~NeedsRealloc(grown)
    BY <1>3, <2>3 DEF Cell
  <2>4. CASE NeedsRealloc(grown)
    <3>1. tab.columns[c] = ReallocData(tables[t].columns[c], wider)
      BY <1>2, <1>3, <2>4 DEF ReallocTable, TableType, Columns
    <3>2. \A r \in Slots(n) : r \in Slots(wider) /\ r \in Slots(tables[t].row_capacity)
      BY <1>2, <1>3 DEF Slots
    <3>. QED BY <2>1, <2>2, <3>1, <3>2 DEF ReallocData, ColumnType, Cell
  <2>. QED BY <2>3, <2>4
<1>. HIDE DEF tab
<1>6. /\ DOMAIN tables' = DOMAIN tables
      /\ tables'[t] = tab
      /\ \A u \in DOMAIN tables : u # t => tables'[u] = tables[u]
  BY <1>1
<1>7. fill' = IF tables[t].columns = <<>> THEN NoFill
              ELSE [table |-> t, row |-> n, col |-> 1]
  BY <1>3 DEF TableRowAdd
<1>8. \A c \in Columns(t) : c \in Nat /\ c >= 1
  BY ColumnFacts DEF Inv
<1>9. tables[t].columns = <<>> => Columns(t) = {}
  BY DEF Columns
<1>10. ASSUME NEW u, NEW c, NEW r
       PROVE  Owns(u, c, r)' <=> Owns(u, c, r)
  <2>1. CASE u # t
    BY <1>6, <1>7, <2>1 DEF Owns, Columns, IsString, TypeOf, Written, Filling, NoFill
  <2>2. CASE u = t /\ c \notin Columns(t)
    BY <1>4, <1>6, <2>2 DEF Owns, Columns
  <2>3. CASE u = t /\ c \in Columns(t)
    <3>1. IsString(t, c)' <=> IsString(t, c)
      BY <1>5, <1>6, <2>3 DEF IsString, TypeOf
    <3>2. fill' = [table |-> t, row |-> n, col |-> 1]
      BY <1>7, <1>9, <2>3
    <3>3. Written(t, r, c)' <=> r # n
      BY <1>8, <2>3, <3>2 DEF Written, Filling
    <3>4. Written(t, r, c)
      BY DEF Written
    <3>5. r \in Slots(n + 1) /\ r # n <=> r \in Slots(n)
      BY <1>2 DEF Slots
    <3>. QED BY <1>4, <1>6, <2>3, <3>1, <3>3, <3>4, <3>5 DEF Owns, Columns
  <2>. QED BY <2>1, <2>2, <2>3
<1>11. ASSUME NEW u, NEW c, NEW r, Owns(u, c, r)
       PROVE  Cell(u, c, r)' = Cell(u, c, r)
  BY <1>5, <1>6, <1>11 DEF Owns, Cell
<1>. QED BY <1>1, <1>10, <1>11, SameOwners DEF Inv

----------------------------------------------------------------------------
(* Calls that write one slot.                                              *)

\* One slot is written; OthersKept: every other slot shows what it showed.
WritesSlot(t, c, r, value) ==
    tables' = [tables EXCEPT ![t].columns[c].data[r] = value]

OthersKept(t, c, r) ==
    \A u \in DOMAIN tables : \A d \in Columns(u) :
    \A q \in DOMAIN tables[u].columns[d].data :
       <<u, d, q>> # <<t, c, r>> => Cell(u, d, q)' = Cell(u, d, q)

\* The slot written holds the new value, the others what they held.
LEMMA WrittenSlot ==
    ASSUME TypeInv, CapacityInv, NEW t \in DOMAIN tables, NEW c \in Columns(t),
           NEW r \in DOMAIN tables[t].columns[c].data, NEW value,
           WritesSlot(t, c, r, value)
    PROVE  /\ DOMAIN tables' = DOMAIN tables
           /\ \A u \in DOMAIN tables :
                 /\ Columns(u)' = Columns(u)
                 /\ tables'[u].row_count = tables[u].row_count
           /\ \A u \in DOMAIN tables : \A d \in Columns(u) : IsString(u, d)' <=> IsString(u, d)
           /\ Cell(t, c, r)' = value
           /\ OthersKept(t, c, r)
<1>1. tables[t] \in TableType(tables[t].row_capacity)
  BY TableFacts
<1>2. tables[t].columns[c] \in ColumnType(tables[t].row_capacity)
  BY ColumnFacts
<1> DEFINE data == [tables[t].columns[c].data EXCEPT ![r] = value]
           column == [tables[t].columns[c] EXCEPT !.data = data]
           columns == [tables[t].columns EXCEPT ![c] = column]
<1>3. tables' = [tables EXCEPT ![t] = [tables[t] EXCEPT !.columns = columns]]
  BY <1>1, <1>2 DEF TableType, ColumnType, WritesSlot
<1>4. column.data = data /\ column.type = tables[t].columns[c].type
  BY <1>2 DEF ColumnType
<1>5. /\ data[r] = value
      /\ \A q \in DOMAIN tables[t].columns[c].data :
            q # r => data[q] = tables[t].columns[c].data[q]
  OBVIOUS
<1>. HIDE DEF data, column
<1>6. /\ DOMAIN columns = DOMAIN tables[t].columns
      /\ columns[c] = column
      /\ \A d \in Columns(t) : d # c => columns[d] = tables[t].columns[d]
  BY DEF Columns
<1>. HIDE DEF columns
<1>7. /\ DOMAIN tables' = DOMAIN tables
      /\ tables'[t].columns = columns
      /\ tables'[t].row_count = tables[t].row_count
      /\ \A u \in DOMAIN tables : u # t => tables'[u] = tables[u]
  BY <1>1, <1>3 DEF TableType
<1>. QED BY <1>4, <1>5, <1>6, <1>7 DEF Cell, Columns, IsString, TypeOf, OthersKept

LEMMA FillCellKeepsOwners ==
    ASSUME Inv, status = "up", Filling,
           NEW value \in ValuesFor(fill.table, fill.col), FillCell(value)
    PROVE  HeapInv'
<1>. SUFFICES ASSUME NEW t, NEW c, NEW r, fill = [table |-> t, row |-> r, col |-> c]
              PROVE  HeapInv'
  BY DEF Inv, TypeInv
<1>1. /\ t \in DOMAIN tables /\ c \in Columns(t) /\ r = tables[t].row_count - 1
      /\ r \in Nat /\ c \in Nat /\ t \in Nat
  BY DEF Inv, TypeInv
<1>2. tables[t].row_count \in Nat /\ tables[t].row_count < tables[t].row_capacity
      /\ tables[t].row_capacity \in Nat
  BY <1>1, TableFacts DEF Inv
<1>3. r \in DOMAIN tables[t].columns[c].data
  <2>1. r \in Slots(tables[t].row_capacity)
    BY <1>1, <1>2 DEF Slots
  <2>. QED BY <1>1, <2>1 DEF Inv, CapacityInv
<1>4. Writable(t, c, r)
  BY <1>1, <1>2, <1>3 DEF Writable, RowPointer
<1>5. fill' = NextFill /\ status' = status
  BY <1>4 DEF FillCell
<1>6. PICK stored \in Slot :
          /\ tables' = [tables EXCEPT ![t].columns[c].data[r] = stored]
          /\ IsString(t, c) => /\ stored \in FreeAddr(heap)
                               /\ heap' = [heap EXCEPT ![stored] = value]
          /\ ~IsString(t, c) => heap' = heap
  BY <1>4 DEF FillCell, FreeAddr, Slot, ValuesFor
<1>7. /\ DOMAIN tables' = DOMAIN tables
      /\ \A u \in DOMAIN tables :
            /\ Columns(u)' = Columns(u)
            /\ tables'[u].row_count = tables[u].row_count
      /\ \A u \in DOMAIN tables : \A d \in Columns(u) : IsString(u, d)' <=> IsString(u, d)
      /\ Cell(t, c, r)' = stored
      /\ \A u \in DOMAIN tables : \A d \in Columns(u) :
         \A q \in DOMAIN tables[u].columns[d].data :
            <<u, d, q>> # <<t, c, r>> => Cell(u, d, q)' = Cell(u, d, q)
  <2>1. TypeInv /\ CapacityInv
    BY DEF Inv
  <2>2. tables' = [tables EXCEPT ![t].columns[c].data[r] = stored]
    BY <1>6
  <2>3. t \in DOMAIN tables /\ c \in Columns(t)
    BY <1>1
  <2>. QED BY <1>3, <2>1, <2>2, <2>3, WrittenSlot DEF WritesSlot, OthersKept
<1>8. ASSUME NEW u \in DOMAIN tables, NEW d \in Columns(u), NEW q
      PROVE  Written(u, q, d)' <=> Written(u, q, d) \/ <<u, d, q>> = <<t, c, r>>
  <2>1. d \in Nat /\ d \in 1 .. Len(tables[u].columns) /\ Len(tables[u].columns) \in Nat
    BY ColumnFacts, LenProperties DEF Inv
  <2>2. Written(u, q, d) <=> ~(u = t /\ q = r /\ d >= c)
    BY DEF Written
  <2>3. CASE c < Len(tables[t].columns)
    <3>1. fill' = [fill EXCEPT !.col = @ + 1]
      BY <1>5, <2>3 DEF NextFill
    <3>2. Filling' /\ fill'.table = t /\ fill'.row = r /\ fill'.col = c + 1
      <4>1. fill \in [table : Nat, row : Nat, col : Nat]
        BY DEF Inv, TypeInv
      <4>. QED BY <1>1, <3>1, <4>1 DEF Filling
    <3>. QED BY <1>1, <2>1, <2>2, <3>2 DEF Written
  <2>4. CASE ~(c < Len(tables[t].columns))
    <3>1. fill' = NoFill
      BY <1>5, <2>4 DEF NextFill
    <3>2. ~Filling'
      BY <3>1 DEF Filling, NoFill
    <3>3. Written(u, q, d)'
      BY <3>2 DEF Written
    <3>4. u = t => d <= c
      BY <1>1, <2>1, <2>4
    <3>. QED BY <1>1, <2>1, <2>2, <3>3, <3>4
  <2>. QED BY <2>3, <2>4
<1>9. ASSUME NEW u, NEW d, NEW q
      PROVE  Owns(u, d, q)' <=>
                \/ Owns(u, d, q)
                \/ <<u, d, q>> = <<t, c, r>> /\ IsString(t, c)
  <2>1. r \in Slots(tables[t].row_count)
    BY <1>1, <1>2 DEF Slots
  <2>2. CASE u \in DOMAIN tables /\ d \in Columns(u)
    BY <1>1, <1>7, <1>8, <2>1, <2>2 DEF Owns
  <2>3. CASE ~(u \in DOMAIN tables /\ d \in Columns(u))
    BY <1>1, <1>7, <2>3 DEF Owns
  <2>. QED BY <2>2, <2>3
<1>10. ~Owns(t, c, r)
  BY <1>1 DEF Owns, Written
<1>11. ASSUME NEW u, NEW d, NEW q, Owns(u, d, q)
       PROVE  Cell(u, d, q)' = Cell(u, d, q)
  <2>1. <<u, d, q>> # <<t, c, r>>
    BY <1>10, <1>11
  <2>2. q \in DOMAIN tables[u].columns[d].data
    BY <1>11, OwnsFacts DEF Inv
  <2>. QED BY <1>7, <1>11, <2>1, <2>2 DEF Owns
<1>12. CASE ~IsString(t, c)
  BY <1>5, <1>6, <1>9, <1>11, <1>12, SameOwners DEF Inv
<1>13. CASE IsString(t, c)
  <2> DEFINE a == stored
  <2>1. heap' = [heap EXCEPT ![a] = value]
    BY <1>6, <1>13
  <2>2. a \in Addr /\ heap[a] = Free
    BY <1>6, <1>13 DEF FreeAddr
  <2>3. Cell(t, c, r)' = a
    BY <1>7
  <2>. HIDE DEF a
  <2>4. /\ heap'[a] # Free
        /\ \A b \in Addr : b # a => heap'[b] = heap[b]
    BY <1>13, <2>1, <2>2, StorageAssumption DEF ValuesFor, Inv, TypeInv
  <2>5. \A u, d, q : Owns(u, d, q) =>
            /\ u \in Nat /\ d \in Nat /\ q \in Nat
            /\ Cell(u, d, q) \in Addr /\ Cell(u, d, q) # a
            /\ heap[Cell(u, d, q)] # Free
    BY <2>2, OwnsFacts DEF Inv, HeapInv, OwnershipInv
  <2>6. OwnershipInv'
    <3>1. ASSUME NEW u \in Nat, NEW d \in Nat, NEW q \in Nat, Owns(u, d, q)'
          PROVE  Cell(u, d, q)' \in Addr /\ heap'[Cell(u, d, q)'] # Free
      BY <1>9, <1>11, <2>2, <2>3, <2>4, <2>5, <3>1
    <3>2. ASSUME NEW u1 \in Nat, NEW d1 \in Nat, NEW q1 \in Nat,
                 NEW u2 \in Nat, NEW d2 \in Nat, NEW q2 \in Nat,
                 Owns(u1, d1, q1)', Owns(u2, d2, q2)',
                 Cell(u1, d1, q1)' = Cell(u2, d2, q2)'
          PROVE  u1 = u2 /\ d1 = d2 /\ q1 = q2
      <4>1. CASE Owns(u1, d1, q1) /\ Owns(u2, d2, q2)
        BY <1>11, <3>2, <4>1 DEF Inv, HeapInv, OwnershipInv
      <4>2. CASE ~Owns(u1, d1, q1) \/ ~Owns(u2, d2, q2)
        BY <1>9, <1>11, <2>3, <2>5, <3>2, <4>2
      <4>. QED BY <4>1, <4>2
    <3>. QED BY <3>1, <3>2 DEF OwnershipInv
  <2>7. NoOrphan'
    <3>1. ASSUME NEW b \in Addr, heap'[b] # Free
          PROVE  \E u, d, q \in Nat : Owns(u, d, q)' /\ Cell(u, d, q)' = b
      <4>1. CASE b = a
        <5>1. Owns(t, c, r)' /\ Cell(t, c, r)' = b
          BY <1>9, <1>13, <2>3, <4>1
        <5>. QED BY <1>1, <5>1
      <4>2. CASE b # a
        <5>1. PICK u, d, q \in Nat : Owns(u, d, q) /\ Cell(u, d, q) = b
          BY <2>4, <3>1, <4>2 DEF Inv, HeapInv, NoOrphan
        <5>. QED BY <1>9, <1>11, <5>1
      <4>. QED BY <4>1, <4>2
    <3>. QED BY <3>1 DEF NoOrphan
  <2>. QED BY <1>5, <2>6, <2>7 DEF HeapInv
<1>. QED BY <1>12, <1>13

\* The address of the replaced string may be the one the new string gets.
LEMMA ReplaceCellKeepsOwners ==
    ASSUME Inv, status = "up", ~Filling, NEW t \in DOMAIN tables, NEW c \in Columns(t),
           NEW r \in Slots(tables[t].row_count), NEW value \in ValuesFor(t, c),
           ReplaceCell(t, c, r, value)
    PROVE  HeapInv'
<1> DEFINE old == {<<t, c, r>>} \cap StringSlots(t, {r})
<1>1. /\ tables[t].row_count \in Nat /\ tables[t].row_count < tables[t].row_capacity
      /\ tables[t].row_capacity \in Nat
      /\ t \in Nat /\ c \in Nat /\ r \in Nat /\ r < tables[t].row_count
  BY TableFacts, ColumnFacts DEF Inv, Slots
<1>2. r \in DOMAIN tables[t].columns[c].data
  <2>1. r \in Slots(tables[t].row_capacity)
    BY <1>1 DEF Slots
  <2>. QED BY <1>1, <2>1 DEF Inv, CapacityInv
<1>3. Writable(t, c, r)
  BY <1>1, <1>2 DEF Writable, RowPointer
<1>4. \A u, d, q : Written(u, q, d)
  BY DEF Written
<1>5. IsString(t, c) => Owns(t, c, r) /\ old = {<<t, c, r>>}
  BY <1>4 DEF Owns, StringSlots, Columns
<1>6. ~IsString(t, c) => old = {}
  BY DEF StringSlots
<1>7. CanFree(old)
  <2>1. \A s \in old : \E u, d, q : s = <<u, d, q>> /\ Owns(u, d, q)
    BY <1>5, <1>6
  <2>2. TypeInv /\ CapacityInv /\ OwnershipInv
    BY DEF Inv, HeapInv
  <2>. HIDE DEF old
  <2>. QED BY <2>1, <2>2, CanFreeOwned
<1>8. PICK stored :
          /\ tables' = [tables EXCEPT ![t].columns[c].data[r] = stored]
          /\ IsString(t, c) => /\ stored \in FreeAddr(HeapWithout(old))
                               /\ heap' = [HeapWithout(old) EXCEPT ![stored] = value]
          /\ ~IsString(t, c) => heap' = heap
          /\ UNCHANGED <<fill, status>>
  BY <1>3, <1>7 DEF ReplaceCell
<1>9. /\ DOMAIN tables' = DOMAIN tables
      /\ \A u \in DOMAIN tables :
            /\ Columns(u)' = Columns(u)
            /\ tables'[u].row_count = tables[u].row_count
      /\ \A u \in DOMAIN tables : \A d \in Columns(u) : IsString(u, d)' <=> IsString(u, d)
      /\ Cell(t, c, r)' = stored
      /\ \A u \in DOMAIN tables : \A d \in Columns(u) :
         \A q \in DOMAIN tables[u].columns[d].data :
            <<u, d, q>> # <<t, c, r>> => Cell(u, d, q)' = Cell(u, d, q)
  <2>1. TypeInv /\ CapacityInv
    BY DEF Inv
  <2>2. tables' = [tables EXCEPT ![t].columns[c].data[r] = stored]
    BY <1>8
  <2>. QED BY <1>2, <2>1, <2>2, WrittenSlot DEF WritesSlot, OthersKept
<1>10. ASSUME NEW u, NEW d, NEW q
       PROVE  Owns(u, d, q)' <=> Owns(u, d, q)
  <2>1. Written(u, q, d) /\ Written(u, q, d)'
    BY <1>8 DEF Written, Filling
  <2>. QED BY <1>9, <2>1 DEF Owns
<1>11. ASSUME NEW u, NEW d, NEW q, Owns(u, d, q), <<u, d, q>> # <<t, c, r>>
       PROVE  Cell(u, d, q)' = Cell(u, d, q)
  <2>1. q \in DOMAIN tables[u].columns[d].data
    BY <1>11, OwnsFacts DEF Inv
  <2>. QED BY <1>9, <1>11, <2>1 DEF Owns
<1>12. CASE ~IsString(t, c)
  <2>1. ~Owns(t, c, r)
    BY <1>12 DEF Owns
  <2>. QED BY <1>8, <1>10, <1>11, <1>12, <2>1, SameOwners DEF Inv
<1>13. CASE IsString(t, c)
  <2> DEFINE dropped == Cell(t, c, r)
             a == stored
  <2>1. Owns(t, c, r) /\ dropped \in Addr /\ heap[dropped] # Free
    BY <1>1, <1>5, <1>13 DEF Inv, HeapInv, OwnershipInv
  <2>2. Cell(t, c, r)' = a
    BY <1>9
  <2>3. HeapWithout(old) = [b \in Addr |-> IF b = dropped THEN Free ELSE heap[b]]
    <3>1. old = {<<t, c, r>>}
      BY <1>5, <1>13
    <3>2. Held(<<t, c, r>>) = dropped
      BY DEF Held
    <3>. HIDE DEF old, dropped
    <3>3. \A b : (\E s \in old : Held(s) = b) <=> b = dropped
      BY <3>1, <3>2
    <3>. QED BY <3>3 DEF HeapWithout
  <2>. HIDE DEF dropped
  <2>4. a \in Addr /\ (a = dropped \/ heap[a] = Free)
    BY <1>8, <1>13, <2>3 DEF FreeAddr
  <2>5. heap' = [[b \in Addr |-> IF b = dropped THEN Free ELSE heap[b]] EXCEPT ![a] = value]
    BY <1>8, <1>13, <2>3
  <2>. HIDE DEF a
  <2>6. /\ heap'[a] # Free
        /\ \A b \in Addr : b # a => heap'[b] = IF b = dropped THEN Free ELSE heap[b]
    BY <1>13, <2>4, <2>5, StorageAssumption DEF ValuesFor
  <2>7. ASSUME NEW u, NEW d, NEW q, Owns(u, d, q), <<u, d, q>> # <<t, c, r>>
        PROVE  /\ u \in Nat /\ d \in Nat /\ q \in Nat
               /\ Cell(u, d, q) \in Addr /\ heap[Cell(u, d, q)] # Free
               /\ Cell(u, d, q) # dropped /\ Cell(u, d, q) # a
               /\ Cell(u, d, q)' = Cell(u, d, q)
               /\ heap'[Cell(u, d, q)] # Free
    <3>1. u \in Nat /\ d \in Nat /\ q \in Nat
      BY <2>7, OwnsFacts DEF Inv
    <3>2. /\ Cell(u, d, q) \in Addr /\ heap[Cell(u, d, q)] # Free
          /\ Cell(u, d, q) # Cell(t, c, r)
      BY <1>1, <2>1, <2>7, <3>1 DEF Inv, HeapInv, OwnershipInv
    <3>3. Cell(u, d, q) # dropped
      BY <3>2 DEF dropped
    <3>. QED BY <1>11, <2>4, <2>6, <2>7, <3>1, <3>2, <3>3
  <2>8. OwnershipInv'
    <3>1. ASSUME NEW u \in Nat, NEW d \in Nat, NEW q \in Nat, Owns(u, d, q)'
          PROVE  Cell(u, d, q)' \in Addr /\ heap'[Cell(u, d, q)'] # Free
      <4>1. CASE <<u, d, q>> = <<t, c, r>>
        BY <2>2, <2>4, <2>6, <4>1
      <4>2. CASE <<u, d, q>> # <<t, c, r>>
        BY <1>10, <2>7, <3>1, <4>2
      <4>. QED BY <4>1, <4>2
    <3>2. ASSUME NEW u1 \in Nat, NEW d1 \in Nat, NEW q1 \in Nat,
                 NEW u2 \in Nat, NEW d2 \in Nat, NEW q2 \in Nat,
                 Owns(u1, d1, q1)', Owns(u2, d2, q2)',
                 Cell(u1, d1, q1)' = Cell(u2, d2, q2)'
          PROVE  u1 = u2 /\ d1 = d2 /\ q1 = q2
      <4>1. Owns(u1, d1, q1) /\ Owns(u2, d2, q2)
        BY <1>10, <3>2
      <4>2. CASE <<u1, d1, q1>> # <<t, c, r>> /\ <<u2, d2, q2>> # <<t, c, r>>
        <5>1. Cell(u1, d1, q1) = Cell(u2, d2, q2)
          BY <1>11, <3>2, <4>1, <4>2
        <5>. QED BY <4>1, <5>1 DEF Inv, HeapInv, OwnershipInv
      <4>3. CASE <<u1, d1, q1>> = <<t, c, r>> \/ <<u2, d2, q2>> = <<t, c, r>>
        BY <2>2, <2>7, <3>2, <4>1, <4>3
      <4>. QED BY <4>2, <4>3
    <3>. QED BY <3>1, <3>2 DEF OwnershipInv
  <2>9. NoOrphan'
    <3>1. ASSUME NEW b \in Addr, heap'[b] # Free
          PROVE  \E u, d, q \in Nat : Owns(u, d, q)' /\ Cell(u, d, q)' = b
      <4>1. CASE b = a
        <5>1. Owns(t, c, r)' /\ Cell(t, c, r)' = b
          BY <1>10, <2>1, <2>2, <4>1
        <5>. QED BY <1>1, <5>1
      <4>2. CASE b # a
        <5>1. b # dropped /\ heap[b] # Free
          BY <2>6, <3>1, <4>2
        <5>2. PICK u, d, q \in Nat : Owns(u, d, q) /\ Cell(u, d, q) = b
          BY <5>1 DEF Inv, HeapInv, NoOrphan
        <5>3. <<u, d, q>> # <<t, c, r>>
          BY <5>1, <5>2 DEF dropped
        <5>. QED BY <1>10, <1>11, <5>2, <5>3
      <4>. QED BY <4>1, <4>2
    <3>. QED BY <3>1 DEF NoOrphan
  <2>. QED BY <1>8, <2>8, <2>9 DEF Inv, HeapInv
<1>. QED BY <1>12, <1>13

----------------------------------------------------------------------------
(* Calls that free strings.                                                *)

LEMMA FreedAddresses ==
    ASSUME NEW slots
    PROVE  \A a \in Addr :
              HeapWithout(slots)[a] =
                  IF \E s \in slots : Held(s) = a THEN Free ELSE heap[a]
BY DEF HeapWithout

\* The rows of table t after row index has been removed.
LEMMA RemovedRow ==
    ASSUME TypeInv, CapacityInv, NEW t \in DOMAIN tables, NEW index \in Nat,
           index < tables[t].row_count,
           tables' = [tables EXCEPT ![t] = RemoveRow(tables[t], index)]
    PROVE  /\ DOMAIN tables' = DOMAIN tables
           /\ \A u \in DOMAIN tables : u # t => tables'[u] = tables[u]
           /\ tables'[t].row_count = tables[t].row_count - 1
           /\ Columns(t)' = Columns(t)
           /\ \A d \in Columns(t) :
                 /\ tables'[t].columns[d].type = tables[t].columns[d].type
                 /\ \A q \in Slots(tables[t].row_count - 1) :
                       Cell(t, d, q)' = Cell(t, d, IF q >= index THEN q + 1 ELSE q)
<1> DEFINE tab == RemoveRow(tables[t], index)
           n == tables[t].row_count
<1>1. /\ tables[t] \in TableType(tables[t].row_capacity)
      /\ n \in Nat /\ n < tables[t].row_capacity
      /\ tables[t].row_capacity \in Nat
  BY TableFacts
<1>2. /\ tab.row_count = n - 1
      /\ tab.columns = [c \in Columns(t) |-> ShiftDown(tables[t].columns[c], index, n)]
  BY <1>1 DEF RemoveRow, TableType, Columns
<1>. HIDE DEF tab
<1>3. /\ DOMAIN tables' = DOMAIN tables
      /\ tables'[t] = tab
      /\ \A u \in DOMAIN tables : u # t => tables'[u] = tables[u]
  BY DEF tab
<1>4. ASSUME NEW d \in Columns(t)
      PROVE  /\ tab.columns[d].type = tables[t].columns[d].type
             /\ \A q \in Slots(n - 1) :
                   tab.columns[d].data[q] =
                      tables[t].columns[d].data[IF q >= index THEN q + 1 ELSE q]
  <2>1. tables[t].columns[d] \in ColumnType(tables[t].row_capacity)
    BY ColumnFacts
  <2>2. DOMAIN tables[t].columns[d].data = Slots(tables[t].row_capacity)
    BY DEF CapacityInv
  <2>3. tab.columns[d] = ShiftDown(tables[t].columns[d], index, n)
    BY <1>2
  <2>4. \A q \in Slots(n - 1) : q \in Slots(tables[t].row_capacity) /\ q \in Nat /\ q < n - 1
    BY <1>1 DEF Slots
  <2>. QED BY <2>1, <2>2, <2>3, <2>4 DEF ShiftDown, ColumnType
<1>. QED BY <1>2, <1>3, <1>4 DEF Columns, Cell

LEMMA DeleteRowKeepsOwners ==
    ASSUME Inv, status = "up", ~Filling, NEW t \in DOMAIN tables, NEW index \in Nat,
           TableRowDelete(t, index)
    PROVE  HeapInv'
<1> DEFINE n == tables[t].row_count
           dead == StringSlots(t, {index})
           Source(u, q) == IF u = t /\ q >= index THEN q + 1 ELSE q
           Dead(u, q) == u = t /\ q = index
<1>1. n \in Nat
  BY TableFacts DEF Inv
<1>2. CASE index >= n
  <2>1. UNCHANGED storageVars
    BY <1>2 DEF TableRowDelete
  <2>2. \A u, d, q : Owns(u, d, q)' <=> Owns(u, d, q)
    BY <2>1 DEF storageVars, Owns, Columns, IsString, TypeOf, Written, Filling
  <2>3. \A u, d, q : Cell(u, d, q)' = Cell(u, d, q)
    BY <2>1 DEF storageVars, Cell
  <2>. QED BY <2>1, <2>2, <2>3, SameOwners DEF Inv, storageVars
<1>3. CASE index < n
  <2>1. \A u, q, d : Written(u, q, d)
    BY DEF Written
  <2>2. \A s : s \in dead <=> \E d : s = <<t, d, index>> /\ Owns(t, d, index)
    BY <1>1, <1>3, <2>1 DEF StringSlots, Owns, Columns, Slots
  <2>. HIDE DEF dead
  <2>3. CanFree(dead)
    BY <2>2, CanFreeOwned DEF Inv, HeapInv
  <2>4. /\ heap' = HeapWithout(dead)
        /\ tables' = [tables EXCEPT ![t] = RemoveRow(tables[t], index)]
        /\ UNCHANGED <<fill, status>>
    BY <1>1, <1>3, <2>3 DEF TableRowDelete, dead
  <2>5. /\ DOMAIN tables' = DOMAIN tables
        /\ \A u \in DOMAIN tables : u # t => tables'[u] = tables[u]
        /\ tables'[t].row_count = n - 1
        /\ Columns(t)' = Columns(t)
        /\ \A d \in Columns(t) :
              /\ tables'[t].columns[d].type = tables[t].columns[d].type
              /\ \A q \in Slots(n - 1) : Cell(t, d, q)' = Cell(t, d, Source(t, q))
    BY <1>3, <2>4, RemovedRow DEF Inv
  <2>6. \A u, q, d : Written(u, q, d)'
    BY <2>4 DEF Written, Filling
  <2>7. ASSUME NEW u, NEW d, NEW q, Owns(u, d, q)'
        PROVE  /\ u \in Nat /\ d \in Nat /\ q \in Nat
               /\ Owns(u, d, Source(u, q)) /\ Source(u, q) \in Nat
               /\ Cell(u, d, q)' = Cell(u, d, Source(u, q))
               /\ ~Dead(u, Source(u, q))
    <3>1. CASE u # t
      <4>1. Owns(u, d, q) /\ Cell(u, d, q)' = Cell(u, d, q)
        BY <2>1, <2>5, <2>7, <3>1 DEF Owns, Columns, IsString, TypeOf, Cell
      <4>. QED BY <3>1, <4>1, OwnsFacts DEF Inv
    <3>2. CASE u = t
      <4>1. d \in Columns(t) /\ IsString(t, d) /\ q \in Slots(n - 1)
        BY <2>5, <2>7, <3>2 DEF Owns, IsString, TypeOf
      <4>2. q \in Nat /\ q < n - 1
        BY <1>1, <4>1 DEF Slots
      <4>3. Source(t, q) \in Slots(n) /\ ~Dead(t, Source(t, q))
        BY <1>1, <4>2 DEF Slots
      <4>4. Owns(t, d, Source(t, q))
        BY <2>1, <4>1, <4>3 DEF Owns
      <4>. QED BY <2>5, <3>2, <4>1, <4>2, <4>3, <4>4, OwnsFacts DEF Inv
    <3>. QED BY <3>1, <3>2
  <2>8. ASSUME NEW u, NEW d, NEW p, Owns(u, d, p), ~Dead(u, p)
        PROVE  \E q \in Nat : Source(u, q) = p /\ Owns(u, d, q)'
    <3>1. p \in Nat
      BY <2>8, OwnsFacts DEF Inv
    <3>2. CASE u # t
      BY <2>5, <2>6, <2>8, <3>1, <3>2 DEF Owns, Columns, IsString, TypeOf
    <3>3. CASE u = t
      <4> DEFINE q == IF p > index THEN p - 1 ELSE p
      <4>1. p < n
        BY <2>8, <3>3, OwnsFacts DEF Inv
      <4>2. q \in Nat /\ Source(t, q) = p
        BY <2>8, <3>1, <3>3
      <4>3. q \in Slots(n - 1)
        BY <1>1, <1>3, <2>8, <3>1, <3>3, <4>1 DEF Slots
      <4>. HIDE DEF q
      <4>4. Owns(t, d, q)'
        BY <2>5, <2>6, <2>8, <3>3, <4>3 DEF Owns, IsString, TypeOf
      <4>. QED BY <3>3, <4>2, <4>4
    <3>. QED BY <3>2, <3>3
  <2>9. \A b \in Addr :
           heap'[b] = IF \E d : Owns(t, d, index) /\ Cell(t, d, index) = b
                      THEN Free ELSE heap[b]
    <3>1. ASSUME NEW b \in Addr
          PROVE  (\E s \in dead : Held(s) = b)
                    <=> \E d : Owns(t, d, index) /\ Cell(t, d, index) = b
      <4>1. ASSUME NEW s \in dead, Held(s) = b
            PROVE  \E d : Owns(t, d, index) /\ Cell(t, d, index) = b
        <5>1. PICK d : s = <<t, d, index>> /\ Owns(t, d, index)
          BY <2>2
        <5>2. Held(s) = Cell(t, d, index)
          BY <5>1 DEF Held
        <5>. QED BY <4>1, <5>1, <5>2
      <4>2. ASSUME NEW d, Owns(t, d, index), Cell(t, d, index) = b
            PROVE  \E s \in dead : Held(s) = b
        <5>1. <<t, d, index>> \in dead
          BY <2>2, <4>2
        <5>2. Held(<<t, d, index>>) = b
          BY <4>2 DEF Held
        <5>. QED BY <5>1, <5>2
      <4>. QED BY <4>1, <4>2
    <3>. QED BY <2>4, <3>1, FreedAddresses
  <2>10. ASSUME NEW u \in Nat, NEW d \in Nat, NEW p \in Nat, Owns(u, d, p), ~Dead(u, p)
         PROVE  Cell(u, d, p) \in Addr /\ heap'[Cell(u, d, p)] # Free
    <3>1. Cell(u, d, p) \in Addr /\ heap[Cell(u, d, p)] # Free
      BY <2>10 DEF Inv, HeapInv, OwnershipInv
    <3>2. ASSUME NEW e, Owns(t, e, index), Cell(t, e, index) = Cell(u, d, p)
          PROVE  FALSE
      <4>1. t \in Nat /\ e \in Nat
        BY <3>2, OwnsFacts DEF Inv
      <4>. QED BY <2>10, <3>2, <4>1 DEF Inv, HeapInv, OwnershipInv
    <3>. QED BY <2>9, <3>1, <3>2
  <2>11. OwnershipInv'
    <3>1. ASSUME NEW u \in Nat, NEW d \in Nat, NEW q \in Nat, Owns(u, d, q)'
          PROVE  Cell(u, d, q)' \in Addr /\ heap'[Cell(u, d, q)'] # Free
      BY <2>7, <2>10, <3>1
    <3>2. ASSUME NEW u1 \in Nat, NEW d1 \in Nat, NEW q1 \in Nat,
                 NEW u2 \in Nat, NEW d2 \in Nat, NEW q2 \in Nat,
                 Owns(u1, d1, q1)', Owns(u2, d2, q2)',
                 Cell(u1, d1, q1)' = Cell(u2, d2, q2)'
          PROVE  u1 = u2 /\ d1 = d2 /\ q1 = q2
      <4>1. u1 = u2 /\ d1 = d2 /\ Source(u1, q1) = Source(u2, q2)
        <5> DEFINE p1 == Source(u1, q1)
                   p2 == Source(u2, q2)
        <5>. HIDE DEF Source
        <5>1. /\ p1 \in Nat /\ Owns(u1, d1, p1) /\ Cell(u1, d1, q1)' = Cell(u1, d1, p1)
              /\ p2 \in Nat /\ Owns(u2, d2, p2) /\ Cell(u2, d2, q2)' = Cell(u2, d2, p2)
          BY <2>7, <3>2
        <5>. HIDE DEF p1, p2
        <5>2. Cell(u1, d1, p1) = Cell(u2, d2, p2)
          BY <3>2, <5>1
        <5>3. u1 = u2 /\ d1 = d2 /\ p1 = p2
          BY <5>1, <5>2 DEF Inv, HeapInv, OwnershipInv
        <5>. QED BY <5>3 DEF p1, p2
      <4>. QED BY <4>1
    <3>. QED BY <3>1, <3>2 DEF OwnershipInv
  <2>12. NoOrphan'
    <3>1. ASSUME NEW b \in Addr, heap'[b] # Free
          PROVE  \E u, d, q \in Nat : Owns(u, d, q)' /\ Cell(u, d, q)' = b
      <4>1. heap[b] # Free /\ ~(\E d : Owns(t, d, index) /\ Cell(t, d, index) = b)
        BY <2>9, <3>1
      <4>2. PICK u, d, p \in Nat : Owns(u, d, p) /\ Cell(u, d, p) = b
        BY <4>1 DEF Inv, HeapInv, NoOrphan
      <4>3. ~Dead(u, p)
        BY <4>1, <4>2
      <4>4. PICK q \in Nat : Source(u, q) = p /\ Owns(u, d, q)'
        BY <2>8, <4>2, <4>3
      <4>5. Cell(u, d, q)' = b
        <5>. HIDE DEF Source
        <5>. QED BY <2>7, <4>2, <4>4
      <4>. QED BY <4>4, <4>5
    <3>. QED BY <3>1 DEF NoOrphan
  <2>. QED BY <2>4, <2>11, <2>12 DEF Inv, HeapInv
<1>. QED BY <1>1, <1>2, <1>3

LEMMA DeinitFreesOwned ==
    ASSUME Inv, status = "up", ~Filling, StorageDeinit
    PROVE  HeapInv'
<1>1. \A t, r, c : Written(t, r, c)
  BY DEF Written
<1>2. AllStrings = OwnedSlots
  BY <1>1 DEF AllStrings, OwnedSlots
<1>3. \A s : s \in AllStrings <=> \E t, c, r : s = <<t, c, r>> /\ Owns(t, c, r)
  BY <1>2, OwnedSlotsAreOwned DEF Inv
<1>4. CanFree(AllStrings)
  BY <1>3, CanFreeOwned DEF Inv, HeapInv
<1>5. heap' = HeapWithout(AllStrings) /\ status' = "down"
  BY <1>4 DEF StorageDeinit
<1>6. ASSUME NEW a \in Addr, heap[a] # Free
      PROVE  \E s \in AllStrings : Held(s) = a
  <2>1. PICK t, c, r \in Nat : Owns(t, c, r) /\ Cell(t, c, r) = a
    BY <1>6 DEF Inv, HeapInv, NoOrphan
  <2>2. <<t, c, r>> \in AllStrings
    BY <1>3, <2>1
  <2>3. Held(<<t, c, r>>) = a
    BY <2>1 DEF Held
  <2>. QED BY <2>2, <2>3
<1>7. \A a \in Addr : heap'[a] = Free
  BY <1>5, <1>6, FreedAddresses
<1>. QED BY <1>5, <1>7 DEF HeapInv

----------------------------------------------------------------------------
(* The invariant.                                                          *)

LEMMA HeapStep ==
    ASSUME ~AllocMayFail, Inv, [StorageNext]_storageVars
    PROVE  HeapInv'
<1>1. CASE ClientNewTable
  BY <1>1, NewTableKeepsOwners DEF ClientNewTable, Ready
<1>2. CASE ClientNewColumn
  BY <1>2, NewColumnKeepsOwners DEF ClientNewColumn, Ready
<1>3. CASE ClientAddRow
  BY <1>3, AddRowKeepsOwners DEF ClientAddRow, Ready
<1>4. CASE ClientFill
  BY <1>4, FillCellKeepsOwners DEF ClientFill
<1>5. CASE ClientReplace
  BY <1>5, ReplaceCellKeepsOwners DEF ClientReplace, Ready, Columns
<1>6. CASE ClientDelete
  <2>1. PICK t \in DOMAIN tables : \E r \in 0 .. tables[t].row_count : TableRowDelete(t, r)
    BY <1>6 DEF ClientDelete
  <2>2. PICK r \in 0 .. tables[t].row_count : TableRowDelete(t, r)
    BY <2>1
  <2>3. r \in Nat /\ TypeInv
    BY TableFacts DEF Inv
  <2>. QED BY <1>6, <2>2, <2>3, DeleteRowKeepsOwners DEF ClientDelete, Ready
<1>7. CASE ClientDeinit
  BY <1>7, DeinitFreesOwned DEF ClientDeinit, Ready
<1>8. CASE UNCHANGED storageVars
  <2>1. \A t, c, r : Owns(t, c, r)' <=> Owns(t, c, r)
    BY <1>8 DEF storageVars, Owns, Columns, IsString, TypeOf, Written, Filling
  <2>2. \A t, c, r : Cell(t, c, r)' = Cell(t, c, r)
    BY <1>8 DEF storageVars, Cell
  <2>. QED BY <1>8, <2>1, <2>2, SameOwners DEF Inv, storageVars
<1>. QED BY <1>1, <1>2, <1>3, <1>4, <1>5, <1>6, <1>7, <1>8 DEF StorageNext

LEMMA InvInit == StorageInit => Inv
<1>. SUFFICES ASSUME StorageInit PROVE Inv
  OBVIOUS
<1>1. TypeInv /\ CapacityInv
  BY EmptySeq DEF StorageInit, TypeInv, NoFill, Filling, CapacityInv
<1>2. \A t, c, r : ~Owns(t, c, r)
  BY DEF StorageInit, Owns
<1>3. \A a \in Addr : heap[a] = Free
  BY DEF StorageInit
<1>4. status = "up"
  BY DEF StorageInit
<1>. QED BY <1>1, <1>2, <1>3, <1>4 DEF Inv, HeapInv, OwnershipInv, NoOrphan

LEMMA InvStep == ~AllocMayFail /\ Inv /\ [StorageNext]_storageVars => Inv'
BY StorageTypesStep, CapacityStep, HeapStep DEF Inv

LEMMA InvImplies ==
    ASSUME Inv
    PROVE  RowsOwnTheirStrings /\ NoLostStrings /\ NoCrash /\ DeinitReleasesAll
<1>1. \A s : s \in OwnedSlots <=> \E t, c, r : s = <<t, c, r>> /\ Owns(t, c, r)
  BY OwnedSlotsAreOwned DEF Inv
<1>2. RowsOwnTheirStrings
  BY <1>1, CanFreeOwned DEF Inv, HeapInv, RowsOwnTheirStrings
<1>3. NoLostStrings
  <2>. SUFFICES ASSUME status = "up", NEW a \in Addr, heap[a] # Free
                PROVE  \E s \in OwnedSlots : Held(s) = a
    BY DEF NoLostStrings
  <2>1. PICK t, c, r \in Nat : Owns(t, c, r) /\ Cell(t, c, r) = a
    BY DEF Inv, HeapInv, NoOrphan
  <2>2. <<t, c, r>> \in OwnedSlots
    BY <1>1, <2>1
  <2>3. Held(<<t, c, r>>) = a
    BY <2>1 DEF Held
  <2>. QED BY <2>2, <2>3
<1>4. NoCrash /\ DeinitReleasesAll
  BY DEF Inv, HeapInv, NoCrash, DeinitReleasesAll, FreeAddr
<1>. QED BY <1>2, <1>3, <1>4

\* While memory lasts, the string slots of the rows hold distinct, live
\* addresses: growing, shifting rows down and replacing values never leave a
\* dangling or a shared pointer.
THEOREM OwnershipCorrect ==
    ASSUME ~AllocMayFail
    PROVE  StorageSpec => []RowsOwnTheirStrings
BY InvInit, InvStep, InvImplies, PTL DEF StorageSpec

\* While memory lasts, every string on the heap is held by a row: deleting
\* and replacing free what they drop.
THEOREM NoLeak ==
    ASSUME ~AllocMayFail
    PROVE  StorageSpec => []NoLostStrings
BY InvInit, InvStep, InvImplies, PTL DEF StorageSpec

\* While memory lasts, no call writes outside a column's allocation, and none
\* frees a string twice or through a dangling pointer.
THEOREM MemorySafe ==
    ASSUME ~AllocMayFail
    PROVE  StorageSpec => []NoCrash
BY InvInit, InvStep, InvImplies, PTL DEF StorageSpec

\* While memory lasts, storage_deinit releases every string.
THEOREM DeinitComplete ==
    ASSUME ~AllocMayFail
    PROVE  StorageSpec => []DeinitReleasesAll
BY InvInit, InvStep, InvImplies, PTL DEF StorageSpec

----------------------------------------------------------------------------
(* Rows are written before they are read.                                  *)

\* A slot of a row that has been written, whatever its type.
Complete(t, c, r) ==
    /\ t \in DOMAIN tables
    /\ c \in Columns(t)
    /\ r \in Slots(tables[t].row_count)
    /\ Written(t, r, c)

\* Such a slot holds what its column is for.
StoredIn(t, c) == IF IsString(t, c) THEN Addr ELSE IntValue

RowsInv == \A t, c, r : Complete(t, c, r) => Cell(t, c, r) \in StoredIn(t, c)

LEMMA CompleteFacts ==
    ASSUME TypeInv, CapacityInv, NEW t, NEW c, NEW r, Complete(t, c, r)
    PROVE  /\ r \in Nat /\ r < tables[t].row_count
           /\ r \in DOMAIN tables[t].columns[c].data
<1>1. /\ tables[t].row_count \in Nat /\ tables[t].row_capacity \in Nat
      /\ tables[t].row_count < tables[t].row_capacity
  BY TableFacts DEF Complete
<1>2. r \in Slots(tables[t].row_capacity) /\ r \in Nat /\ r < tables[t].row_count
  BY <1>1 DEF Complete, Slots
<1>. QED BY <1>2 DEF Complete, CapacityInv

\* What is written after a step was written before it, or by it.
LEMMA WrittenStaysWritten ==
    ASSUME RowsInv,
           \A t, c, r : Complete(t, c, r)' =>
               \/ Cell(t, c, r)' \in StoredIn(t, c)'
               \/ \E q : /\ Complete(t, c, q) /\ StoredIn(t, c)' = StoredIn(t, c)
                         /\ Cell(t, c, r)' = Cell(t, c, q)
    PROVE  RowsInv'
BY DEF RowsInv

LEMMA TablesStayWritten ==
    ASSUME RowsInv, UNCHANGED <<tables, fill>>
    PROVE  RowsInv'
BY DEF RowsInv, Complete, Cell, StoredIn, IsString, TypeOf, Columns, Written, Filling

LEMMA NewTableWritten ==
    ASSUME TypeInv, RowsInv, NEW name, DbTableNew(name)
    PROVE  RowsInv'
<1>1. tables' = Append(tables, NewTable(name)) /\ fill' = fill
  BY DEF DbTableNew
<1>2. /\ DOMAIN tables' = DOMAIN tables \cup {Len(tables) + 1}
      /\ tables'[Len(tables) + 1] = NewTable(name)
      /\ \A t \in DOMAIN tables : tables'[t] = tables[t]
      /\ Len(tables) + 1 \notin DOMAIN tables
  BY <1>1 DEF TypeInv
<1>3. DOMAIN NewTable(name).columns = {}
  BY DEF NewTable
<1>4. ASSUME NEW t, NEW c, NEW r, Complete(t, c, r)'
      PROVE  /\ Complete(t, c, r) /\ StoredIn(t, c)' = StoredIn(t, c)
             /\ Cell(t, c, r)' = Cell(t, c, r)
  BY <1>1, <1>2, <1>3, <1>4
    DEF Complete, Columns, Written, Filling, Cell, StoredIn, IsString, TypeOf
<1>. QED BY <1>4, WrittenStaysWritten

LEMMA NewColumnWritten ==
    ASSUME TypeInv, RowsInv, ~Filling, NEW t \in DOMAIN tables, NEW type, NEW name,
           TableColumnNew(t, type, name)
    PROVE  RowsInv'
<1>1. tables[t].row_count = 0 /\ tables[t] \in TableType(tables[t].row_capacity)
  BY TableFacts DEF TableColumnNew, ColumnNewResult
<1>2. fill' = fill
  BY DEF TableColumnNew
<1>3. CASE UNCHANGED tables
  BY <1>2, <1>3, TablesStayWritten
<1>4. CASE tables' = [tables EXCEPT ![t].columns = Append(@, NewColumn(t, type, name))]
  <2>1. /\ DOMAIN tables' = DOMAIN tables
        /\ tables'[t].row_count = 0
        /\ \A u \in DOMAIN tables : u # t => tables'[u] = tables[u]
    BY <1>1, <1>4 DEF TableType
  <2>2. ASSUME NEW u, NEW c, NEW r, Complete(u, c, r)'
        PROVE  /\ Complete(u, c, r) /\ StoredIn(u, c)' = StoredIn(u, c)
               /\ Cell(u, c, r)' = Cell(u, c, r)
    <3>1. u # t
      BY <2>1, <2>2 DEF Complete, Slots
    <3>. QED BY <1>2, <2>1, <2>2, <3>1
           DEF Complete, Columns, Written, Filling, Cell, StoredIn, IsString, TypeOf
  <2>. QED BY <2>2, WrittenStaysWritten
<1>. QED BY <1>3, <1>4 DEF TableColumnNew

\* The new row is not complete, the others are copied.
LEMMA AddRowWritten ==
    ASSUME TypeInv, CapacityInv, RowsInv, ~AllocMayFail, ~Filling,
           NEW t \in DOMAIN tables, TableRowAdd(t)
    PROVE  RowsInv'
<1> DEFINE grown == [tables[t] EXCEPT !.row_count = @ + 1]
           wider == grown.row_capacity * 2
           tab == IF NeedsRealloc(grown) THEN ReallocTable(grown, wider, {}) ELSE grown
           n == tables[t].row_count
<1>1. tables' = [tables EXCEPT ![t] = tab]
  BY DEF TableRowAdd, FailureSets
<1>2. /\ tables[t] \in TableType(tables[t].row_capacity)
      /\ n \in Nat /\ n < tables[t].row_capacity
      /\ tables[t].row_capacity \in Nat \ {0}
  BY TableFacts
<1>3. /\ grown.columns = tables[t].columns
      /\ grown.row_capacity = tables[t].row_capacity
      /\ grown.row_count = n + 1
  BY <1>2 DEF TableType
<1>4. tab.row_count = n + 1 /\ DOMAIN tab.columns = Columns(t)
  BY <1>2, <1>3 DEF ReallocTable, TableType, Columns
<1>5. ASSUME NEW c \in Columns(t)
      PROVE  /\ tab.columns[c].type = TypeOf(t, c)
             /\ \A r \in Slots(n) : tab.columns[c].data[r] = Cell(t, c, r)
  <2>1. tables[t].columns[c] \in ColumnType(tables[t].row_capacity)
    BY ColumnFacts
  <2>2. DOMAIN tables[t].columns[c].data = Slots(tables[t].row_capacity)
    BY DEF CapacityInv
  <2>3. CASE ~NeedsRealloc(grown)
    BY <1>3, <2>3 DEF Cell, TypeOf
  <2>4. CASE NeedsRealloc(grown)
    <3>1. tab.columns[c] = ReallocData(tables[t].columns[c], wider)
      BY <1>2, <1>3, <2>4 DEF ReallocTable, TableType, Columns
    <3>2. \A r \in Slots(n) : r \in Slots(wider) /\ r \in Slots(tables[t].row_capacity)
      BY <1>2, <1>3 DEF Slots
    <3>. QED BY <2>1, <2>2, <3>1, <3>2 DEF ReallocData, ColumnType, Cell, TypeOf
  <2>. QED BY <2>3, <2>4
<1>. HIDE DEF tab
<1>6. /\ DOMAIN tables' = DOMAIN tables
      /\ tables'[t] = tab
      /\ \A u \in DOMAIN tables : u # t => tables'[u] = tables[u]
  BY <1>1
<1>7. fill' = IF tables[t].columns = <<>> THEN NoFill
              ELSE [table |-> t, row |-> n, col |-> 1]
  BY <1>3 DEF TableRowAdd
<1>8. ASSUME NEW u, NEW c, NEW r, Complete(u, c, r)'
      PROVE  /\ Complete(u, c, r) /\ StoredIn(u, c)' = StoredIn(u, c)
             /\ Cell(u, c, r)' = Cell(u, c, r)
  <2>1. CASE u # t
    BY <1>6, <1>8, <2>1 DEF Complete, Columns, Written, Cell, StoredIn, IsString, TypeOf
  <2>2. CASE u = t
    <3>1. c \in Columns(t) /\ r \in Slots(n + 1)
      BY <1>4, <1>6, <1>8, <2>2 DEF Complete, Columns
    <3>2. c \in Nat /\ c >= 1 /\ tables[t].columns # <<>>
      BY <3>1, ColumnFacts DEF Columns
    <3>3. fill' = [table |-> t, row |-> n, col |-> 1]
      BY <1>7, <3>2
    <3>4. r # n
      BY <1>8, <2>2, <3>2, <3>3 DEF Complete, Written, Filling
    <3>5. r \in Slots(n)
      BY <1>2, <3>1, <3>4 DEF Slots
    <3>. QED BY <1>5, <1>6, <2>2, <3>1, <3>5
           DEF Complete, Written, Cell, StoredIn, IsString, TypeOf
  <2>. QED BY <2>1, <2>2
<1>. QED BY <1>8, WrittenStaysWritten

\* A write stores what the column is for, and completes the slot it writes and no other.
LEMMA FillWritten ==
    ASSUME TypeInv, CapacityInv, RowsInv, ClientFill
    PROVE  RowsInv'
<1>. SUFFICES ASSUME NEW t, NEW c, NEW r, fill = [table |-> t, row |-> r, col |-> c]
              PROVE  RowsInv'
  BY DEF TypeInv
<1>1. /\ Filling /\ t \in DOMAIN tables /\ c \in Columns(t)
      /\ t \in Nat /\ c \in Nat /\ r \in Nat
  BY DEF ClientFill, TypeInv
<1>2. PICK value \in ValuesFor(t, c) : FillCell(value)
  BY DEF ClientFill
<1>3. CASE Crash
  BY <1>3, TablesStayWritten DEF Crash
<1>4. CASE ~Crash
  <2>1. Writable(t, c, r)
    BY <1>2, <1>4 DEF FillCell
  <2>2. r \in DOMAIN tables[t].columns[c].data
    BY <2>1 DEF Writable
  <2>3. PICK stored :
          /\ stored \in StoredIn(t, c)
          /\ tables' = [tables EXCEPT ![t].columns[c].data[r] = stored]
    BY <1>2, <2>1 DEF FillCell, FreeAddr, ValuesFor, StoredIn
  <2>4. fill' = NextFill
    BY <1>2, <2>1 DEF FillCell
  <2>5. /\ DOMAIN tables' = DOMAIN tables
        /\ \A u \in DOMAIN tables :
              /\ Columns(u)' = Columns(u)
              /\ tables'[u].row_count = tables[u].row_count
        /\ \A u \in DOMAIN tables : \A d \in Columns(u) : IsString(u, d)' <=> IsString(u, d)
        /\ Cell(t, c, r)' = stored
        /\ \A u \in DOMAIN tables : \A d \in Columns(u) :
           \A q \in DOMAIN tables[u].columns[d].data :
              <<u, d, q>> # <<t, c, r>> => Cell(u, d, q)' = Cell(u, d, q)
    <3>1. tables' = [tables EXCEPT ![t].columns[c].data[r] = stored]
      BY <2>3
    <3>. QED BY <1>1, <2>2, <3>1, WrittenSlot DEF WritesSlot, OthersKept
  <2>6. ASSUME NEW u \in DOMAIN tables, NEW d \in Columns(u), NEW q,
               Written(u, q, d)', <<u, d, q>> # <<t, c, r>>
        PROVE  Written(u, q, d)
    <3>1. d \in Nat /\ d \in 1 .. Len(tables[u].columns) /\ Len(tables[u].columns) \in Nat
      BY ColumnFacts, LenProperties
    <3>2. Written(u, q, d) <=> ~(u = t /\ q = r /\ d >= c)
      BY <1>1 DEF Written
    <3>3. CASE c < Len(tables[t].columns)
      <4>1. fill' = [table |-> t, row |-> r, col |-> c + 1]
        BY <1>1, <2>4, <3>3 DEF NextFill
      <4>2. Written(u, q, d)' <=> ~(u = t /\ q = r /\ d >= c + 1)
        BY <1>1, <4>1 DEF Written, Filling
      <4>. QED BY <1>1, <2>6, <3>1, <3>2, <4>2
    <3>4. CASE ~(c < Len(tables[t].columns))
      BY <1>1, <2>6, <3>1, <3>2, <3>4
    <3>. QED BY <3>3, <3>4
  <2>7. ASSUME NEW u, NEW d, NEW q, Complete(u, d, q)'
        PROVE  \/ Cell(u, d, q)' \in StoredIn(u, d)'
               \/ /\ Complete(u, d, q) /\ StoredIn(u, d)' = StoredIn(u, d)
                  /\ Cell(u, d, q)' = Cell(u, d, q)
    <3>0. StoredIn(u, d)' = StoredIn(u, d)
      BY <2>5, <2>7 DEF Complete, StoredIn
    <3>1. CASE <<u, d, q>> = <<t, c, r>>
      <4>1. u = t /\ d = c /\ q = r
        BY <3>1
      <4>2. Cell(t, c, r)' \in StoredIn(t, c)
        BY <2>3, <2>5
      <4>. QED BY <3>0, <4>1, <4>2 DEF Cell
    <3>2. CASE <<u, d, q>> # <<t, c, r>>
      <4>1. Complete(u, d, q)
        BY <2>5, <2>6, <2>7, <3>2 DEF Complete
      <4>2. q \in DOMAIN tables[u].columns[d].data
        BY <4>1, CompleteFacts
      <4>. QED BY <2>5, <3>0, <3>2, <4>1, <4>2 DEF Complete
    <3>. QED BY <3>1, <3>2
  <2>. QED BY <2>7, WrittenStaysWritten
<1>. QED BY <1>3, <1>4

LEMMA ReplaceWritten ==
    ASSUME TypeInv, CapacityInv, RowsInv, ~Filling, NEW t \in DOMAIN tables,
           NEW c \in Columns(t), NEW r, NEW value \in ValuesFor(t, c),
           ReplaceCell(t, c, r, value)
    PROVE  RowsInv'
<1>1. CASE Crash
  BY <1>1, TablesStayWritten DEF Crash
<1>2. CASE ~Crash
  <2>1. r \in DOMAIN tables[t].columns[c].data /\ fill' = fill
    BY <1>2 DEF ReplaceCell, Writable
  <2>2. PICK stored :
          /\ stored \in StoredIn(t, c)
          /\ tables' = [tables EXCEPT ![t].columns[c].data[r] = stored]
    BY <1>2 DEF ReplaceCell, FreeAddr, ValuesFor, StoredIn
  <2>3. /\ DOMAIN tables' = DOMAIN tables
        /\ \A u \in DOMAIN tables :
              /\ Columns(u)' = Columns(u)
              /\ tables'[u].row_count = tables[u].row_count
        /\ \A u \in DOMAIN tables : \A d \in Columns(u) : IsString(u, d)' <=> IsString(u, d)
        /\ Cell(t, c, r)' = stored
        /\ \A u \in DOMAIN tables : \A d \in Columns(u) :
           \A q \in DOMAIN tables[u].columns[d].data :
              <<u, d, q>> # <<t, c, r>> => Cell(u, d, q)' = Cell(u, d, q)
    <3>1. tables' = [tables EXCEPT ![t].columns[c].data[r] = stored]
      BY <2>2
    <3>. QED BY <2>1, <3>1, WrittenSlot DEF WritesSlot, OthersKept
  <2>4. ASSUME NEW u, NEW d, NEW q, Complete(u, d, q)'
        PROVE  \/ Cell(u, d, q)' \in StoredIn(u, d)'
               \/ /\ Complete(u, d, q) /\ StoredIn(u, d)' = StoredIn(u, d)
                  /\ Cell(u, d, q)' = Cell(u, d, q)
    <3>0. StoredIn(u, d)' = StoredIn(u, d)
      BY <2>3, <2>4 DEF Complete, StoredIn
    <3>1. Complete(u, d, q)
      BY <2>1, <2>3, <2>4 DEF Complete, Written, Filling
    <3>2. q \in DOMAIN tables[u].columns[d].data
      BY <3>1, CompleteFacts
    <3>3. CASE <<u, d, q>> = <<t, c, r>>
      <4>1. u = t /\ d = c /\ q = r
        BY <3>3
      <4>2. Cell(t, c, r)' \in StoredIn(t, c)
        BY <2>2, <2>3
      <4>. QED BY <3>0, <4>1, <4>2 DEF Cell
    <3>4. CASE <<u, d, q>> # <<t, c, r>>
      BY <2>3, <3>0, <3>1, <3>2, <3>4 DEF Complete
    <3>. QED BY <3>3, <3>4
  <2>. QED BY <2>4, WrittenStaysWritten
<1>. QED BY <1>1, <1>2

\* Deleting a row moves complete rows; the stale slot left behind is none.
LEMMA DeleteWritten ==
    ASSUME TypeInv, CapacityInv, RowsInv, ~Filling, NEW t \in DOMAIN tables,
           NEW index \in Nat, TableRowDelete(t, index)
    PROVE  RowsInv'
<1> DEFINE n == tables[t].row_count
           Source(q) == IF q >= index THEN q + 1 ELSE q
<1>1. n \in Nat
  BY TableFacts
<1>2. CASE UNCHANGED <<tables, fill>>
  BY <1>2, TablesStayWritten
<1>3. CASE ~UNCHANGED <<tables, fill>>
  <2>1. /\ index < n /\ fill' = fill
        /\ tables' = [tables EXCEPT ![t] = RemoveRow(tables[t], index)]
    BY <1>1, <1>3 DEF TableRowDelete, Crash, storageVars
  <2>2. /\ DOMAIN tables' = DOMAIN tables
        /\ \A u \in DOMAIN tables : u # t => tables'[u] = tables[u]
        /\ tables'[t].row_count = n - 1
        /\ Columns(t)' = Columns(t)
        /\ \A d \in Columns(t) :
              /\ tables'[t].columns[d].type = tables[t].columns[d].type
              /\ \A q \in Slots(n - 1) : Cell(t, d, q)' = Cell(t, d, Source(q))
    BY <2>1, RemovedRow
  <2>3. \A u, q, d : Written(u, q, d)
    BY DEF Written
  <2>4. ASSUME NEW u, NEW d, NEW q, Complete(u, d, q)'
        PROVE  \E p : /\ Complete(u, d, p) /\ StoredIn(u, d)' = StoredIn(u, d)
                      /\ Cell(u, d, q)' = Cell(u, d, p)
    <3>1. CASE u # t
      BY <2>2, <2>3, <2>4, <3>1 DEF Complete, Columns, Cell, StoredIn, IsString, TypeOf
    <3>2. CASE u = t
      <4>1. d \in Columns(t) /\ q \in Slots(n - 1)
        BY <2>2, <2>4, <3>2 DEF Complete
      <4>2. Source(q) \in Slots(n)
        BY <1>1, <4>1 DEF Slots
      <4>3. Complete(t, d, Source(q))
        BY <2>3, <4>1, <4>2 DEF Complete
      <4>4. StoredIn(t, d)' = StoredIn(t, d)
        BY <2>2, <4>1 DEF StoredIn, IsString, TypeOf
      <4>. QED BY <2>2, <3>2, <4>1, <4>3, <4>4
    <3>. QED BY <3>1, <3>2
  <2>. QED BY <2>4, WrittenStaysWritten
<1>. QED BY <1>2, <1>3

LEMMA RowsStep ==
    ASSUME ~AllocMayFail, TypeInv, CapacityInv, RowsInv, [StorageNext]_storageVars
    PROVE  RowsInv'
<1>1. CASE ClientNewTable
  BY <1>1, NewTableWritten DEF ClientNewTable
<1>2. CASE ClientNewColumn
  BY <1>2, NewColumnWritten DEF ClientNewColumn, Ready
<1>3. CASE ClientAddRow
  BY <1>3, AddRowWritten DEF ClientAddRow, Ready
<1>4. CASE ClientFill
  BY <1>4, FillWritten
<1>5. CASE ClientReplace
  BY <1>5, ReplaceWritten DEF ClientReplace, Ready, Columns
<1>6. CASE ClientDelete
  <2>1. PICK t \in DOMAIN tables : \E r \in 0 .. tables[t].row_count : TableRowDelete(t, r)
    BY <1>6 DEF ClientDelete
  <2>2. PICK r \in 0 .. tables[t].row_count : TableRowDelete(t, r)
    BY <2>1
  <2>3. r \in Nat
    BY TableFacts
  <2>. QED BY <1>6, <2>2, <2>3, DeleteWritten DEF ClientDelete, Ready
<1>7. CASE ClientDeinit \/ UNCHANGED storageVars
  BY <1>7, TablesStayWritten DEF ClientDeinit, StorageDeinit, Crash, storageVars
<1>. QED BY <1>1, <1>2, <1>3, <1>4, <1>5, <1>6, <1>7 DEF StorageNext

LEMMA RowsInit == StorageInit => RowsInv
BY DEF StorageInit, RowsInv, Complete

\* While memory lasts, every slot of every complete row has been written: growth,
\* shifting and stale slots never put memory nobody wrote into a row.
THEOREM RowsAreWritten ==
    ASSUME ~AllocMayFail
    PROVE  StorageSpec => []NoJunkRead
<1>1. StorageInit => Inv /\ RowsInv
  BY InvInit, RowsInit
<1>2. Inv /\ RowsInv /\ [StorageNext]_storageVars => Inv' /\ RowsInv'
  BY InvStep, RowsStep DEF Inv
<1>3. RowsInv => NoJunkRead
  BY StorageAssumption DEF RowsInv, NoJunkRead, Complete, StoredIn, Cell
<1>. QED BY <1>1, <1>2, <1>3, PTL DEF StorageSpec

----------------------------------------------------------------------------
(***************************************************************************)
(* While memory lasts, BazaStorage implements BazaRowStore: each of its    *)
(* steps either leaves the contents of the tables alone or changes them    *)
(* as one step of that module does.                                        *)
(***************************************************************************)


----------------------------------------------------------------------------
(* Sequences as functions.                                                 *)

LEMMA FunctionSeq ==
    ASSUME NEW S, NEW n \in Nat, NEW f \in [1 .. n -> S]
    PROVE  f \in Seq(S) /\ Len(f) = n /\ DOMAIN f = 1 .. n
<1>1. f \in Seq(S)
  BY SeqDef
<1>. QED BY <1>1, LenProperties

FunctionOn(f, n) == f = [i \in 1 .. n |-> f[i]]

LEMMA SeqOn ==
    ASSUME NEW S, NEW n \in Nat, NEW f, FunctionOn(f, n), \A i \in 1 .. n : f[i] \in S
    PROVE  f \in Seq(S) /\ Len(f) = n
<1>1. f \in [1 .. n -> S]
  BY DEF FunctionOn
<1>. QED BY <1>1, FunctionSeq

\* A function that continues a sequence by one element, or leaves one out.
LEMMA IsAppend ==
    ASSUME NEW S, NEW seq \in Seq(S), NEW e, NEW f,
           FunctionOn(f, Len(seq) + 1),
           f[Len(seq) + 1] = e, \A i \in 1 .. Len(seq) : f[i] = seq[i]
    PROVE  f = Append(seq, e)
<1> DEFINE T == S \cup {e}
           n == Len(seq)
<1>1. n \in Nat /\ \A i \in 1 .. n : seq[i] \in S
  BY LenProperties
<1>2. seq \in Seq(T)
  BY SeqMonotonic
<1>3. \A i \in 1 .. n + 1 : f[i] \in T
  BY <1>1
<1>4. n + 1 \in Nat
  BY <1>1
<1>5. f \in Seq(T) /\ Len(f) = n + 1
  BY <1>3, <1>4, SeqOn
<1>6. /\ Append(seq, e) \in Seq(T)
      /\ Len(Append(seq, e)) = n + 1
      /\ \A i \in 1 .. n + 1 : Append(seq, e)[i] = f[i]
  BY <1>1, <1>2, AppendProperties
<1>. HIDE DEF T, n
<1>. QED BY <1>5, <1>6, SeqEqual

LEMMA IsRemoveAt ==
    ASSUME NEW S, NEW seq \in Seq(S), NEW k \in 1 .. Len(seq), NEW f,
           FunctionOn(f, Len(seq) - 1),
           \A i \in 1 .. Len(seq) - 1 : f[i] = IF i < k THEN seq[i] ELSE seq[i + 1]
    PROVE  f = RowStore!RemoveAt(seq, k)
<1> DEFINE front == SubSeq(seq, 1, k - 1)
           back == SubSeq(seq, k + 1, Len(seq))
<1>1. Len(seq) \in Nat /\ k \in Nat /\ \A i \in 1 .. Len(seq) : seq[i] \in S
  BY LenProperties
<1>2. \A i \in 1 .. Len(seq) - 1 : f[i] \in S
  BY <1>1
<1>3. f \in Seq(S) /\ Len(f) = Len(seq) - 1
  <2>1. Len(seq) - 1 \in Nat
    BY <1>1
  <2>. QED BY <1>2, <2>1, SeqOn
<1>4. /\ front \in Seq(S) /\ Len(front) = k - 1
      /\ \A i \in 1 .. k - 1 : front[i] = seq[i]
  <2>1. \A i \in 1 .. k - 1 : seq[i] \in S
    BY <1>1
  <2>2. 1 \in Int /\ k - 1 \in Int
    BY <1>1
  <2>. QED BY <1>1, <2>1, <2>2, SubSeqProperties
<1>5. /\ back \in Seq(S) /\ Len(back) = Len(seq) - k
      /\ \A i \in 1 .. Len(seq) - k : back[i] = seq[k + i]
  <2>1. \A i \in k + 1 .. Len(seq) : seq[i] \in S
    BY <1>1
  <2>2. k + 1 \in Int /\ Len(seq) \in Int
    BY <1>1
  <2>. QED BY <1>1, <2>1, <2>2, SubSeqProperties
<1>. HIDE DEF front, back
<1>6. /\ front \o back \in Seq(S)
      /\ Len(front \o back) = Len(seq) - 1
      /\ \A i \in 1 .. Len(seq) - 1 :
            (front \o back)[i] = IF i <= k - 1 THEN front[i] ELSE back[i - (k - 1)]
  <2>1. /\ front \o back \in Seq(S)
        /\ Len(front \o back) = Len(front) + Len(back)
        /\ \A i \in 1 .. Len(front) + Len(back) : (front \o back)[i] =
              IF i <= Len(front) THEN front[i] ELSE back[i - Len(front)]
    BY <1>4, <1>5, ConcatProperties
  <2>2. Len(front) = k - 1 /\ Len(front) + Len(back) = Len(seq) - 1
    BY <1>1, <1>4, <1>5
  <2>. QED BY <2>1, <2>2
<1>7. ASSUME NEW i \in 1 .. Len(seq) - 1
      PROVE  (front \o back)[i] = f[i]
  <2>1. CASE i < k
    <3>1. i \in 1 .. k - 1 /\ i <= k - 1
      BY <1>1, <2>1
    <3>. QED BY <1>4, <1>6, <2>1, <3>1
  <2>2. CASE ~(i < k)
    <3>1. i - (k - 1) \in 1 .. Len(seq) - k /\ k + (i - (k - 1)) = i + 1 /\ ~(i <= k - 1)
      BY <1>1, <2>2
    <3>2. back[i - (k - 1)] = seq[i + 1]
      BY <1>5, <3>1
    <3>. QED BY <1>6, <2>2, <3>1, <3>2
  <2>. QED BY <2>1, <2>2
<1>8. front \o back = f
  BY <1>3, <1>6, <1>7, SeqEqual
<1>. QED BY <1>8 DEF front, back, RowStore!RemoveAt

----------------------------------------------------------------------------
(* Tables and their contents.                                              *)

\* A complete row gives each column a value of its type.
LEMMA ValuesOfRows ==
    ASSUME Inv, RowsInv, status = "up", NEW t, NEW c, NEW r, Complete(t, c, r)
    PROVE  ValueAt(t, r, c) \in RowStore!ValueOf(TypeOf(t, c))
<1>1. CASE IsString(t, c)
  <2>1. Owns(t, c, r)
    BY <1>1 DEF Complete, Owns
  <2>2. t \in Nat /\ c \in Nat /\ r \in Nat
    BY <2>1, OwnsFacts DEF Inv
  <2>3. Cell(t, c, r) \in Addr /\ heap[Cell(t, c, r)] # Free
    BY <2>1, <2>2 DEF Inv, HeapInv, OwnershipInv
  <2>4. heap[Cell(t, c, r)] \in Str
    BY <2>3 DEF Inv, TypeInv
  <2>. QED BY <1>1, <2>4 DEF ValueAt, RowStore!ValueOf, IsString
<1>2. CASE ~IsString(t, c)
  BY <1>2 DEF RowsInv, StoredIn, ValueAt, RowStore!ValueOf, IsString
<1>. QED BY <1>1, <1>2

LEMMA CompleteRowsFacts ==
    ASSUME TypeInv, NEW t \in DOMAIN tables
    PROVE  /\ CompleteRows(t) \in Nat
           /\ \A r \in 1 .. CompleteRows(t), c \in Columns(t) : Complete(t, c, r - 1)
<1>1. tables[t].row_count \in Nat
  BY TableFacts
<1>2. ASSUME Filling, fill.table = t
      PROVE  fill.row = tables[t].row_count - 1 /\ fill.row \in Nat
  BY <1>2 DEF TypeInv
<1>3. CASE Filling /\ fill.table = t
  <2>1. CompleteRows(t) = tables[t].row_count - 1 /\ CompleteRows(t) \in Nat
    BY <1>1, <1>2, <1>3 DEF CompleteRows
  <2>2. ASSUME NEW r \in 1 .. CompleteRows(t), NEW c \in Columns(t)
        PROVE  Complete(t, c, r - 1)
    <3>1. r - 1 \in Slots(tables[t].row_count) /\ r - 1 # fill.row
      BY <1>1, <1>2, <1>3, <2>1 DEF Slots
    <3>. QED BY <3>1 DEF Complete, Written
  <2>. QED BY <1>3, <2>1, <2>2
<1>4. CASE ~(Filling /\ fill.table = t)
  <2>1. CompleteRows(t) = tables[t].row_count
    BY <1>4 DEF CompleteRows
  <2>2. ASSUME NEW r \in 1 .. CompleteRows(t), NEW c \in Columns(t)
        PROVE  Complete(t, c, r - 1)
    <3>1. r - 1 \in Slots(tables[t].row_count)
      BY <1>1, <2>1 DEF Slots
    <3>2. Written(t, r - 1, c)
      BY <1>4 DEF Written
    <3>. QED BY <3>1, <3>2 DEF Complete
  <2>. QED BY <1>1, <2>1, <2>2
<1>. QED BY <1>3, <1>4

\* The contents are a sequence, as long as the list of tables.
LEMMA ContentsSeq ==
    ASSUME TypeInv, status = "up"
    PROVE  /\ Contents \in Seq({TableContents(t) : t \in DOMAIN tables})
           /\ Len(Contents) = Len(tables)
           /\ DOMAIN Contents = DOMAIN tables
           /\ \A t \in DOMAIN tables : Contents[t] = TableContents(t)
<1>1. Contents = [t \in DOMAIN tables |-> TableContents(t)]
  BY DEF Contents
<1>2. \A t \in DOMAIN tables : Contents[t] = TableContents(t)
  BY <1>1
<1> DEFINE T == {TableContents(u) : u \in DOMAIN tables}
<1>3. \A t \in DOMAIN tables : Contents[t] \in T
  BY <1>2
<1>4. Contents = [t \in DOMAIN tables |-> Contents[t]]
  BY <1>1
<1>5. tables \in Seq(TableTypes)
  BY DEF TypeInv
<1>. HIDE DEF T
<1>6. Contents \in Seq(T) /\ Len(Contents) = Len(tables) /\ DOMAIN Contents = DOMAIN tables
  BY <1>3, <1>4, <1>5, MappedSeq
<1>. QED BY <1>2, <1>6 DEF T

ColumnsOf(t) == TableContents(t).columns
RowsOf(t) == TableContents(t).rows
Column(t, c) == [name |-> tables[t].columns[c].name, type |-> TypeOf(t, c)]
Row(t, i) == [c \in Columns(t) |-> ValueAt(t, i - 1, c)]

WellFormed ==
    \A t \in DOMAIN tables :
        /\ TableContents(t) =
              [name |-> tables[t].name, columns |-> ColumnsOf(t), rows |-> RowsOf(t)]
        /\ Len(tables[t].columns) \in Nat /\ Columns(t) = 1 .. Len(tables[t].columns)
        /\ FunctionOn(ColumnsOf(t), Len(tables[t].columns))
        /\ \A c \in Columns(t) : ColumnsOf(t)[c] = Column(t, c)
        /\ CompleteRows(t) \in Nat
        /\ FunctionOn(RowsOf(t), CompleteRows(t))
        /\ \A i \in 1 .. CompleteRows(t) : RowsOf(t)[i] = Row(t, i)

LEMMA ContentsAreWellFormed == TypeInv => WellFormed
<1>. SUFFICES ASSUME TypeInv, NEW t \in DOMAIN tables
              PROVE  /\ TableContents(t) = [name |-> tables[t].name,
                                            columns |-> ColumnsOf(t), rows |-> RowsOf(t)]
                     /\ Len(tables[t].columns) \in Nat
                     /\ Columns(t) = 1 .. Len(tables[t].columns)
                     /\ FunctionOn(ColumnsOf(t), Len(tables[t].columns))
                     /\ \A c \in Columns(t) : ColumnsOf(t)[c] = Column(t, c)
                     /\ CompleteRows(t) \in Nat
                     /\ FunctionOn(RowsOf(t), CompleteRows(t))
                     /\ \A i \in 1 .. CompleteRows(t) : RowsOf(t)[i] = Row(t, i)
  BY DEF WellFormed
<1>1. tables[t].columns \in Seq(ColumnType(tables[t].row_capacity))
  BY TableFacts DEF TableType
<1>2. Len(tables[t].columns) \in Nat /\ Columns(t) = 1 .. Len(tables[t].columns)
  BY <1>1, LenProperties DEF Columns
<1>3. TableContents(t) = [name |-> tables[t].name, columns |-> ColumnsOf(t), rows |-> RowsOf(t)]
  BY DEF TableContents, ColumnsOf, RowsOf
<1>4. ColumnsOf(t) = [c \in Columns(t) |-> Column(t, c)]
  BY DEF ColumnsOf, TableContents, Column, TypeOf
<1>5. RowsOf(t) = [i \in 1 .. CompleteRows(t) |-> Row(t, i)]
  BY DEF RowsOf, TableContents, Row
<1>6. FunctionOn(ColumnsOf(t), Len(tables[t].columns))
  BY <1>2, <1>4 DEF FunctionOn
<1>7. FunctionOn(RowsOf(t), CompleteRows(t))
  BY <1>5 DEF FunctionOn
<1>. QED BY <1>2, <1>3, <1>4, <1>5, <1>6, <1>7, CompleteRowsFacts

LEMMA RowsOfSeq ==
    ASSUME WellFormed, NEW t \in DOMAIN tables
    PROVE  /\ RowsOf(t) \in Seq({Row(t, i) : i \in Nat})
           /\ Len(RowsOf(t)) = CompleteRows(t)
           /\ DOMAIN RowsOf(t) = 1 .. CompleteRows(t)
<1> DEFINE S == {Row(t, i) : i \in Nat}
<1>1. /\ CompleteRows(t) \in Nat /\ FunctionOn(RowsOf(t), CompleteRows(t))
      /\ \A i \in 1 .. CompleteRows(t) : RowsOf(t)[i] = Row(t, i)
  BY DEF WellFormed
<1>2. \A i \in 1 .. CompleteRows(t) : RowsOf(t)[i] \in S
  BY <1>1
<1>3. DOMAIN RowsOf(t) = 1 .. CompleteRows(t)
  BY <1>1 DEF FunctionOn
<1>. HIDE DEF S
<1>4. RowsOf(t) \in Seq(S) /\ Len(RowsOf(t)) = CompleteRows(t)
  BY <1>1, <1>2, SeqOn
<1>. QED BY <1>3, <1>4 DEF S

LEMMA ColumnsOfSeq ==
    ASSUME WellFormed, NEW t \in DOMAIN tables
    PROVE  /\ ColumnsOf(t) \in Seq({Column(t, c) : c \in Columns(t)})
           /\ Len(ColumnsOf(t)) = Len(tables[t].columns)
           /\ DOMAIN ColumnsOf(t) = Columns(t)
<1> DEFINE S == {Column(t, c) : c \in Columns(t)}
           n == Len(tables[t].columns)
<1>1. /\ n \in Nat /\ Columns(t) = 1 .. n
      /\ FunctionOn(ColumnsOf(t), n)
      /\ \A c \in Columns(t) : ColumnsOf(t)[c] = Column(t, c)
  BY DEF WellFormed
<1>2. \A c \in 1 .. n : ColumnsOf(t)[c] \in S
  BY <1>1
<1>3. DOMAIN ColumnsOf(t) = Columns(t)
  BY <1>1 DEF FunctionOn
<1>. HIDE DEF S, n
<1>4. ColumnsOf(t) \in Seq(S) /\ Len(ColumnsOf(t)) = n
  BY <1>1, <1>2, SeqOn
<1>. QED BY <1>3, <1>4 DEF S, n

\* Every row gives each column a value of its type.
RowsTyped ==
    status = "up" =>
        \A t \in DOMAIN tables : \A i \in 1 .. CompleteRows(t) :
            Row(t, i) \in RowStore!RowsFor(ColumnsOf(t))

LEMMA RowsAreTyped == Inv /\ RowsInv => RowsTyped
<1>. SUFFICES ASSUME Inv, RowsInv, status = "up",
                     NEW t \in DOMAIN tables, NEW i \in 1 .. CompleteRows(t)
              PROVE  Row(t, i) \in RowStore!RowsFor(ColumnsOf(t))
  BY DEF RowsTyped
<1>1. WellFormed
  BY ContentsAreWellFormed DEF Inv
<1>2. /\ DOMAIN ColumnsOf(t) = Columns(t)
      /\ \A c \in Columns(t) : ColumnsOf(t)[c].type = TypeOf(t, c)
  <2>1. DOMAIN ColumnsOf(t) = Columns(t)
    BY <1>1, ColumnsOfSeq
  <2>2. \A c \in Columns(t) : ColumnsOf(t)[c] = Column(t, c)
    BY <1>1 DEF WellFormed
  <2>. QED BY <2>1, <2>2 DEF Column
<1>3. ASSUME NEW c \in Columns(t)
      PROVE  ValueAt(t, i - 1, c) \in RowStore!ValueOf(TypeOf(t, c))
  <2>1. Complete(t, c, i - 1)
    BY CompleteRowsFacts DEF Inv
  <2>. QED BY <2>1, ValuesOfRows
<1>4. \A type : RowStore!ValueOf(type) \subseteq Str \cup IntValue
  BY DEF RowStore!ValueOf
<1>5. /\ Row(t, i) \in [Columns(t) -> Str \cup IntValue]
      /\ \A c \in Columns(t) : Row(t, i)[c] \in RowStore!ValueOf(TypeOf(t, c))
  BY <1>3, <1>4 DEF Row
<1>. QED BY <1>2, <1>5 DEF RowStore!RowsFor

----------------------------------------------------------------------------
(* Steps that change one table.                                            *)

\* Its name and its columns stay what they are.
SameShape(t) ==
    /\ tables'[t].name = tables[t].name
    /\ Columns(t)' = Columns(t)
    /\ \A c \in Columns(t) : /\ tables'[t].columns[c].name = tables[t].columns[c].name
                             /\ TypeOf(t, c)' = TypeOf(t, c)

\* The strings of the slots outside S stay.
KeepsStrings(S) ==
    \A t, c, r : Owns(t, c, r) /\ <<t, c, r>> \notin S =>
        heap'[Cell(t, c, r)] = heap[Cell(t, c, r)]

LEMMA SameTable ==
    ASSUME NEW t, tables'[t] = tables[t]
    PROVE  SameShape(t) /\ \A c, r : Cell(t, c, r)' = Cell(t, c, r)
BY DEF SameShape, Columns, TypeOf, Cell

LEMMA ShapeContents ==
    ASSUME WellFormed, WellFormed', NEW t \in DOMAIN tables, t \in DOMAIN tables',
           SameShape(t)
    PROVE  TableContents(t)' = [TableContents(t) EXCEPT !.rows = RowsOf(t)']
<1>1. ColumnsOf(t)' = ColumnsOf(t)
  BY DEF SameShape, ColumnsOf, TableContents, TypeOf
<1>2. tables'[t].name = tables[t].name
  BY DEF SameShape
<1>3. TableContents(t)' = [name |-> tables'[t].name, columns |-> ColumnsOf(t)',
                           rows |-> RowsOf(t)']
  BY DEF WellFormed
<1>4. TableContents(t) = [name |-> tables[t].name, columns |-> ColumnsOf(t),
                          rows |-> RowsOf(t)]
  BY DEF WellFormed
<1>. QED BY <1>1, <1>2, <1>3, <1>4

\* A row holds what another held when it has the same slots, and the strings
\* they point at are kept.
LEMMA SameRow ==
    ASSUME TypeInv, NEW t \in DOMAIN tables, SameShape(t), NEW S, KeepsStrings(S),
           NEW i, NEW j \in 1 .. CompleteRows(t),
           \A c \in Columns(t) : /\ <<t, c, j - 1>> \notin S
                                 /\ Cell(t, c, i - 1)' = Cell(t, c, j - 1)
    PROVE  Row(t, i)' = Row(t, j)
<1>1. ASSUME NEW c \in Columns(t)
      PROVE  ValueAt(t, i - 1, c)' = ValueAt(t, j - 1, c)
  <2>1. Complete(t, c, j - 1)
    BY CompleteRowsFacts
  <2>2. IsString(t, c) => Owns(t, c, j - 1)
    BY <2>1 DEF Complete, Owns
  <2>3. IsString(t, c) => heap'[Cell(t, c, j - 1)] = heap[Cell(t, c, j - 1)]
    BY <2>2 DEF KeepsStrings
  <2>4. IsString(t, c)' <=> IsString(t, c)
    BY DEF SameShape, IsString
  <2>. QED BY <2>3, <2>4 DEF ValueAt
<1>2. Columns(t)' = Columns(t)
  BY DEF SameShape
<1>. QED BY <1>1, <1>2 DEF Row

LEMMA SameContents ==
    ASSUME TypeInv, WellFormed, WellFormed', NEW t \in DOMAIN tables, t \in DOMAIN tables',
           SameShape(t), CompleteRows(t)' = CompleteRows(t),
           \A i \in 1 .. CompleteRows(t) : Row(t, i)' = Row(t, i)
    PROVE  TableContents(t)' = TableContents(t)
<1>1. RowsOf(t)' = RowsOf(t)
  BY DEF WellFormed, FunctionOn
<1>2. TableContents(t)' = [TableContents(t) EXCEPT !.rows = RowsOf(t)]
  BY <1>1, ShapeContents
<1>3. TableContents(t) = [name |-> tables[t].name, columns |-> ColumnsOf(t),
                          rows |-> RowsOf(t)]
  BY DEF WellFormed
<1>. QED BY <1>2, <1>3

\* When the contents of one table change, the store changes there.
LEMMA OneTableChanges ==
    ASSUME TypeInv, status = "up", status' = "up", DOMAIN tables' = DOMAIN tables,
           NEW t \in DOMAIN tables,
           \A u \in DOMAIN tables : u # t => TableContents(u)' = TableContents(u)
    PROVE  Contents' = [Contents EXCEPT ![t] = TableContents(t)']
BY DEF Contents

LEMMA NoTableChanges ==
    ASSUME status = "up", status' = "up", DOMAIN tables' = DOMAIN tables,
           \A u \in DOMAIN tables : TableContents(u)' = TableContents(u)
    PROVE  Contents' = Contents
BY DEF Contents

\* When the rows of one table change, they change in the store.
LEMMA RowsChange ==
    ASSUME TypeInv, WellFormed, WellFormed', status = "up", status' = "up",
           DOMAIN tables' = DOMAIN tables, NEW t \in DOMAIN tables, SameShape(t),
           \A u \in DOMAIN tables : u # t => TableContents(u)' = TableContents(u)
    PROVE  /\ t \in DOMAIN Contents
           /\ Contents[t] = TableContents(t)
           /\ Contents[t].rows = RowsOf(t) /\ Contents[t].columns = ColumnsOf(t)
           /\ Contents' = [Contents EXCEPT ![t].rows = RowsOf(t)']
<1>1. t \in DOMAIN Contents /\ Contents[t] = TableContents(t)
  BY ContentsSeq
<1>2. Contents' = [Contents EXCEPT ![t] = TableContents(t)']
  BY OneTableChanges
<1>3. TableContents(t)' = [Contents[t] EXCEPT !.rows = RowsOf(t)']
  BY <1>1, ShapeContents
<1>. QED BY <1>1, <1>2, <1>3 DEF RowsOf, ColumnsOf

\* A table that has one complete row more than before has been given a row.
LEMMA RowAppended ==
    ASSUME TypeInv, WellFormed, WellFormed', RowsTyped', status = "up", status' = "up",
           DOMAIN tables' = DOMAIN tables, NEW t \in DOMAIN tables, SameShape(t),
           \A u \in DOMAIN tables : u # t => TableContents(u)' = TableContents(u),
           NEW k, k = CompleteRows(t) + 1, CompleteRows(t)' = k,
           \A i \in 1 .. CompleteRows(t) : Row(t, i)' = Row(t, i)
    PROVE  /\ RowStore!AppendRow(t)
           /\ Contents' = [Contents EXCEPT ![t].rows = Append(@, Row(t, k)')]
<1> DEFINE n == CompleteRows(t)
           row == Row(t, k)'
<1>1. n \in Nat /\ \A i \in 1 .. n : RowsOf(t)[i] = Row(t, i)
  BY DEF WellFormed
<1>2. FunctionOn(RowsOf(t)', k) /\ \A i \in 1 .. k : RowsOf(t)'[i] = Row(t, i)'
  BY DEF WellFormed, FunctionOn
<1>3. k \in 1 .. k /\ \A i \in 1 .. n : i \in 1 .. k
  BY <1>1
<1>4. RowsOf(t)'[k] = row
  BY <1>2, <1>3
<1>5. \A i \in 1 .. n : RowsOf(t)'[i] = RowsOf(t)[i]
  BY <1>1, <1>2, <1>3
<1>6. row \in RowStore!RowsFor(ColumnsOf(t))
  <2>1. row \in RowStore!RowsFor(ColumnsOf(t)')
    BY <1>3 DEF RowsTyped
  <2>2. ColumnsOf(t)' = ColumnsOf(t)
    BY DEF SameShape, ColumnsOf, TableContents, TypeOf
  <2>. QED BY <2>1, <2>2
<1>7. RowsOf(t) \in Seq({Row(t, i) : i \in Nat}) /\ Len(RowsOf(t)) = n
  BY RowsOfSeq
<1>8. /\ Contents[t].rows = RowsOf(t) /\ Contents[t].columns = ColumnsOf(t)
      /\ Contents' = [Contents EXCEPT ![t].rows = RowsOf(t)']
  BY RowsChange
<1>. HIDE DEF row
<1>9. RowsOf(t)' = Append(RowsOf(t), row)
  BY <1>2, <1>4, <1>5, <1>7, IsAppend
<1>10. Contents' = [Contents EXCEPT ![t].rows = Append(@, row)]
  BY <1>8, <1>9
<1>11. RowStore!AppendRow(t)
  BY <1>6, <1>8, <1>10 DEF RowStore!AppendRow
<1>. QED BY <1>10, <1>11 DEF row

\* ... that has one less, and the others in their order, has lost a row ...
LEMMA RowRemoved ==
    ASSUME TypeInv, WellFormed, WellFormed', status = "up", status' = "up",
           DOMAIN tables' = DOMAIN tables, NEW t \in DOMAIN tables, SameShape(t),
           \A u \in DOMAIN tables : u # t => TableContents(u)' = TableContents(u),
           NEW k \in 1 .. CompleteRows(t), NEW m, m = CompleteRows(t) - 1, CompleteRows(t)' = m,
           \A i \in 1 .. m : Row(t, i)' = IF i < k THEN Row(t, i) ELSE Row(t, i + 1)
    PROVE  k \in DOMAIN Contents[t].rows /\ RowStore!RemoveRow(t, k)
<1> DEFINE n == CompleteRows(t)
<1>1. n \in Nat /\ \A i \in 1 .. n : RowsOf(t)[i] = Row(t, i)
  BY DEF WellFormed
<1>2. FunctionOn(RowsOf(t)', m) /\ \A i \in 1 .. m : RowsOf(t)'[i] = Row(t, i)'
  BY DEF WellFormed, FunctionOn
<1>3. ASSUME NEW i \in 1 .. m
      PROVE  RowsOf(t)'[i] = IF i < k THEN RowsOf(t)[i] ELSE RowsOf(t)[i + 1]
  <2>1. i \in 1 .. n /\ i + 1 \in 1 .. n
    BY <1>1
  <2>2. RowsOf(t)[i] = Row(t, i) /\ RowsOf(t)[i + 1] = Row(t, i + 1)
    BY <1>1, <2>1
  <2>. QED BY <1>2, <2>2
<1>4. /\ RowsOf(t) \in Seq({Row(t, i) : i \in Nat}) /\ Len(RowsOf(t)) = n
      /\ DOMAIN RowsOf(t) = 1 .. n
  BY RowsOfSeq
<1>5. /\ Contents[t].rows = RowsOf(t)
      /\ Contents' = [Contents EXCEPT ![t].rows = RowsOf(t)']
  BY RowsChange
<1>6. RowsOf(t)' = RowStore!RemoveAt(RowsOf(t), k)
  BY <1>2, <1>3, <1>4, IsRemoveAt
<1>7. Contents' = [Contents EXCEPT ![t].rows = RowStore!RemoveAt(@, k)]
  BY <1>5, <1>6
<1>. QED BY <1>4, <1>5, <1>7 DEF RowStore!RemoveRow

\* ... and one whose rows differ in one value has been given that value.
LEMMA ValueSet ==
    ASSUME TypeInv, WellFormed, WellFormed', status = "up", status' = "up",
           DOMAIN tables' = DOMAIN tables, NEW t \in DOMAIN tables, SameShape(t),
           \A u \in DOMAIN tables : u # t => TableContents(u)' = TableContents(u),
           CompleteRows(t)' = CompleteRows(t), NEW k \in 1 .. CompleteRows(t),
           NEW c \in Columns(t), NEW value \in RowStore!ValueOf(TypeOf(t, c)),
           Row(t, k)' = [Row(t, k) EXCEPT ![c] = value],
           \A i \in 1 .. CompleteRows(t) : i # k => Row(t, i)' = Row(t, i)
    PROVE  /\ k \in DOMAIN Contents[t].rows /\ c \in DOMAIN Contents[t].columns
           /\ RowStore!SetValue(t, k, c)
           /\ Contents' = [Contents EXCEPT ![t].rows[k][c] = value]
<1> DEFINE n == CompleteRows(t)
           rows == [RowsOf(t) EXCEPT ![k] = [Row(t, k) EXCEPT ![c] = value]]
<1>1. n \in Nat /\ FunctionOn(RowsOf(t), n) /\ \A i \in 1 .. n : RowsOf(t)[i] = Row(t, i)
  BY DEF WellFormed
<1>2. FunctionOn(RowsOf(t)', n) /\ \A i \in 1 .. n : RowsOf(t)'[i] = Row(t, i)'
  BY DEF WellFormed, FunctionOn
<1>3. \A i \in 1 .. n : RowsOf(t)'[i] = rows[i]
  BY <1>1, <1>2 DEF FunctionOn
<1>4. FunctionOn(rows, n)
  BY <1>1 DEF FunctionOn
<1>. HIDE DEF rows, n
<1>5. RowsOf(t)' = rows
  BY <1>2, <1>3, <1>4 DEF FunctionOn
<1>6. RowsOf(t)[k] = Row(t, k)
  BY <1>1 DEF n
<1>7. /\ Contents[t].rows = RowsOf(t) /\ Contents[t].columns = ColumnsOf(t)
      /\ Contents' = [Contents EXCEPT ![t].rows = RowsOf(t)']
  BY RowsChange
<1>8. Contents' = [Contents EXCEPT ![t].rows[k][c] = value]
  BY <1>5, <1>6, <1>7 DEF rows
<1>9. Contents[t].columns[c].type = TypeOf(t, c)
  <2>1. ColumnsOf(t)[c] = Column(t, c)
    BY DEF WellFormed
  <2>. QED BY <1>7, <2>1 DEF Column
<1>10. DOMAIN RowsOf(t) = 1 .. CompleteRows(t) /\ DOMAIN ColumnsOf(t) = Columns(t)
  BY RowsOfSeq, ColumnsOfSeq
<1>11. RowStore!SetValue(t, k, c)
  BY <1>8, <1>9 DEF RowStore!SetValue
<1>. QED BY <1>7, <1>8, <1>10, <1>11

\* A table nothing is done to keeps its contents.
LEMMA Untouched ==
    ASSUME TypeInv, WellFormed, WellFormed', NEW t \in DOMAIN tables, t \in DOMAIN tables',
           tables'[t] = tables[t], CompleteRows(t)' = CompleteRows(t),
           NEW S, KeepsStrings(S), \A c, r : <<t, c, r>> \notin S
    PROVE  TableContents(t)' = TableContents(t)
<1>1. SameShape(t) /\ \A c, r : Cell(t, c, r)' = Cell(t, c, r)
  BY SameTable
<1>2. \A i \in 1 .. CompleteRows(t) : Row(t, i)' = Row(t, i)
  BY <1>1, SameRow
<1>. QED BY <1>1, <1>2, SameContents

LEMMA EmptyOn ==
    ASSUME NEW f, FunctionOn(f, 0)
    PROVE  f = <<>>
<1>1. f \in Seq({}) /\ Len(f) = 0
  BY SeqOn
<1>. QED BY <1>1, EmptySeq

----------------------------------------------------------------------------
(* The calls of storage.h.                                                 *)

SoundStore == Inv /\ RowsInv /\ WellFormed /\ RowsTyped

LEMMA SoundInv == Inv /\ RowsInv => SoundStore
BY RowsAreTyped, ContentsAreWellFormed DEF SoundStore, Inv

LEMMA NewTableCreates ==
    ASSUME SoundStore, SoundStore', status = "up", ~Filling, NEW name, DbTableNew(name)
    PROVE  RowStore!CreateTable(name)
<1>. SUFFICES ASSUME NEW n, n = Len(tables), NEW new, new = n + 1
              PROVE  RowStore!CreateTable(name)
  OBVIOUS
<1>1. tables' = Append(tables, NewTable(name)) /\ UNCHANGED <<heap, fill, status>>
  BY DEF DbTableNew
<1>2. /\ n \in Nat /\ DOMAIN tables = 1 .. n /\ DOMAIN tables' = 1 .. new
      /\ tables'[new] = NewTable(name)
      /\ \A t \in 1 .. n : tables'[t] = tables[t]
  BY <1>1 DEF SoundStore, Inv, TypeInv
<1>3. KeepsStrings({})
  BY <1>1 DEF KeepsStrings
<1>4. ASSUME NEW t \in 1 .. n
      PROVE  TableContents(t)' = TableContents(t)
  <2>1. t \in DOMAIN tables /\ t \in DOMAIN tables' /\ tables'[t] = tables[t]
    BY <1>2
  <2>2. CompleteRows(t)' = CompleteRows(t)
    BY <1>1, <2>1 DEF CompleteRows, Filling
  <2>. QED BY <1>3, <2>1, <2>2, Untouched DEF SoundStore, Inv
<1>5. TableContents(new)' = RowStore!EmptyTable(name)
  <2>1. /\ tables'[new].name = name /\ tables'[new].row_count = 0
        /\ tables'[new].columns = <<>>
    BY <1>2 DEF NewTable
  <2>2. CompleteRows(new)' = 0
    BY <1>1, <2>1 DEF CompleteRows, Filling
  <2>8. Len(tables'[new].columns) = 0
    BY <2>1, EmptySeq
  <2>3. new \in DOMAIN tables'
    BY <1>2
  <2>4. FunctionOn(ColumnsOf(new)', 0) /\ FunctionOn(RowsOf(new)', 0)
    <3>1. WellFormed'
      BY DEF SoundStore
    <3>2. /\ FunctionOn(ColumnsOf(new)', Len(tables'[new].columns))
          /\ FunctionOn(RowsOf(new)', CompleteRows(new)')
      BY <2>3, <3>1 DEF WellFormed, FunctionOn
    <3>. QED BY <2>2, <2>8, <3>2
  <2>5. ColumnsOf(new)' = <<>> /\ RowsOf(new)' = <<>>
    BY <2>4, EmptyOn
  <2>6. TableContents(new)' = [name |-> name, columns |-> <<>>, rows |-> <<>>]
    <3>1. WellFormed'
      BY DEF SoundStore
    <3>2. TableContents(new)' =
            [name |-> tables'[new].name, columns |-> ColumnsOf(new)', rows |-> RowsOf(new)']
      BY <2>3, <3>1 DEF WellFormed
    <3>. QED BY <2>1, <2>5, <3>2
  <2>. QED BY <2>6 DEF RowStore!EmptyTable
<1>6. /\ Contents \in Seq({TableContents(t) : t \in DOMAIN tables})
      /\ Len(Contents) = n
      /\ \A t \in 1 .. n : Contents[t] = TableContents(t)
  BY <1>2, ContentsSeq DEF SoundStore, Inv
<1>7. Contents' = [t \in 1 .. new |-> TableContents(t)']
  BY <1>1, <1>2 DEF Contents
<1>8. new \in 1 .. new /\ \A t \in 1 .. n : t \in 1 .. new
  BY <1>2
<1>9. FunctionOn(Contents', new)
  BY <1>7 DEF FunctionOn
<1>10. \A t \in 1 .. new : Contents'[t] = TableContents(t)'
  BY <1>7
<1>11. Contents'[new] = RowStore!EmptyTable(name)
  BY <1>5, <1>8, <1>10
<1>12. \A t \in 1 .. n : Contents'[t] = Contents[t]
  BY <1>4, <1>6, <1>8, <1>10
<1>13. Contents' = Append(Contents, RowStore!EmptyTable(name))
  BY <1>6, <1>9, <1>11, <1>12, IsAppend
<1>. QED BY <1>13 DEF RowStore!CreateTable

\* A column that has been allocated is added; one that has not changes nothing.
LEMMA NewColumnAdds ==
    ASSUME SoundStore, SoundStore', status = "up", ~Filling, NEW t \in DOMAIN tables,
           NEW type, NEW name, TableColumnNew(t, type, name)
    PROVE  /\ UNCHANGED tables => Contents' = Contents
           /\ ~UNCHANGED tables => t \in DOMAIN Contents /\ RowStore!AddColumn(t, name, type)
<1> DEFINE column == NewColumn(t, type, name)
           abstract == [name |-> name, type |-> type]
<1>1. UNCHANGED <<heap, fill, status>> /\ tables[t].row_count = 0
      /\ ColumnsNamed(tables[t], name) = {}
  BY TableFacts DEF TableColumnNew, ColumnNewResult, SoundStore, Inv
<1>2. ASSUME UNCHANGED tables PROVE Contents' = Contents
  BY <1>1, <1>2
    DEF Contents, TableContents, Columns, CompleteRows, Filling, ValueAt, Cell, IsString, TypeOf
<1>3. ASSUME tables' = [tables EXCEPT ![t].columns = Append(@, column)]
      PROVE  /\ t \in DOMAIN Contents /\ RowStore!AddColumn(t, name, type)
             /\ ~UNCHANGED tables
  <2>. SUFFICES ASSUME NEW n, n = Len(tables[t].columns), NEW new, new = n + 1
                PROVE  /\ t \in DOMAIN Contents /\ RowStore!AddColumn(t, name, type)
                       /\ ~UNCHANGED tables
    OBVIOUS
  <2>1. /\ tables[t] \in TableType(tables[t].row_capacity)
        /\ tables[t].columns \in Seq(ColumnType(tables[t].row_capacity))
    BY TableFacts DEF TableType, SoundStore, Inv
  <2>2. column.name = name /\ column.type = type
    BY DEF NewColumn, ReallocData
  <2>. HIDE DEF column
  <2>. DEFINE columns == Append(tables[t].columns, column)
  <2>3. /\ n \in Nat /\ Columns(t) = 1 .. n
        /\ Len(columns) = new /\ DOMAIN columns = 1 .. new
        /\ columns[new] = column
        /\ \A c \in 1 .. n : columns[c] = tables[t].columns[c]
    BY <2>1 DEF Columns
  <2>4. /\ DOMAIN tables' = DOMAIN tables
        /\ tables'[t].columns = columns
        /\ tables'[t].name = tables[t].name /\ tables'[t].row_count = 0
        /\ \A u \in DOMAIN tables : u # t => tables'[u] = tables[u]
    BY <1>1, <1>3, <2>1 DEF TableType
  <2>. HIDE DEF columns
  <2>5. KeepsStrings({})
    BY <1>1 DEF KeepsStrings
  <2>6. ASSUME NEW u \in DOMAIN tables, u # t
        PROVE  TableContents(u)' = TableContents(u)
    <3>1. u \in DOMAIN tables' /\ tables'[u] = tables[u]
      BY <2>4, <2>6
    <3>2. CompleteRows(u)' = CompleteRows(u)
      BY <1>1, <3>1 DEF CompleteRows, Filling
    <3>. QED BY <2>5, <3>1, <3>2, Untouched DEF SoundStore, Inv
  <2>7. /\ WellFormed /\ WellFormed' /\ TypeInv /\ t \in DOMAIN tables'
        /\ CompleteRows(t) = 0 /\ CompleteRows(t)' = 0
    BY <1>1, <2>4 DEF SoundStore, Inv, CompleteRows, Filling
  <2>8. RowsOf(t) = <<>> /\ RowsOf(t)' = <<>>
    <3>1. FunctionOn(RowsOf(t), 0) /\ FunctionOn(RowsOf(t)', 0)
      BY <2>7 DEF WellFormed, FunctionOn
    <3>. QED BY <3>1, EmptyOn
  <2>9. ColumnsOf(t)' = Append(ColumnsOf(t), abstract)
    <3>1. /\ FunctionOn(ColumnsOf(t)', Len(tables'[t].columns))
          /\ \A c \in Columns(t)' : ColumnsOf(t)'[c] = Column(t, c)'
      BY <2>7 DEF WellFormed, FunctionOn
    <3>2. Len(tables'[t].columns) = new /\ Columns(t)' = 1 .. new
      BY <2>3, <2>4 DEF Columns
    <3>3. \A c \in Columns(t) : ColumnsOf(t)[c] = Column(t, c)
      BY <2>7 DEF WellFormed
    <3>4. new \in 1 .. new /\ \A c \in 1 .. n : c \in 1 .. new
      BY <2>3
    <3>5. ColumnsOf(t)'[new] = abstract
      BY <2>2, <2>3, <2>4, <3>1, <3>2, <3>4 DEF Column, TypeOf
    <3>6. ASSUME NEW c \in 1 .. n
          PROVE  ColumnsOf(t)'[c] = ColumnsOf(t)[c]
      <4>1. c \in Columns(t) /\ c \in Columns(t)' /\ tables'[t].columns[c] = tables[t].columns[c]
        BY <2>3, <2>4, <3>2, <3>4
      <4>2. Column(t, c)' = Column(t, c)
        BY <4>1 DEF Column, TypeOf
      <4>. QED BY <3>1, <3>3, <4>1, <4>2
    <3>7. /\ ColumnsOf(t) \in Seq({Column(t, c) : c \in Columns(t)})
          /\ Len(ColumnsOf(t)) = n
      BY <2>7, ColumnsOfSeq
    <3>. HIDE DEF abstract
    <3>. QED BY <3>1, <3>2, <3>5, <3>6, <3>7, IsAppend
  <2>10. t \in DOMAIN Contents /\ Contents[t] = TableContents(t)
    BY <2>7, ContentsSeq
  <2>11. Contents' = [Contents EXCEPT ![t] = TableContents(t)']
    BY <1>1, <2>4, <2>6, <2>7, OneTableChanges
  <2>12. /\ TableContents(t)' = [name |-> tables[t].name,
                                 columns |-> ColumnsOf(t)', rows |-> RowsOf(t)']
         /\ TableContents(t) = [name |-> tables[t].name,
                                columns |-> ColumnsOf(t), rows |-> RowsOf(t)]
    BY <2>4, <2>7 DEF WellFormed
  <2>13. Contents' = [Contents EXCEPT ![t].columns = Append(@, abstract)]
    <3>. HIDE DEF abstract
    <3>1. Contents[t] = [name |-> tables[t].name, columns |-> ColumnsOf(t), rows |-> <<>>]
      BY <2>8, <2>10, <2>12
    <3>2. Contents[t].columns = ColumnsOf(t)
      BY <3>1
    <3>. DEFINE more == Append(Contents[t].columns, abstract)
    <3>3. TableContents(t)' = [name |-> tables[t].name, columns |-> more, rows |-> <<>>]
      BY <2>8, <2>9, <2>12, <3>2
    <3>. HIDE DEF more
    <3>4. TableContents(t)' = [Contents[t] EXCEPT !.columns = more]
      BY <3>1, <3>3
    <3>. QED BY <2>11, <3>4 DEF more
  <2>14. \A c \in DOMAIN Contents[t].columns : Contents[t].columns[c].name # name
    <3>1. Contents[t].columns = ColumnsOf(t)
      BY <2>10, <2>12
    <3>2. DOMAIN ColumnsOf(t) = Columns(t)
      BY <2>7, ColumnsOfSeq
    <3>3. ASSUME NEW c \in Columns(t)
          PROVE  ColumnsOf(t)[c].name # name
      <4>1. WellFormed
        BY <2>7
      <4>2. ColumnsOf(t)[c] = Column(t, c)
        BY <4>1 DEF WellFormed
      <4>. QED BY <1>1, <4>2 DEF Column, ColumnsNamed, Columns
    <3>. QED BY <3>1, <3>2, <3>3
  <2>15. Contents[t].rows = <<>>
    BY <2>8, <2>10, <2>12
  <2>16. t \in DOMAIN Contents /\ RowStore!AddColumn(t, name, type)
    BY <2>10, <2>13, <2>14, <2>15 DEF RowStore!AddColumn
  <2>17. tables'[t].columns # tables[t].columns
    BY <2>1, <2>3, <2>4
  <2>. QED BY <2>16, <2>17
<1>4. UNCHANGED tables \/ tables' = [tables EXCEPT ![t].columns = Append(@, column)]
  BY DEF TableColumnNew
<1>. HIDE DEF column
<1>. QED BY <1>2, <1>3, <1>4

\* table_row_add appends a row to a table without columns; otherwise the new
\* row is not there before it is filled.
LEMMA AddRowAppends ==
    ASSUME SoundStore, SoundStore', ~AllocMayFail, status = "up", ~Filling,
           NEW t \in DOMAIN tables, TableRowAdd(t)
    PROVE  /\ tables[t].columns = <<>> => t \in DOMAIN Contents /\ RowStore!AppendRow(t)
           /\ tables[t].columns # <<>> => /\ Contents' = Contents
                                         /\ status' = "up"
                                         /\ DOMAIN tables' = DOMAIN tables
                                         /\ \A u \in DOMAIN tables : SameShape(u)
<1> DEFINE grown == [tables[t] EXCEPT !.row_count = @ + 1]
           wider == grown.row_capacity * 2
           tab == IF NeedsRealloc(grown) THEN ReallocTable(grown, wider, {}) ELSE grown
           n == tables[t].row_count
<1>1. tables' = [tables EXCEPT ![t] = tab] /\ UNCHANGED <<heap, status>>
  BY DEF TableRowAdd, FailureSets
<1>2. /\ tables[t] \in TableType(tables[t].row_capacity)
      /\ n \in Nat /\ n < tables[t].row_capacity
      /\ tables[t].row_capacity \in Nat \ {0}
  BY TableFacts DEF SoundStore, Inv
<1>3. /\ grown.columns = tables[t].columns
      /\ grown.row_capacity = tables[t].row_capacity
      /\ grown.row_count = n + 1 /\ grown.name = tables[t].name
  BY <1>2 DEF TableType
<1>4. /\ tab.row_count = n + 1 /\ DOMAIN tab.columns = Columns(t)
      /\ tab.name = tables[t].name
  BY <1>2, <1>3 DEF ReallocTable, TableType, Columns
<1>5. ASSUME NEW c \in Columns(t)
      PROVE  /\ tab.columns[c].type = TypeOf(t, c)
             /\ tab.columns[c].name = tables[t].columns[c].name
             /\ \A r \in Slots(n) : tab.columns[c].data[r] = Cell(t, c, r)
  <2>1. tables[t].columns[c] \in ColumnType(tables[t].row_capacity)
    BY ColumnFacts DEF SoundStore, Inv
  <2>2. DOMAIN tables[t].columns[c].data = Slots(tables[t].row_capacity)
    BY DEF CapacityInv, SoundStore, Inv
  <2>3. CASE ~NeedsRealloc(grown)
    BY <1>3, <2>3 DEF Cell, TypeOf
  <2>4. CASE NeedsRealloc(grown)
    <3>1. tab.columns[c] = ReallocData(tables[t].columns[c], wider)
      BY <1>2, <1>3, <2>4 DEF ReallocTable, TableType, Columns
    <3>2. \A r \in Slots(n) : r \in Slots(wider) /\ r \in Slots(tables[t].row_capacity)
      BY <1>2, <1>3 DEF Slots
    <3>. QED BY <2>1, <2>2, <3>1, <3>2 DEF ReallocData, ColumnType, Cell, TypeOf
  <2>. QED BY <2>3, <2>4
<1>. HIDE DEF tab
<1>6. /\ DOMAIN tables' = DOMAIN tables /\ t \in DOMAIN tables'
      /\ tables'[t] = tab
      /\ \A u \in DOMAIN tables : u # t => tables'[u] = tables[u]
  BY <1>1
<1>7. fill' = IF tables[t].columns = <<>> THEN NoFill
              ELSE [table |-> t, row |-> n, col |-> 1]
  BY <1>3 DEF TableRowAdd
<1>8. SameShape(t)
  BY <1>4, <1>5, <1>6 DEF SameShape, Columns, TypeOf
<1>9. KeepsStrings({})
  BY <1>1 DEF KeepsStrings
<1>10. CompleteRows(t) = n
  BY DEF CompleteRows
<1>11. ASSUME NEW i \in 1 .. n
       PROVE  Row(t, i)' = Row(t, i)
  <2>1. i - 1 \in Slots(n)
    BY <1>2 DEF Slots
  <2>2. \A c \in Columns(t) : Cell(t, c, i - 1)' = Cell(t, c, i - 1)
    BY <1>5, <1>6, <2>1 DEF Cell
  <2>. QED BY <1>8, <1>9, <1>10, <2>2, SameRow DEF SoundStore, Inv
<1>12. ASSUME NEW u \in DOMAIN tables, u # t
       PROVE  TableContents(u)' = TableContents(u)
  <2>1. u \in DOMAIN tables' /\ tables'[u] = tables[u]
    BY <1>6, <1>12
  <2>2. CompleteRows(u)' = CompleteRows(u)
    BY <1>7, <1>12, <2>1 DEF CompleteRows, Filling, NoFill
  <2>. QED BY <1>9, <2>1, <2>2, Untouched DEF SoundStore, Inv
<1>13. ASSUME tables[t].columns = <<>>
       PROVE  t \in DOMAIN Contents /\ RowStore!AppendRow(t)
  <2>1. CompleteRows(t)' = n + 1
    BY <1>4, <1>6, <1>7, <1>13 DEF CompleteRows, Filling, NoFill
  <2>2. RowStore!AppendRow(t)
    BY <1>1, <1>6, <1>8, <1>10, <1>11, <1>12, <2>1, RowAppended DEF SoundStore, Inv
  <2>. QED BY <2>2, ContentsSeq DEF SoundStore, Inv
<1>14. ASSUME tables[t].columns # <<>>
       PROVE  Contents' = Contents
  <2>1. CompleteRows(t)' = n
    BY <1>2, <1>4, <1>6, <1>7, <1>14 DEF CompleteRows, Filling
  <2>2. TableContents(t)' = TableContents(t)
    BY <1>6, <1>8, <1>10, <1>11, <2>1, SameContents DEF SoundStore, Inv
  <2>. QED BY <1>1, <1>6, <1>12, <2>2, NoTableChanges
<1>15. status' = "up" /\ DOMAIN tables' = DOMAIN tables /\ \A u \in DOMAIN tables : SameShape(u)
  BY <1>1, <1>6, <1>8, SameTable
<1>. QED BY <1>13, <1>14, <1>15

\* Writing a slot leaves names and types alone.
LEMMA WriteKeepsShape ==
    ASSUME TypeInv, NEW t \in DOMAIN tables, NEW c \in Columns(t),
           NEW r \in DOMAIN tables[t].columns[c].data, NEW value,
           tables' = [tables EXCEPT ![t].columns[c].data[r] = value]
    PROVE  \A u \in DOMAIN tables : SameShape(u)
<1>1. tables[t] \in TableType(tables[t].row_capacity)
  BY TableFacts
<1>2. tables[t].columns[c] \in ColumnType(tables[t].row_capacity)
  BY ColumnFacts
<1> DEFINE data == [tables[t].columns[c].data EXCEPT ![r] = value]
           column == [tables[t].columns[c] EXCEPT !.data = data]
           columns == [tables[t].columns EXCEPT ![c] = column]
<1>3. tables' = [tables EXCEPT ![t] = [tables[t] EXCEPT !.columns = columns]]
  BY <1>1, <1>2 DEF TableType, ColumnType
<1>4. column.name = tables[t].columns[c].name /\ column.type = tables[t].columns[c].type
  BY <1>2 DEF ColumnType
<1>. HIDE DEF data, column
<1>5. /\ DOMAIN columns = DOMAIN tables[t].columns
      /\ columns[c] = column
      /\ \A d \in Columns(t) : d # c => columns[d] = tables[t].columns[d]
  BY DEF Columns
<1>. HIDE DEF columns
<1>6. /\ DOMAIN tables' = DOMAIN tables
      /\ tables'[t].columns = columns
      /\ tables'[t].name = tables[t].name
      /\ \A u \in DOMAIN tables : u # t => tables'[u] = tables[u]
  BY <1>1, <1>3 DEF TableType
<1>. QED BY <1>4, <1>5, <1>6 DEF SameShape, Columns, TypeOf

\* Writing a slot changes no row but the one it is in.
LEMMA WriteKeepsRow ==
    ASSUME Inv, NEW t \in DOMAIN tables, NEW c \in Columns(t),
           NEW r \in DOMAIN tables[t].columns[c].data, NEW value,
           tables' = [tables EXCEPT ![t].columns[c].data[r] = value],
           KeepsStrings({<<t, c, r>>}),
           NEW u \in DOMAIN tables, NEW i \in 1 .. CompleteRows(u),
           ~(u = t /\ i - 1 = r)
    PROVE  Row(u, i)' = Row(u, i)
<1>. SUFFICES ASSUME NEW q, q = i - 1
              PROVE  Row(u, i)' = Row(u, i)
  OBVIOUS
<1>1. TypeInv /\ CapacityInv
  BY DEF Inv
<1>0. OthersKept(t, c, r)
  <2>1. WritesSlot(t, c, r, value)
    BY DEF WritesSlot
  <2>. QED BY <1>1, <2>1, WrittenSlot
<1>2. ASSUME NEW d \in Columns(u)
      PROVE  <<u, d, q>> \notin {<<t, c, r>>} /\ Cell(u, d, q)' = Cell(u, d, q)
  <2>1. Complete(u, d, q)
    BY <1>1, CompleteRowsFacts
  <2>2. q \in DOMAIN tables[u].columns[d].data
    BY <1>1, <2>1, CompleteFacts
  <2>3. ~(u = t /\ q = r)
    OBVIOUS
  <2>4. <<u, d, q>> # <<t, c, r>>
    BY <2>3
  <2>. QED BY <1>0, <2>2, <2>4 DEF OthersKept
<1>3. SameShape(u)
  BY <1>1, WriteKeepsShape
<1>. QED BY <1>1, <1>2, <1>3, SameRow

\* The last value of a row appends it; until then nothing shows.  The value is
\* put in its column, and those before it stay.
LEMMA FillAppends ==
    ASSUME SoundStore, SoundStore', status = "up", Filling, NEW t, NEW c, NEW r,
           fill = [table |-> t, row |-> r, col |-> c],
           NEW value \in ValuesFor(t, c), FillCell(value)
    PROVE  /\ t \in DOMAIN tables /\ c \in Columns(t)
           /\ status' = "up" /\ DOMAIN tables' = DOMAIN tables
           /\ \A u \in DOMAIN tables : SameShape(u)
           /\ ValueAt(t, r, c)' = value
           /\ \A d \in Columns(t) : d < c => ValueAt(t, r, d)' = ValueAt(t, r, d)
           /\ c < Len(tables[t].columns) => Contents' = Contents
           /\ ~(c < Len(tables[t].columns)) =>
                 /\ t \in DOMAIN Contents /\ RowStore!AppendRow(t)
                 /\ Contents' = [Contents EXCEPT ![t].rows = Append(@, Row(t, r + 1)')]
<1>1. /\ Inv /\ TypeInv /\ CapacityInv /\ WellFormed /\ WellFormed' /\ RowsTyped'
      /\ status' # "crashed"
  BY DEF SoundStore, Inv, HeapInv
<1>2. /\ t \in DOMAIN tables /\ c \in Columns(t)
      /\ t \in Nat /\ c \in Nat /\ r \in Nat /\ r = tables[t].row_count - 1
  BY <1>1 DEF TypeInv
<1>3. Writable(t, c, r)
  BY <1>1 DEF FillCell, Crash
<1>4. r \in DOMAIN tables[t].columns[c].data
  BY <1>3 DEF Writable
<1>5. fill' = NextFill /\ status' = status
  BY <1>3 DEF FillCell
<1>6. PICK stored :
          /\ tables' = [tables EXCEPT ![t].columns[c].data[r] = stored]
          /\ IsString(t, c) => stored \in FreeAddr(heap) /\ heap' = [heap EXCEPT ![stored] = value]
          /\ ~IsString(t, c) => heap' = heap /\ stored = value
  BY <1>3 DEF FillCell
<1>7. KeepsStrings({<<t, c, r>>})
  <2>. SUFFICES ASSUME NEW u, NEW d, NEW q, Owns(u, d, q)
                PROVE  heap'[Cell(u, d, q)] = heap[Cell(u, d, q)]
    BY DEF KeepsStrings
  <2>1. u \in Nat /\ d \in Nat /\ q \in Nat
    BY <1>1, OwnsFacts
  <2>2. Cell(u, d, q) \in Addr /\ heap[Cell(u, d, q)] # Free
    BY <1>1, <2>1 DEF Inv, HeapInv, OwnershipInv
  <2>3. heap \in [Addr -> Str \cup {Free}]
    BY <1>1 DEF TypeInv
  <2>. QED BY <1>6, <2>2, <2>3 DEF FreeAddr
<1>8. tables' = [tables EXCEPT ![t].columns[c].data[r] = stored]
  BY <1>6
<1>9. \A u \in DOMAIN tables : SameShape(u)
  BY <1>1, <1>2, <1>4, <1>8, WriteKeepsShape
<1>10. /\ DOMAIN tables' = DOMAIN tables
       /\ \A u \in DOMAIN tables : tables'[u].row_count = tables[u].row_count
       /\ \A u \in DOMAIN tables : \A d \in Columns(u) : IsString(u, d)' <=> IsString(u, d)
       /\ Cell(t, c, r)' = stored
       /\ OthersKept(t, c, r)
  <2>1. WritesSlot(t, c, r, stored)
    BY <1>8 DEF WritesSlot
  <2>. QED BY <1>1, <1>2, <1>4, <2>1, WrittenSlot
<1>11. ASSUME NEW u \in DOMAIN tables, NEW i \in 1 .. CompleteRows(u)
       PROVE  Row(u, i)' = Row(u, i)
  <2>1. ~(u = t /\ i - 1 = r)
    <3>1. CompleteRows(t) = r /\ r \in Nat
      BY <1>2 DEF CompleteRows
    <3>2. u = t => i \in 1 .. r
      BY <3>1
    <3>. QED BY <3>1, <3>2
  <2>. QED BY <1>1, <1>2, <1>4, <1>7, <1>8, <2>1, WriteKeepsRow
<1>12. \A u \in DOMAIN tables : CompleteRows(u)' = CompleteRows(u) =>
          TableContents(u)' = TableContents(u)
  BY <1>1, <1>9, <1>10, <1>11, SameContents
<1>13. /\ \A u \in DOMAIN tables : u # t => CompleteRows(u)' = CompleteRows(u)
       /\ c < Len(tables[t].columns) => CompleteRows(t)' = CompleteRows(t)
       /\ ~(c < Len(tables[t].columns)) => CompleteRows(t)' = CompleteRows(t) + 1
       /\ CompleteRows(t) + 1 = r + 1
  <2>1. fill' = IF c < Len(tables[t].columns) THEN [table |-> t, row |-> r, col |-> c + 1]
                                              ELSE NoFill
    BY <1>5 DEF NextFill
  <2>2. tables[t].row_count \in Nat
    BY <1>1, <1>2, TableFacts
  <2>. QED BY <1>2, <1>10, <2>1, <2>2 DEF CompleteRows, Filling, NoFill
<1>14. status' = "up"
  BY <1>5
<1>15. ASSUME c < Len(tables[t].columns)
       PROVE  Contents' = Contents
  BY <1>10, <1>12, <1>13, <1>14, <1>15, NoTableChanges
<1>16. ASSUME ~(c < Len(tables[t].columns))
       PROVE  /\ t \in DOMAIN Contents /\ RowStore!AppendRow(t)
              /\ Contents' = [Contents EXCEPT ![t].rows = Append(@, Row(t, r + 1)')]
  <2>1. \A u \in DOMAIN tables : u # t => TableContents(u)' = TableContents(u)
    BY <1>12, <1>13
  <2>2. \A i \in 1 .. CompleteRows(t) : Row(t, i)' = Row(t, i)
    BY <1>2, <1>11
  <2>3. \A k : k = r + 1 => /\ RowStore!AppendRow(t)
                            /\ Contents' = [Contents EXCEPT ![t].rows = Append(@, Row(t, k)')]
    BY <1>1, <1>2, <1>9, <1>10, <1>13, <1>14, <1>16, <2>1, <2>2, RowAppended
  <2>. QED BY <1>1, <1>2, <2>3, ContentsSeq
<1>17. ValueAt(t, r, c)' = value
  <2>1. IsString(t, c)' <=> IsString(t, c)
    BY <1>2, <1>10
  <2>2. CASE IsString(t, c)
    <3>1. stored \in Addr /\ heap'[stored] = value
      BY <1>1, <1>6, <2>2 DEF FreeAddr, TypeInv
    <3>. QED BY <1>10, <2>1, <2>2, <3>1 DEF ValueAt
  <2>3. CASE ~IsString(t, c)
    BY <1>6, <1>10, <2>1, <2>3 DEF ValueAt
  <2>. QED BY <2>2, <2>3
<1>18. ASSUME NEW d \in Columns(t), d < c
       PROVE  ValueAt(t, r, d)' = ValueAt(t, r, d)
  <2>1. Complete(t, d, r)
    <3>0. d \in 1 .. Len(tables[t].columns)
      BY <1>1, <1>2, ColumnFacts
    <3>1. tables[t].row_count \in Nat /\ d \in Int
      BY <1>1, <1>2, <3>0, TableFacts
    <3>2. Written(t, r, d) /\ r \in Slots(tables[t].row_count)
      BY <1>2, <1>18, <3>1 DEF Written, Slots
    <3>. QED BY <1>2, <3>2 DEF Complete
  <2>2. r \in DOMAIN tables[t].columns[d].data
    BY <1>1, <2>1, CompleteFacts
  <2>3. d # c
    BY <1>2, <1>18
  <2>4. <<t, d, r>> # <<t, c, r>>
    BY <2>3
  <2>5. Cell(t, d, r)' = Cell(t, d, r)
    BY <1>2, <1>10, <2>2, <2>4 DEF OthersKept
  <2>6. IsString(t, d) => heap'[Cell(t, d, r)] = heap[Cell(t, d, r)]
    BY <1>7, <2>1, <2>4 DEF KeepsStrings, Complete, Owns
  <2>. QED BY <1>2, <1>10, <2>5, <2>6 DEF ValueAt
<1>. QED BY <1>2, <1>9, <1>10, <1>14, <1>15, <1>16, <1>17, <1>18

ValueReplaced(t, k, c, value) == Contents' = [Contents EXCEPT ![t].rows[k][c] = value]

\* Replacing a value sets it, and frees no string but the one it replaces.
LEMMA ReplaceSets ==
    ASSUME SoundStore, SoundStore', status = "up", ~Filling, NEW t \in DOMAIN tables,
           NEW c \in Columns(t), NEW r \in Slots(tables[t].row_count),
           NEW value \in ValuesFor(t, c), ReplaceCell(t, c, r, value)
    PROVE  /\ t \in DOMAIN Contents /\ r + 1 \in DOMAIN Contents[t].rows
           /\ c \in DOMAIN Contents[t].columns
           /\ RowStore!SetValue(t, r + 1, c)
           /\ ValueReplaced(t, r + 1, c, value)
           /\ status' = "up" /\ DOMAIN tables' = DOMAIN tables
           /\ \A u \in DOMAIN tables : SameShape(u)
<1>. SUFFICES ASSUME NEW k, k = r + 1
              PROVE  /\ k \in DOMAIN Contents[t].rows /\ c \in DOMAIN Contents[t].columns
                     /\ RowStore!SetValue(t, k, c)
                     /\ Contents' = [Contents EXCEPT ![t].rows[k][c] = value]
                     /\ status' = "up" /\ DOMAIN tables' = DOMAIN tables
                     /\ \A u \in DOMAIN tables : SameShape(u)
  BY ContentsSeq DEF SoundStore, Inv, ValueReplaced
<1> DEFINE old == {<<t, c, r>>} \cap StringSlots(t, {r})
<1>1. /\ Inv /\ TypeInv /\ CapacityInv /\ OwnershipInv /\ WellFormed /\ WellFormed'
      /\ status' # "crashed"
  BY DEF SoundStore, Inv, HeapInv
<1>2. /\ tables[t].row_count \in Nat /\ CompleteRows(t) = tables[t].row_count
      /\ t \in Nat /\ c \in Nat /\ r \in Nat /\ r < tables[t].row_count
      /\ k \in 1 .. CompleteRows(t) /\ k - 1 = r
  BY <1>1, TableFacts, ColumnFacts DEF Slots, CompleteRows
<1>3. \A d \in Columns(t) : Complete(t, d, r) /\ (IsString(t, d) => Owns(t, d, r))
  BY DEF Complete, Owns, Written
<1>4. IF IsString(t, c) THEN old = {<<t, c, r>>} ELSE old = {}
  BY DEF StringSlots, Columns
<1>5. PICK stored :
          /\ r \in DOMAIN tables[t].columns[c].data
          /\ tables' = [tables EXCEPT ![t].columns[c].data[r] = stored]
          /\ IsString(t, c) => /\ stored \in FreeAddr(HeapWithout(old))
                               /\ heap' = [HeapWithout(old) EXCEPT ![stored] = value]
          /\ ~IsString(t, c) => heap' = heap /\ stored = value
          /\ UNCHANGED <<fill, status>>
  BY <1>1 DEF ReplaceCell, Crash, Writable
<1>6. r \in DOMAIN tables[t].columns[c].data
  BY <1>5
<1>7. tables' = [tables EXCEPT ![t].columns[c].data[r] = stored]
  BY <1>5
<1>8. KeepsStrings({<<t, c, r>>})
  <2>. SUFFICES ASSUME NEW u, NEW d, NEW q, Owns(u, d, q), ~(u = t /\ d = c /\ q = r)
                PROVE  heap'[Cell(u, d, q)] = heap[Cell(u, d, q)]
    BY DEF KeepsStrings
  <2>1. u \in Nat /\ d \in Nat /\ q \in Nat
    BY <1>1, OwnsFacts
  <2>2. Cell(u, d, q) \in Addr /\ heap[Cell(u, d, q)] # Free
    BY <1>1, <2>1 DEF OwnershipInv
  <2>3. CASE IsString(t, c)
    <3>1. Cell(u, d, q) # Cell(t, c, r)
      BY <1>1, <1>2, <1>3, <2>1, <2>3 DEF OwnershipInv
    <3>2. \A s \in old : Held(s) # Cell(u, d, q)
      BY <1>4, <2>3, <3>1 DEF Held
    <3>. HIDE DEF old
    <3>3. HeapWithout(old)[Cell(u, d, q)] = heap[Cell(u, d, q)]
      BY <2>2, <3>2, FreedAddresses
    <3>4. Cell(u, d, q) # stored
      BY <1>5, <2>2, <2>3, <3>3 DEF FreeAddr
    <3>. QED BY <1>5, <2>2, <2>3, <3>3, <3>4 DEF HeapWithout
  <2>4. CASE ~IsString(t, c)
    BY <1>5, <2>4
  <2>. QED BY <2>3, <2>4
<1>9. /\ DOMAIN tables' = DOMAIN tables
      /\ \A u \in DOMAIN tables :
            /\ Columns(u)' = Columns(u)
            /\ tables'[u].row_count = tables[u].row_count
      /\ \A u \in DOMAIN tables : \A d \in Columns(u) : IsString(u, d)' <=> IsString(u, d)
      /\ Cell(t, c, r)' = stored
      /\ OthersKept(t, c, r)
  <2>1. WritesSlot(t, c, r, stored)
    BY <1>7 DEF WritesSlot
  <2>. QED BY <1>1, <1>6, <2>1, WrittenSlot
<1>10. \A u \in DOMAIN tables : SameShape(u) /\ CompleteRows(u)' = CompleteRows(u)
  <2>1. \A u \in DOMAIN tables : SameShape(u)
    BY <1>1, <1>6, <1>7, WriteKeepsShape
  <2>. QED BY <1>5, <1>9, <2>1 DEF CompleteRows, Filling
<1>11. ASSUME NEW u \in DOMAIN tables, NEW i \in 1 .. CompleteRows(u), ~(u = t /\ i = k)
      PROVE  Row(u, i)' = Row(u, i)
  <2>1. ~(u = t /\ i - 1 = r)
    BY <1>2, <1>11
  <2>. QED BY <1>1, <1>6, <1>7, <1>8, <2>1, WriteKeepsRow
<1>12. ASSUME NEW d \in Columns(t), d # c
       PROVE  ValueAt(t, r, d)' = ValueAt(t, r, d)
  <2>1. r \in DOMAIN tables[t].columns[d].data
    BY <1>1, <1>3, CompleteFacts
  <2>2. <<t, d, r>> # <<t, c, r>>
    BY <1>12
  <2>3. Cell(t, d, r)' = Cell(t, d, r)
    BY <1>9, <2>1, <2>2 DEF OthersKept
  <2>4. IsString(t, d) => heap'[Cell(t, d, r)] = heap[Cell(t, d, r)]
    BY <1>3, <1>8, <2>2 DEF KeepsStrings
  <2>. QED BY <1>9, <2>3, <2>4 DEF ValueAt
<1>13. ValueAt(t, r, c)' = value
  <2>1. IsString(t, c)' <=> IsString(t, c)
    BY <1>9
  <2>2. CASE IsString(t, c)
    <3>1. stored \in Addr /\ heap'[stored] = value
      BY <1>5, <2>2 DEF FreeAddr, HeapWithout
    <3>. QED BY <1>9, <2>1, <2>2, <3>1 DEF ValueAt
  <2>3. CASE ~IsString(t, c)
    BY <1>5, <1>9, <2>1, <2>3 DEF ValueAt
  <2>. QED BY <2>2, <2>3
<1>14. Row(t, k)' = [Row(t, k) EXCEPT ![c] = value]
  <2>1. /\ Row(t, k) = [d \in Columns(t) |-> ValueAt(t, r, d)]
        /\ Row(t, k)' = [d \in Columns(t) |-> ValueAt(t, r, d)']
    BY <1>2, <1>9 DEF Row
  <2>. QED BY <1>12, <1>13, <2>1
<1>15. value \in RowStore!ValueOf(TypeOf(t, c))
  BY DEF ValuesFor, IsString, RowStore!ValueOf
<1>16. \A u \in DOMAIN tables : u # t => TableContents(u)' = TableContents(u)
  <2>. SUFFICES ASSUME NEW u \in DOMAIN tables, u # t
                PROVE  TableContents(u)' = TableContents(u)
    OBVIOUS
  <2>1. \A i \in 1 .. CompleteRows(u) : Row(u, i)' = Row(u, i)
    BY <1>11
  <2>. QED BY <1>1, <1>9, <1>10, <2>1, SameContents
<1>17. status' = "up" /\ \A i \in 1 .. CompleteRows(t) : i # k => Row(t, i)' = Row(t, i)
  BY <1>5, <1>11
<1>. QED BY <1>1, <1>2, <1>9, <1>10, <1>14, <1>15, <1>16, <1>17, ValueSet

\* Removing a row keeps names and types.
LEMMA DeleteKeepsShape ==
    ASSUME TypeInv, NEW t \in DOMAIN tables, NEW index,
           tables' = [tables EXCEPT ![t] = RemoveRow(tables[t], index)]
    PROVE  SameShape(t)
<1> DEFINE tab == RemoveRow(tables[t], index)
           n == tables[t].row_count
<1>1. tables[t] \in TableType(tables[t].row_capacity)
  BY TableFacts
<1>2. /\ tab.name = tables[t].name
      /\ tab.columns = [c \in Columns(t) |-> ShiftDown(tables[t].columns[c], index, n)]
  BY <1>1 DEF RemoveRow, TableType, Columns
<1>. HIDE DEF tab
<1>3. tables'[t] = tab
  BY DEF tab
<1>4. ASSUME NEW c \in Columns(t)
      PROVE  /\ tab.columns[c].type = tables[t].columns[c].type
             /\ tab.columns[c].name = tables[t].columns[c].name
  <2>1. tables[t].columns[c] \in ColumnType(tables[t].row_capacity)
    BY ColumnFacts
  <2>2. tab.columns[c] = ShiftDown(tables[t].columns[c], index, n)
    BY <1>2
  <2>. QED BY <2>1, <2>2 DEF ShiftDown, ColumnType
<1>. QED BY <1>2, <1>3, <1>4 DEF SameShape, Columns, TypeOf

\* Deleting a row removes it; the strings that stay are those of other rows.
LEMMA DeleteRemoves ==
    ASSUME SoundStore, SoundStore', status = "up", ~Filling, NEW t \in DOMAIN tables,
           NEW index \in Nat, TableRowDelete(t, index)
    PROVE  /\ index >= tables[t].row_count => Contents' = Contents
           /\ index < tables[t].row_count =>
                 /\ t \in DOMAIN Contents /\ index + 1 \in DOMAIN Contents[t].rows
                 /\ RowStore!RemoveRow(t, index + 1)
                 /\ status' = "up" /\ DOMAIN tables' = DOMAIN tables
                 /\ \A u \in DOMAIN tables : SameShape(u)
                 /\ tables'[t].row_count = tables[t].row_count - 1
<1> DEFINE n == tables[t].row_count
           dead == StringSlots(t, {index})
<1>1. /\ Inv /\ TypeInv /\ CapacityInv /\ OwnershipInv /\ WellFormed /\ WellFormed'
      /\ status' # "crashed"
  BY DEF SoundStore, Inv, HeapInv
<1>2. n \in Nat /\ CompleteRows(t) = n
  BY <1>1, TableFacts DEF CompleteRows
<1>3. ASSUME index >= n PROVE Contents' = Contents
  <2>1. UNCHANGED storageVars
    BY <1>3 DEF TableRowDelete
  <2>. QED BY <2>1 DEF storageVars, Contents, TableContents, Columns, CompleteRows, Filling,
                       ValueAt, Cell, IsString, TypeOf
<1>4. ASSUME index < n
      PROVE  /\ t \in DOMAIN Contents /\ index + 1 \in DOMAIN Contents[t].rows
             /\ RowStore!RemoveRow(t, index + 1)
             /\ status' = "up" /\ DOMAIN tables' = DOMAIN tables
             /\ \A u \in DOMAIN tables : SameShape(u)
             /\ tables'[t].row_count = tables[t].row_count - 1
  <2>. SUFFICES ASSUME NEW k, k = index + 1, NEW m, m = n - 1
                PROVE  /\ k \in DOMAIN Contents[t].rows /\ RowStore!RemoveRow(t, k)
                       /\ status' = "up" /\ DOMAIN tables' = DOMAIN tables
                       /\ \A u \in DOMAIN tables : SameShape(u)
                       /\ tables'[t].row_count = m
    BY <1>1, ContentsSeq
  <2>1. /\ index < n
        /\ heap' = HeapWithout(dead)
        /\ tables' = [tables EXCEPT ![t] = RemoveRow(tables[t], index)]
        /\ UNCHANGED <<fill, status>>
    BY <1>1, <1>2, <1>4 DEF TableRowDelete, Crash
  <2>2. /\ DOMAIN tables' = DOMAIN tables
        /\ \A u \in DOMAIN tables : u # t => tables'[u] = tables[u]
        /\ tables'[t].row_count = m
        /\ Columns(t)' = Columns(t)
        /\ \A d \in Columns(t) :
              /\ tables'[t].columns[d].type = tables[t].columns[d].type
              /\ \A q \in Slots(m) : Cell(t, d, q)' = Cell(t, d, IF q >= index THEN q + 1 ELSE q)
    BY <1>1, <2>1, RemovedRow
  <2>3. SameShape(t)
    BY <1>1, <2>1, DeleteKeepsShape
  <2> DEFINE lost == {t} \X Columns(t) \X {index}
  <2>4. \A u, d, q : <<u, d, q>> \in lost <=> u = t /\ d \in Columns(t) /\ q = index
    OBVIOUS
  <2>. HIDE DEF lost
  <2>5. KeepsStrings(lost)
    <3>. SUFFICES ASSUME NEW u, NEW d, NEW q, Owns(u, d, q), <<u, d, q>> \notin lost
                  PROVE  heap'[Cell(u, d, q)] = heap[Cell(u, d, q)]
      BY DEF KeepsStrings
    <3>1. u \in Nat /\ d \in Nat /\ q \in Nat
      BY <1>1, OwnsFacts
    <3>2. Cell(u, d, q) \in Addr
      BY <1>1, <3>1 DEF OwnershipInv
    <3>3. ~(u = t /\ q = index)
      BY <2>4 DEF Owns
    <3>4. ASSUME NEW s \in dead
          PROVE  Held(s) # Cell(u, d, q)
      <4>1. PICK e : s = <<t, e, index>> /\ Owns(t, e, index)
        BY <1>2, <2>1 DEF StringSlots, Owns, Columns, Slots, Written
      <4>2. t \in Nat /\ e \in Nat
        BY <1>1, <4>1, OwnsFacts
      <4>3. Cell(t, e, index) # Cell(u, d, q)
        BY <1>1, <3>1, <3>3, <4>1, <4>2 DEF OwnershipInv
      <4>. QED BY <4>1, <4>3 DEF Held
    <3>. HIDE DEF dead
    <3>. QED BY <2>1, <3>2, <3>4, FreedAddresses
  <2>6. /\ \A u \in DOMAIN tables : u # t => CompleteRows(u)' = CompleteRows(u)
        /\ CompleteRows(t)' = m
    BY <2>1, <2>2 DEF CompleteRows, Filling
  <2>7. ASSUME NEW u \in DOMAIN tables, u # t
        PROVE  TableContents(u)' = TableContents(u)
    <3>1. \A d, q : <<u, d, q>> \notin lost
      BY <2>4, <2>7
    <3>2. u \in DOMAIN tables' /\ tables'[u] = tables[u]
      BY <2>2, <2>7
    <3>3. CompleteRows(u)' = CompleteRows(u)
      BY <2>6, <2>7
    <3>. QED BY <1>1, <2>5, <3>1, <3>2, <3>3, Untouched
  <2>8. ASSUME NEW i \in 1 .. m
        PROVE  Row(t, i)' = IF i < k THEN Row(t, i) ELSE Row(t, i + 1)
    <3>. SUFFICES ASSUME NEW j, j = IF i < k THEN i ELSE i + 1
                  PROVE  Row(t, i)' = Row(t, j)
      OBVIOUS
    <3>. SUFFICES ASSUME NEW p, p = i - 1, NEW q, q = j - 1
                  PROVE  Row(t, i)' = Row(t, j)
      OBVIOUS
    <3>1. /\ j \in 1 .. CompleteRows(t) /\ p \in Slots(m)
          /\ q = IF p >= index THEN p + 1 ELSE p
          /\ q # index
      BY <1>2, <2>1 DEF Slots
    <3>2. \A d \in Columns(t) : <<t, d, q>> \notin lost /\ Cell(t, d, p)' = Cell(t, d, q)
      BY <2>2, <2>4, <3>1
    <3>. QED BY <1>1, <2>3, <2>5, <3>1, <3>2, SameRow
  <2>9. k \in 1 .. CompleteRows(t) /\ m = CompleteRows(t) - 1 /\ status' = "up"
    BY <1>2, <2>1
  <2>10. k \in DOMAIN Contents[t].rows /\ RowStore!RemoveRow(t, k)
    BY <1>1, <2>2, <2>3, <2>6, <2>7, <2>8, <2>9, RowRemoved
  <2>11. \A u \in DOMAIN tables : SameShape(u)
    BY <2>2, <2>3, SameTable
  <2>. QED BY <2>2, <2>9, <2>10, <2>11
<1>. QED BY <1>3, <1>4

\* The end of the backend is the end of its contents.
LEMMA DeinitCloses ==
    ASSUME SoundStore', status = "up", StorageDeinit
    PROVE  RowStore!Close
<1>1. status' = "down"
  BY DEF SoundStore, Inv, HeapInv, StorageDeinit, Crash
<1>. QED BY <1>1 DEF Contents, RowStore!Close

----------------------------------------------------------------------------
(* The refinement.                                                         *)

LEMMA StoreInit == StorageInit => RowStore!Init
<1>. SUFFICES ASSUME StorageInit PROVE RowStore!Init
  OBVIOUS
<1>1. TypeInv /\ status = "up" /\ tables = <<>>
  BY InvInit DEF Inv, StorageInit
<1>2. Contents \in Seq({TableContents(t) : t \in DOMAIN tables}) /\ Len(Contents) = 0
  BY <1>1, ContentsSeq
<1>. QED BY <1>2, EmptySeq DEF RowStore!Init

LEMMA StoreStep ==
    ASSUME ~AllocMayFail, SoundStore, SoundStore', [StorageNext]_storageVars
    PROVE  [RowStore!Next]_Contents
<1>1. CASE ClientNewTable
  <2>1. PICK name \in TableName : DbTableNew(name)
    BY <1>1 DEF ClientNewTable
  <2>2. RowStore!CreateTable(name)
    BY <1>1, <2>1, NewTableCreates DEF ClientNewTable, Ready
  <2>. QED BY <2>2 DEF RowStore!Next
<1>2. CASE ClientNewColumn
  <2>1. PICK t \in DOMAIN tables, type \in BaseType, name \in ColumnName :
           TableColumnNew(t, type, name)
    BY <1>2 DEF ClientNewColumn
  <2>2. (t \in DOMAIN Contents /\ RowStore!AddColumn(t, name, type)) \/ Contents' = Contents
    BY <1>2, <2>1, NewColumnAdds DEF ClientNewColumn, Ready
  <2>3. BaseType = RowStore!BaseType
    BY DEF BaseType, RowStore!BaseType
  <2>. QED BY <2>2, <2>3 DEF RowStore!Next
<1>3. CASE ClientAddRow
  <2>1. PICK t \in DOMAIN tables : TableRowAdd(t)
    BY <1>3 DEF ClientAddRow
  <2>2. (t \in DOMAIN Contents /\ RowStore!AppendRow(t)) \/ Contents' = Contents
    BY <1>3, <2>1, AddRowAppends DEF ClientAddRow, Ready
  <2>. QED BY <2>2 DEF RowStore!Next
<1>4. CASE ClientFill
  <2>1. PICK value \in ValuesFor(fill.table, fill.col) : FillCell(value)
    BY <1>4 DEF ClientFill
  <2>2. fill = [table |-> fill.table, row |-> fill.row, col |-> fill.col]
    BY DEF SoundStore, Inv, TypeInv
  <2>3. \/ fill.table \in DOMAIN Contents /\ RowStore!AppendRow(fill.table)
        \/ Contents' = Contents
    BY <1>4, <2>1, <2>2, FillAppends DEF ClientFill
  <2>. QED BY <2>3 DEF RowStore!Next
<1>5. CASE ClientReplace
  <2>1. PICK t \in DOMAIN tables : \E c \in DOMAIN tables[t].columns :
           \E r \in Slots(tables[t].row_count) :
           \E value \in ValuesFor(t, c) : ReplaceCell(t, c, r, value)
    BY <1>5 DEF ClientReplace
  <2>2. PICK c \in Columns(t), r \in Slots(tables[t].row_count) :
           \E value \in ValuesFor(t, c) : ReplaceCell(t, c, r, value)
    BY <2>1 DEF Columns
  <2>3. PICK value \in ValuesFor(t, c) : ReplaceCell(t, c, r, value)
    BY <2>2
  <2>4. /\ t \in DOMAIN Contents /\ r + 1 \in DOMAIN Contents[t].rows
        /\ c \in DOMAIN Contents[t].columns
        /\ RowStore!SetValue(t, r + 1, c)
    BY <1>5, <2>3, ReplaceSets DEF ClientReplace, Ready
  <2>. QED BY <2>4 DEF RowStore!Next
<1>6. CASE ClientDelete
  <2>1. PICK t \in DOMAIN tables : \E r \in 0 .. tables[t].row_count : TableRowDelete(t, r)
    BY <1>6 DEF ClientDelete
  <2>2. PICK r \in 0 .. tables[t].row_count : TableRowDelete(t, r)
    BY <2>1
  <2>3. r \in Nat
    BY TableFacts DEF SoundStore, Inv
  <2>4. /\ r >= tables[t].row_count => Contents' = Contents
        /\ r < tables[t].row_count => /\ t \in DOMAIN Contents /\ r + 1 \in DOMAIN Contents[t].rows
                                      /\ RowStore!RemoveRow(t, r + 1)
    BY <1>6, <2>2, <2>3, DeleteRemoves DEF ClientDelete, Ready
  <2>5. tables[t].row_count \in Nat
    BY TableFacts DEF SoundStore, Inv
  <2>. QED BY <2>3, <2>4, <2>5 DEF RowStore!Next
<1>7. CASE ClientDeinit
  <2>1. RowStore!Close
    BY <1>7, DeinitCloses DEF ClientDeinit, Ready
  <2>. QED BY <2>1 DEF RowStore!Next
<1>8. CASE UNCHANGED storageVars
  <2>1. Contents' = Contents
    BY <1>8 DEF storageVars, Contents, TableContents, Columns, CompleteRows, Filling, ValueAt,
                Cell, IsString, TypeOf
  <2>. QED BY <2>1
<1>. QED BY <1>1, <1>2, <1>3, <1>4, <1>5, <1>6, <1>7, <1>8 DEF StorageNext

\* While memory lasts, the backend is a list of tables of rows of values:
\* capacities, reallocation, shifting slots, the heap, and the filling of a row
\* column by column never show.
THEOREM BackendIsRowStore ==
    ASSUME ~AllocMayFail
    PROVE  StorageSpec => ImplementsRowStore
<1>1. StorageInit => Inv /\ RowsInv /\ RowStore!Init
  BY InvInit, RowsInit, StoreInit
<1>2. Inv /\ RowsInv /\ [StorageNext]_storageVars => Inv' /\ RowsInv'
  BY InvStep, RowsStep DEF Inv
<1>3. Inv /\ RowsInv => SoundStore
  BY SoundInv
<1>4. SoundStore /\ SoundStore' /\ [StorageNext]_storageVars => [RowStore!Next]_Contents
  BY StoreStep
<1>. QED BY <1>1, <1>2, <1>3, <1>4, PTL DEF StorageSpec, ImplementsRowStore, RowStore!Spec

============================================================================
