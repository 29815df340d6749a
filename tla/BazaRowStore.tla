--------------------------- MODULE BazaRowStore ----------------------------
(***************************************************************************)
(* What the storage backend promises, with nothing of how it stores: a     *)
(* list of tables, each with its columns and a sequence of rows of values. *)
(* BazaStorage implements this module.                                     *)
(***************************************************************************)
EXTENDS BazaTypes, Naturals, Sequences, SequencesExt

CONSTANTS TableName, ColumnName, IntValue

VARIABLE store

ValueOf(type) == IF type = "STRING" THEN Str ELSE IntValue

EmptyTable(name) == [name |-> name, columns |-> <<>>, rows |-> <<>>]

Init == store = <<>>

CreateTable(name) == store' = Append(store, EmptyTable(name))

\* Columns are added to empty tables only, under a name the table lacks.
AddColumn(t, name, type) ==
    /\ store[t].rows = <<>>
    /\ \A c \in DOMAIN store[t].columns : store[t].columns[c].name # name
    /\ store' = [store EXCEPT ![t].columns = Append(@, [name |-> name, type |-> type])]

\* A row gives each column a value of its type.
RowsFor(columns) ==
    {row \in [DOMAIN columns -> Str \cup IntValue] :
        \A c \in DOMAIN columns : row[c] \in ValueOf(columns[c].type)}

AppendRow(t) ==
    \E row \in RowsFor(store[t].columns) :
        store' = [store EXCEPT ![t].rows = Append(@, row)]

SetValue(t, r, c) ==
    \E value \in ValueOf(store[t].columns[c].type) :
        store' = [store EXCEPT ![t].rows[r][c] = value]

RemoveRow(t, r) == store' = [store EXCEPT ![t].rows = RemoveAt(@, r)]

Close == store' = <<>>

Next ==
    \/ \E name \in TableName : CreateTable(name)
    \/ \E t \in DOMAIN store :
        \/ \E name \in ColumnName, type \in BaseType : AddColumn(t, name, type)
        \/ AppendRow(t)
        \/ \E r \in DOMAIN store[t].rows :
            \/ RemoveRow(t, r)
            \/ \E c \in DOMAIN store[t].columns : SetValue(t, r, c)
    \/ Close

Spec == Init /\ [][Next]_store

============================================================================
