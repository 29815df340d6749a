------------------------------ MODULE BazaSql ------------------------------
(***************************************************************************)
(* What a query means: the statements of README.md on tables of rows, each *)
(* carried out at once or refused with nothing changed.  BazaInterpreter   *)
(* implements this module for the queries it handles right; module         *)
(* BazaSqlRefinement says how.                                             *)
(*                                                                         *)
(* A WHERE clause is read from left to right, AND and OR alike.  A name    *)
(* designates the first table that has it.                                 *)
(***************************************************************************)
EXTENDS BazaFilter, BazaPositions, FiniteSets

CONSTANTS Queries, NoList

VARIABLES
    db,         \* the tables
    request,    \* the query answered last
    result,
    answer      \* the rows it selected

TablesCalled(name) == {t \in DOMAIN db : db[t].name = name}
TableCalled(name) ==
    CHOOSE t \in TablesCalled(name) : \A u \in TablesCalled(name) : t <= u

Names(tab) == {tab.columns[c].name : c \in DOMAIN tab.columns}
ColumnCalled(tab, name) == CHOOSE c \in DOMAIN tab.columns : tab.columns[c].name = name

----------------------------------------------------------------------------
(* WHERE.                                                                  *)

Passes(tab, row, f) ==
    LET c == ColumnCalled(tab, f.column)
    IN  FilterHolds(f.op, tab.columns[c].type, row[c], f.value)

Joined(relation, left, right) ==
    CASE relation = "NONE" -> right
      [] relation = "AND"  -> left /\ right
      [] relation = "OR"   -> left \/ right

Satisfies(tab, row, filters) ==
    LET Turn(acc, f) == [holds |-> Joined(acc.relation, acc.holds, Passes(tab, row, f)),
                         relation |-> f.next_relation]
    IN  FoldLeft(Turn, [holds |-> TRUE, relation |-> "NONE"], filters).holds

FilterValid(tab, f) ==
    /\ f.column \in Names(tab)
    /\ f.op \in FilterFunctions
    /\ IsIntegral(tab.columns[ColumnCalled(tab, f.column)].type) => Converts(f.value)

----------------------------------------------------------------------------
(* The statements: which are accepted, and what they do.                   *)

ColumnsListed(q) == {q.columns[i] : i \in DOMAIN q.columns}

\* The values given for these column names convert to the columns' types.
ValuesValid(tab, names, values) ==
    /\ Len(values) = Len(names)
    /\ \A i \in DOMAIN names :
          /\ names[i] \in Names(tab)
          /\ IsIntegral(tab.columns[ColumnCalled(tab, names[i])].type)
                => Converts(values[i])

Acceptable(q) ==
    IF q.type = "CREATE"
    THEN /\ Len(q.types) = Len(q.columns)
         /\ \A i \in DOMAIN q.types : BaseTypeFromStr(q.types[i]) \in BaseType
         /\ Cardinality(ColumnsListed(q)) = Len(q.columns)
    ELSE /\ TablesCalled(q.table) # {}
         /\ LET tab == db[TableCalled(q.table)]
                all == [c \in DOMAIN tab.columns |-> tab.columns[c].name]
            IN  CASE q.type = "INSERT" -> ValuesValid(tab, all, q.values)
                  [] q.type = "UPDATE" ->
                        /\ ValuesValid(tab, q.columns, q.values)
                        /\ \A i \in DOMAIN q.filters : FilterValid(tab, q.filters[i])
                  [] q.type = "DELETE" ->
                        \A i \in DOMAIN q.filters : FilterValid(tab, q.filters[i])
                  [] q.type = "SELECT" ->
                        /\ q.columns = NoList \/ ColumnsListed(q) \subseteq Names(tab)
                        /\ \A i \in DOMAIN q.filters : FilterValid(tab, q.filters[i])

Create(q) ==
    db' = Append(db,
            [name |-> q.table,
             columns |-> [i \in DOMAIN q.columns |->
                            [name |-> q.columns[i], type |-> BaseTypeFromStr(q.types[i])]],
             rows |-> <<>>])

Insert(q) ==
    LET t == TableCalled(q.table)
        row == [c \in DOMAIN db[t].columns |-> SlotValue(db[t].columns[c].type, q.values[c])]
    IN  db' = [db EXCEPT ![t].rows = Append(@, row)]

Delete(q) ==
    LET t == TableCalled(q.table)
        rows == db[t].rows
        staying == {r \in DOMAIN rows : ~Satisfies(db[t], rows[r], q.filters)}
    IN  db' = [db EXCEPT ![t].rows = Kept(rows, staying)]

\* The value listed with a column's name is the one the column is set to.
Update(q) ==
    LET t == TableCalled(q.table)
        tab == db[t]
        ValueFor(c) == q.values[CHOOSE i \in DOMAIN q.columns :
                                    q.columns[i] = tab.columns[c].name]
        Set(row) == [c \in DOMAIN row |->
                        IF tab.columns[c].name \in ColumnsListed(q)
                        THEN SlotValue(tab.columns[c].type, ValueFor(c))
                        ELSE row[c]]
    IN  db' = [db EXCEPT ![t].rows =
                [r \in DOMAIN tab.rows |->
                    IF Satisfies(tab, tab.rows[r], q.filters) THEN Set(tab.rows[r])
                                                              ELSE tab.rows[r]]]

\* The selected rows, each once, in some order.
Selected(q) ==
    LET tab == db[TableCalled(q.table)]
        names == IF q.columns = NoList
                 THEN [c \in DOMAIN tab.columns |-> tab.columns[c].name]
                 ELSE q.columns
        Row(r) == [i \in DOMAIN names |-> tab.rows[r][ColumnCalled(tab, names[i])]]
        matching == {r \in DOMAIN tab.rows : Satisfies(tab, tab.rows[r], q.filters)}
    IN  \E order \in [1 .. Cardinality(matching) -> matching] :
            /\ \A i, j \in DOMAIN order : order[i] = order[j] => i = j
            /\ answer' = [i \in DOMAIN order |-> Row(order[i])]

----------------------------------------------------------------------------

Init ==
    /\ db = <<>>
    /\ request = [type |-> "NONE"]
    /\ result = "RESULT_OK"
    /\ answer = <<>>

Accept(q) ==
    /\ Acceptable(q)
    /\ request' = q
    /\ result' = "RESULT_OK"
    /\ CASE q.type = "CREATE" -> Create(q) /\ answer' = <<>>
         [] q.type = "INSERT" -> Insert(q) /\ answer' = <<>>
         [] q.type = "DELETE" -> Delete(q) /\ answer' = <<>>
         [] q.type = "UPDATE" -> Update(q) /\ answer' = <<>>
         [] q.type = "SELECT" -> Selected(q) /\ UNCHANGED db

Refuse(q) ==
    /\ ~Acceptable(q)
    /\ request' = q
    /\ result' # "RESULT_OK"
    /\ answer' = <<>>
    /\ UNCHANGED db

\* The process ends, and the tables with it.
Close == db' = <<>> /\ UNCHANGED <<request, result, answer>>

Next == (\E q \in Queries : Accept(q) \/ Refuse(q)) \/ Close

Spec == Init /\ [][Next]_<<db, request, result, answer>>

============================================================================
