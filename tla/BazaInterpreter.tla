-------------------------- MODULE BazaInterpreter --------------------------
(***************************************************************************)
(* The interpreter: src/interpreter.c, driving the storage backend.        *)
(*                                                                         *)
(* interpret_query runs one query to its end before the next.  The first   *)
(* step of a query looks its table and columns up, evaluates its filters   *)
(* and checks its values, which changes nothing that is stored, and        *)
(* answers at once where the code returns early.  A query that changes     *)
(* many cells or rows then makes one storage call per step: `work' holds   *)
(* what its loop has left to do.                                           *)
(*                                                                         *)
(* A query is a record, its fields those of struct Query.  `lists' counts  *)
(* the lists of columns, types and rows the query has allocated and not    *)
(* freed; an answered query has leaked those.  pc is "idle" between        *)
(* queries, "segfault" after a null pointer was followed and "fatal" after *)
(* FATAL ended the process.                                                *)
(***************************************************************************)
EXTENDS BazaStorage, BazaFilter

CONSTANTS
    Queries,      \* the queries that may be asked
    NoList        \* the null StrList of SELECT *

\* A slot can hold what a conversion leaves in it; the fields of a query are
\* lists of names and texts, and no list is the null list.
ASSUME InterpreterAssumption ==
    /\ \A m \in {Mod32, Mod64} : -(m \div 2) .. m \div 2 - 1 \subseteq IntValue
    /\ NoList # <<>>
    /\ \A q \in Queries :
          /\ q.type = "CREATE" =>
                /\ q.table \in TableName
                /\ q.columns \in Seq(ColumnName)
                /\ q.types \in Seq(ToSet(q.types))
          /\ q.type \in {"INSERT", "UPDATE"} => q.values \in Seq(Str)
          /\ q.type \in {"SELECT", "DELETE", "UPDATE"} =>
                /\ q.filters \in Seq(ToSet(q.filters))
                /\ \A i \in DOMAIN q.filters :
                      q.filters[i].next_relation \in {"NONE", "AND", "OR"}

VARIABLES
    query,        \* the query that runs, or ran last
    pc,
    work,
    deleted,      \* delete_count
    lists,
    result,       \* QueryResponse.result, "PENDING" while the query runs
    output        \* the rows the last query printed

interpreterVars == <<query, pc, work, deleted, lists, result, output>>
vars == <<storageVars, interpreterVars>>

Loops == {"create", "insert", "delete", "update"}

----------------------------------------------------------------------------
(* How a step of the interpreter ends.                                     *)

\* return: `held' is how many lists the code has not freed at that return.
Reply(res, rows, held) ==
    /\ pc' = "idle"
    /\ result' = res
    /\ output' = rows
    /\ work' = <<>>
    /\ deleted' = 0
    /\ lists' = held

\* `held' is how many lists the query has when its loop begins.
EnterLoop(name, items, held) ==
    /\ pc' = name
    /\ result' = "PENDING"
    /\ output' = <<>>
    /\ work' = items
    /\ deleted' = 0
    /\ lists' = held

Abort(how) ==
    /\ pc' = how
    /\ result' = "PENDING"
    /\ output' = <<>>
    /\ UNCHANGED <<work, deleted, lists>>

----------------------------------------------------------------------------
(* Pure parts of the handlers.                                             *)

RowIds(t) == [i \in 1 .. tables[t].row_count |-> i - 1]

\* table_find: the rows of t whose value in column c passes the filter.
TableFind(t, c, f) ==
    Picked(RowIds(t), {r \in Slots(tables[t].row_count) :
                          FilterHolds(f.op, TypeOf(t, c), ValueAt(t, r, c), f.value)})

\* Faulty: the rows found so far are not freed when they have been combined.
HeldNoneFreed(relation, held) == held + 1

\* The rows of one more filter.  AND and OR make a new list and free the two it
\* was made of; without a relation the rows found so far are dropped.
HeldWithMore(relation, held) == IF relation = "NONE" THEN held + 1 ELSE held

\* intlist_free(rowset), which is null before the first filter.
HeldWithoutRows(held) == IF held = 0 THEN 0 ELSE held - 1

\* One turn of filter_interpret's loop.  A column that is not found returns
\* without freeing the rows so far; a null filter function is called as soon
\* as there is a row to test.
FilterTurn(t, acc, f) ==
    LET named == ColumnsNamed(tables[t], f.column)
        c == CHOOSE c \in named : IsFirst(c, named)
    IN  CASE acc.res # "RESULT_OK" -> acc
          [] acc.res = "RESULT_OK" /\ named = {} ->
                [acc EXCEPT !.res = "RESULT_COLUMN_NOT_FOUND"]
          [] acc.res = "RESULT_OK" /\ named # {} ->
                IF IsIntegral(TypeOf(t, c)) /\ ~Converts(f.value)
                THEN [acc EXCEPT !.res = "RESULT_FILTER_VALUE_TYPE",
                                 !.held = HeldWithoutRows(acc.held)]
                ELSE IF f.op \notin FilterFunctions /\ tables[t].row_count > 0
                THEN [acc EXCEPT !.res = "SIGSEGV"]
                ELSE [res |-> "RESULT_OK", relation |-> f.next_relation,
                      held |-> HeldWithMore(acc.relation, acc.held),
                      rows |-> Combine(acc.relation, acc.rows, TableFind(t, c, f))]

FilterInterpret(t, filters) ==
    LET Turn(acc, f) == FilterTurn(t, acc, f)
    IN  FoldLeft(Turn,
                 [res |-> "RESULT_OK", relation |-> "NONE", held |-> 0, rows |-> <<>>],
                 filters)

\* table_column_get_list: the listed columns, or all, in the table's order.
TableColumnGetList(t, list) ==
    Picked([c \in Columns(t) |-> c],
           {c \in Columns(t) : list = NoList \/ Contains(list, tables[t].columns[c].name)})

\* Faulty: the list of values is one node ahead.
ValidateNextValues(t, columns, values) ==
    IF columns = <<>> \/ Len(values) <= Len(columns) THEN "SIGSEGV"
    ELSE IF \E i \in DOMAIN columns :
                IsIntegral(TypeOf(t, columns[i])) /\ ~Converts(values[i + 1])
    THEN "RESULT_ERR"
    ELSE "RESULT_OK"

\* validate_value_types pairs columns and values by position, and follows a
\* null pointer when it runs out of values or was given no column.
ValidateValueTypes(t, columns, values) ==
    IF \E i \in DOMAIN columns \cap DOMAIN values :
            IsIntegral(TypeOf(t, columns[i])) /\ ~Converts(values[i])
    THEN "RESULT_ERR"
    ELSE IF columns = <<>> \/ Len(values) < Len(columns) THEN "SIGSEGV"
    ELSE "RESULT_OK"

\* table_row_print of the given columns.
Printed(t, columns, rows) ==
    [i \in DOMAIN rows |->
        [k \in DOMAIN columns |-> ValueAt(t, rows[i], columns[k])]]

\* The table a query is about: the one it just made, or the first so named.
Target == IF query.type = "CREATE" THEN Len(tables) ELSE TableNamed(query.table)

UpdateColumns == TableColumnGetList(Target, query.columns)

\* Faulty: the row after each row of the list.
CellsOfNextRow(rows, columns) ==
    [k \in 1 .. Len(rows) * Len(columns) |->
        [row |-> rows[((k - 1) \div Len(columns)) + 1] + 1,
         nth |-> ((k - 1) % Len(columns)) + 1]]

\* insert_values for every row of the list, column by column.
CellsOf(rows, columns) ==
    [k \in 1 .. Len(rows) * Len(columns) |->
        [row |-> rows[((k - 1) \div Len(columns)) + 1],
         nth |-> ((k - 1) % Len(columns)) + 1]]

----------------------------------------------------------------------------
(* The first step of a query.                                              *)

Idle == pc = "idle" /\ status = "up"

Begin(q, type) == Idle /\ q.type = type /\ query' = q

\* db_table_get failed.
TableNotFound(q) ==
    /\ Begin(q, q.type)
    /\ q.type # "CREATE"
    /\ TablesNamed(q.table) = {}
    /\ Reply("RESULT_TABLE_NOT_FOUND", <<>>, 0)
    /\ UNCHANGED storageVars

\* interpret_create makes the table before it checks the column types.  A
\* table that cannot be allocated is the only failure of db_table_new.
BeginCreate(q) ==
    /\ Begin(q, "CREATE")
    /\ Len(tables) < MaxTables /\ Len(q.columns) <= MaxColumns
    /\ \/ /\ DbTableNew(q.table)
          /\ IF \A i \in DOMAIN q.types : BaseTypeFromStr(q.types[i]) \in BaseType
             THEN EnterLoop("create", [i \in DOMAIN q.columns |-> i], 1)
             ELSE Reply("RESULT_INVALID_QUERY", <<>>, 0)
       \/ /\ AllocMayFail
          /\ Reply("RESULT_SERVER_ERROR", <<>>, 0)
          /\ UNCHANGED storageVars

\* interpret_insert up to table_row_add.  (For one STRING column and an empty
\* list the null text is followed only after it; the process ends all the same.)
BeginInsert(q) ==
    LET t == TableNamed(q.table)
        check == ValidateValueTypes(t, TableColumnGetList(t, NoList), q.values)
    IN  /\ Begin(q, "INSERT")
        /\ TablesNamed(q.table) # {}
        /\ \/ /\ check = "SIGSEGV"
              /\ Abort("segfault")
              /\ UNCHANGED storageVars
           \/ /\ check = "RESULT_ERR"
              /\ Reply(check, <<>>, 1)
              /\ UNCHANGED storageVars
           \/ /\ check = "RESULT_OK"
              /\ tables[t].row_count < MaxRows
              /\ TableRowAdd(t)
              /\ EnterLoop("insert", SubSeq(q.values, 1, Len(tables[t].columns)), 1)

\* interpret_delete: without filters it deletes row 0 row_count times.
BeginDelete(q) ==
    LET t == TableNamed(q.table)
        found == FilterInterpret(t, q.filters)
    IN  /\ Begin(q, "DELETE")
        /\ TablesNamed(q.table) # {}
        /\ \/ /\ q.filters = <<>>
              /\ EnterLoop("delete", RowIds(t), 0)
           \/ /\ q.filters # <<>> /\ found.res = "RESULT_OK"
              /\ EnterLoop("delete", found.rows, found.held)
           \/ /\ q.filters # <<>> /\ found.res = "SIGSEGV"
              /\ Abort("segfault")
           \/ /\ q.filters # <<>> /\ found.res \notin {"RESULT_OK", "SIGSEGV"}
              /\ Reply(found.res, <<>>, found.held)
        /\ UNCHANGED storageVars

\* interpret_update: the filters are evaluated before the values are
\* checked, and the rows found are not freed when the check fails.  The list of
\* columns is freed whatever happens.
BeginUpdate(q) ==
    LET t == TableNamed(q.table)
        columns == TableColumnGetList(t, q.columns)
        found == IF q.filters = <<>>
                 THEN [res |-> "RESULT_OK", held |-> 0, rows |-> RowIds(t)]
                 ELSE FilterInterpret(t, q.filters)
        check == IF found.res = "RESULT_OK"
                 THEN ValidateValueTypes(t, columns, q.values)
                 ELSE found.res
    IN  /\ Begin(q, "UPDATE")
        /\ TablesNamed(q.table) # {}
        /\ \/ /\ check = "RESULT_OK"
              /\ EnterLoop("update", CellsOf(found.rows, columns), found.held + 1)
           \/ /\ check = "SIGSEGV"
              /\ Abort("segfault")
           \/ /\ check = "RESULT_ERR"
              /\ Reply("RESULT_VALUE_TYPE", <<>>, found.held)
           \/ /\ check \notin {"RESULT_OK", "SIGSEGV", "RESULT_ERR"}
              /\ Reply(check, <<>>, found.held)
        /\ UNCHANGED storageVars

\* interpret_select: without filters all columns are printed.  A list with
\* nothing in it (SELECT "") holds a null name, which strlist_contains
\* compares; a list of columns none of which exists holds a null pointer.
Select(q) ==
    LET t == TableNamed(q.table)
        columns == TableColumnGetList(t, q.columns)
        all == TableColumnGetList(t, NoList)
        found == FilterInterpret(t, q.filters)
        nullName == q.columns = <<>> /\ all # <<>>
        segfault == \/ nullName
                    \/ q.filters # <<>> /\ found.res = "SIGSEGV"
                    \/ q.filters # <<>> /\ found.res = "RESULT_OK" /\ columns = <<>>
    IN  /\ Begin(q, "SELECT")
        /\ TablesNamed(q.table) # {}
        /\ \/ /\ segfault
              /\ Abort("segfault")
           \/ /\ ~segfault /\ q.filters = <<>>
              /\ Reply("RESULT_OK", Printed(t, all, RowIds(t)), 0)
           \/ /\ ~segfault /\ q.filters # <<>> /\ found.res = "RESULT_OK"
              /\ Reply("RESULT_OK", Printed(t, columns, found.rows), HeldWithoutRows(found.held))
           \/ /\ ~segfault /\ q.filters # <<>> /\ found.res # "RESULT_OK"
              /\ Reply(found.res, <<>>, found.held)
        /\ UNCHANGED storageVars

\* interpret_query.
Begins(q) ==
    \/ TableNotFound(q)
    \/ BeginCreate(q)
    \/ BeginInsert(q)
    \/ BeginDelete(q)
    \/ BeginUpdate(q)
    \/ Select(q)

----------------------------------------------------------------------------
(* The loops.                                                              *)

Looping(name) == pc = name /\ status = "up" /\ work # <<>>

\* Faulty: the loop of UPDATE does not move on.
NextTurnStays ==
    /\ work' = IF pc = "update" THEN work ELSE Tail(work)
    /\ UNCHANGED <<query, pc, lists, result, output>>

NextTurn ==
    /\ work' = Tail(work)
    /\ UNCHANGED <<query, pc, lists, result, output>>

\* A column that cannot be made ends the process, and so does a column without
\* a type (csv_read can ask for one): the list of types has ended, or its empty
\* root holds a type that has no size.
CreateColumn ==
    LET i == Head(work)
        type == BaseTypeFromStr(query.types[i])
        name == query.columns[i]
        typed == i \in DOMAIN query.types
    IN  /\ Looping("create")
        /\ \/ /\ ~typed
              /\ Abort(IF query.types = <<>> THEN "fatal" ELSE "segfault")
              /\ UNCHANGED <<storageVars, query>>
           \/ /\ typed /\ TableColumnNew(Target, type, name)
              /\ tables' # tables
              /\ NextTurn /\ UNCHANGED deleted
           \/ /\ typed /\ TableColumnNew(Target, type, name)
              /\ tables' = tables
              /\ Abort("fatal") /\ UNCHANGED query
           \/ /\ typed
              /\ ColumnNewResult(Target, name) # "RESULT_OK" \/ AllocMayFail
              /\ Abort("fatal")
              /\ UNCHANGED <<storageVars, query>>

InsertValue ==
    /\ Looping("insert")
    /\ FillCell(SlotValue(TypeOf(fill.table, fill.col), Head(work)))
    /\ NextTurn /\ UNCHANGED deleted

\* Faulty: the rows deleted so far are not allowed for.
DeleteIndexUnshifted == IF query.filters = <<>> THEN 0 ELSE Head(work)

\* The rows found are numbered as they were before the first delete.
DeleteIndex ==
    IF query.filters = <<>> THEN 0 ELSE (Head(work) - deleted) % Mod64

DeleteRow ==
    /\ Looping("delete")
    /\ TableRowDelete(Target, DeleteIndex)
    /\ IF DeleteIndex < tables[Target].row_count
       THEN NextTurn /\ deleted' = deleted + 1
       ELSE /\ Reply("RESULT_INDEX_OUT_OF_BOUNDS", <<>>, lists)
            /\ UNCHANGED query

UpdateValue ==
    LET c == UpdateColumns[Head(work).nth]
        text == query.values[Head(work).nth]
    IN  /\ Looping("update")
        /\ ReplaceCell(Target, c, Head(work).row, SlotValue(TypeOf(Target, c), text))
        /\ NextTurn /\ UNCHANGED deleted

\* What is freed after the loop: the types of a CREATE, the columns of an INSERT
\* or an UPDATE, the rows that filters have found.
Freed(q) ==
    (IF q.type = "DELETE" THEN 0 ELSE 1)
    + (IF q.type \in {"DELETE", "UPDATE"} /\ q.filters # <<>> THEN 1 ELSE 0)

Return ==
    /\ pc \in Loops /\ status = "up"
    /\ work = <<>>
    /\ Reply("RESULT_OK", <<>>, lists - Freed(query))
    /\ UNCHANGED <<storageVars, query>>

\* main calls storage_deinit after the last query.
Shutdown == Idle /\ StorageDeinit /\ UNCHANGED interpreterVars

----------------------------------------------------------------------------

Init ==
    /\ StorageInit
    /\ query = [type |-> "NONE"]
    /\ pc = "idle"
    /\ work = <<>>
    /\ deleted = 0
    /\ lists = 0
    /\ result = "RESULT_OK"
    /\ output = <<>>

Step == CreateColumn \/ InsertValue \/ DeleteRow \/ UpdateValue \/ Return

Next ==
    \/ \E q \in Queries : Begins(q)
    \/ Step
    \/ Shutdown

Spec == Init /\ [][Next]_vars

\* The program is one thread that waits for nothing.
FairSpec == Spec /\ WF_vars(Step)

----------------------------------------------------------------------------
(* Properties.                                                             *)

\* Every variable has its type; work holds what the running loop consumes.
InterpreterTypeOK ==
    /\ TypeOK
    /\ query \in Queries \cup {[type |-> "NONE"]}
    /\ pc \in Loops \cup {"idle", "segfault", "fatal"}
    /\ deleted \in Nat
    /\ lists \in Nat
    /\ pc = "create" => \A i \in DOMAIN work : work[i] \in DOMAIN query.columns
    /\ pc = "insert" => \A i \in DOMAIN work : work[i] \in Str
    /\ pc = "delete" => \A i \in DOMAIN work : work[i] \in Nat

\* The rows table_find returned before the first delete are deleted by number,
\* each shifted by the deletes done so far (interpreter.c:502).  With filters
\* joined by AND the numbers stay strictly ascending, so the shifted number
\* of each row still to be deleted is that of a row the table has: the index
\* does not wrap, and no delete fails with the table half cleared.
DeletesStayInRange ==
    pc = "delete" /\ (\A i \in DOMAIN query.filters : query.filters[i].next_relation # "OR") =>
        /\ Len(work) <= tables[Target].row_count
        /\ \A i, j \in DOMAIN work : i < j => work[i] < work[j]
        /\ \A i \in DOMAIN work :
              work[i] - deleted \in 0 .. tables[Target].row_count - 1

\* Between the first and the last value of an INSERT, and at no other time,
\* the table has a row with unwritten slots; the values still to be stored are
\* as many as those slots, so no query ever meets an incomplete row, and
\* insert_values never follows the null pointer behind the last value.
InsertFillsTheRow ==
    status = "up" /\ pc # "segfault" =>
        /\ Filling <=> pc = "insert" /\ work # <<>>
        /\ Filling => Len(work) = Len(tables[fill.table].columns) - fill.col + 1

\* The cells an UPDATE has still to replace exist, in columns it lists that
\* have a value to take, however its filters combine rows; and no row is
\* updated twice (intlist_union drops duplicates).
UpdatesTouchExistingCells ==
    pc = "update" =>
        /\ \A i \in DOMAIN work :
              /\ work[i].row \in Slots(tables[Target].row_count)
              /\ work[i].nth \in DOMAIN UpdateColumns \cap DOMAIN query.values
        /\ \A i, j \in DOMAIN work : work[i] = work[j] => i = j

\* The interpreter keeps the rules of the storage API: it completes a row
\* before any other call, replaces values of existing rows only, and calls
\* nothing after storage_deinit.  All that holds of the backend under its most
\* general client holds of it here.
ImplementsStorage == StorageSpec

\* A statement that has begun to change the database comes to an end: it
\* returns, or it brings the process down.
QueriesReturn == pc \in Loops ~> pc \notin Loops \/ status = "crashed"

\* Whether a query is of the kinds the interpreter is known to come to grief
\* on: fewer values than columns (interpreter.c:251), columns of which none
\* exists (247, 289), a filter with an operator that has no function (186),
\* fewer types than columns (384), an empty list of columns (storage.c:124).
Reckless(q) ==
    \/ q.type = "CREATE" /\ Len(q.types) < Len(q.columns)
    \/ q.type = "INSERT" /\ (Len(q.values) < Len(tables[Target].columns) \/ tables[Target].columns = <<>>)
    \/ q.type = "UPDATE" /\ (Len(q.values) < Len(UpdateColumns) \/ UpdateColumns = <<>>)
    \/ q.type = "SELECT" /\ TableColumnGetList(Target, q.columns) = <<>>
    \/ /\ q.type \in {"SELECT", "DELETE", "UPDATE"}
       /\ \E i \in DOMAIN q.filters : q.filters[i].op \notin FilterFunctions

\* However deletes, updates and failed statements have left the tables, no other
\* query makes the interpreter follow a null pointer: the lists it walks in step
\* (columns with values, columns with types, rows with filters) end together.
OnlyRecklessQueriesSegfault == pc = "segfault" => Reckless(query)

\* The filters of a query, and whether each but the last says how the next is
\* joined to it, as the parser makes them.
WhereOf(q) == IF q.type \in {"SELECT", "DELETE", "UPDATE"} THEN q.filters ELSE <<>>
AllJoined(filters) == \A i \in DOMAIN filters : i < Len(filters) => filters[i].next_relation # "NONE"

\* The five ways out of a query that free less than it has allocated: a refused
\* INSERT keeps its columns (interpreter.c:469); an UPDATE whose values are
\* refused after its filters (560), a DELETE that runs out of the table (503) and
\* a column that is not found after other filters (165) keep rows; and a filter
\* that is joined to nothing takes the place of the rows before it (229).
Leaks(q, res) ==
    \/ q.type = "INSERT" /\ res = "RESULT_ERR"
    \/ q.type = "UPDATE" /\ q.filters # <<>> /\ res = "RESULT_VALUE_TYPE"
    \/ /\ q.type = "DELETE" /\ res = "RESULT_INDEX_OUT_OF_BOUNDS"
       /\ \E i \in DOMAIN q.filters : q.filters[i].next_relation = "OR"
    \/ Len(WhereOf(q)) > 1 /\ res = "RESULT_COLUMN_NOT_FOUND"
    \/ ~AllJoined(WhereOf(q))

\* The lists a query allocates on its way, one for each filter and each relation
\* among them, have been freed when it is answered, whether it is carried out or
\* refused, on every way out but those five.
OnlyKnownLeaks == pc = "idle" /\ lists # 0 => Leaks(query, result)

============================================================================
