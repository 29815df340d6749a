------------------------- MODULE BazaSqlRefinement -------------------------
(***************************************************************************)
(* How BazaInterpreter implements BazaSql.  A query runs in many steps;    *)
(* its effect counts when it has returned.  The history variable           *)
(* `committed' is what the storage backend held, and what was answered,    *)
(* when the interpreter was last idle.                                     *)
(***************************************************************************)
EXTENDS BazaInterpreter

VARIABLE committed

Observed == [db |-> Contents, request |-> query, result |-> result, answer |-> output]

HInit == Init /\ committed = Observed

Commits == committed' = IF pc' = "idle" THEN Observed' ELSE committed

HNext == Next /\ Commits

HSpec == HInit /\ [][HNext]_<<vars, committed>>

Sql == INSTANCE BazaSql WITH
    db <- committed.db,
    request <- committed.request,
    result <- committed.result,
    answer <- committed.answer

\* Every query that returns has done what its statement means, all of it and
\* nothing else: a row is inserted whole, the rows that satisfy the WHERE
\* clause and no others are deleted, updated or printed, each once, although
\* deletes renumber the rows still to be deleted and a row is updated cell by
\* cell; a query that is refused (interpreter.c:452, 469, 495, 555, 560)
\* leaves the tables as they were.
ImplementsSql == Sql!Spec

----------------------------------------------------------------------------
(* The queries for which it does.                                          *)

KnownOperators(q) == \A i \in DOMAIN q.filters : q.filters[i].op \in FilterFunctions

NamesOf(t, columns) == [k \in DOMAIN columns |-> tables[t].columns[columns[k]].name]

\* The columns SELECT prints.
Shown(t, q) == TableColumnGetList(t, IF q.filters = <<>> THEN NoList ELSE q.columns)

\* A query that keeps clear of what the code is known to get wrong: a CREATE
\* that leaves a table behind or forgets a type (interpreter.c:372), values that
\* no column takes (251), a filter without a function on an empty table (186),
\* rows to delete that are not in order (502), columns listed out of the table's
\* order or unknown to it (storage.c:124), columns listed without WHERE
\* (interpreter.c:313).
HandledRight(q) ==
    LET t == TableNamed(q.table)
    IN  /\ q.type = "CREATE" =>
              /\ Len(q.types) <= Len(q.columns)
              /\ \A i \in DOMAIN q.types : BaseTypeFromStr(q.types[i]) \in BaseType
        /\ q.type # "CREATE" /\ TablesNamed(q.table) # {} =>
              /\ q.type = "INSERT" => Len(q.values) <= Len(tables[t].columns)
              /\ q.type \in {"SELECT", "DELETE", "UPDATE"} => KnownOperators(q)
              /\ q.type = "DELETE" /\ FilterInterpret(t, q.filters).res = "RESULT_OK" =>
                    \A i \in DOMAIN q.filters : q.filters[i].next_relation # "OR"
              /\ q.type = "UPDATE" =>
                    /\ Len(q.values) <= Len(q.columns)
                    /\ q.columns = NamesOf(t, TableColumnGetList(t, q.columns))
              /\ q.type = "SELECT" =>
                    q.columns \in {NoList, NamesOf(t, Shown(t, q))}

HandledNext ==
    /\ \/ Idle /\ \E q \in Queries : HandledRight(q) /\ Begins(q)
       \/ Step
       \/ Shutdown
    /\ Commits

HandledSpec == HInit /\ [][HandledNext]_<<vars, committed>>

============================================================================
