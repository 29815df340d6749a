----------------------------- MODULE BazaParser -----------------------------
(***************************************************************************)
(* The parser: query_parse of src/parser.c, from the tokens of one         *)
(* statement to a query.                                                   *)
(*                                                                         *)
(* The tokens are a linked list the parser walks with one pointer: `tok'   *)
(* is what that pointer leads to, <<>> the null pointer.  A step reads the *)
(* fixed words of a statement, or is one turn of a loop: over a list of    *)
(* names or values, over column definitions, assignments, filters, or over *)
(* the clauses of a SELECT.  `at' is the place in the code, the query is   *)
(* built as its parts are read.                                            *)
(***************************************************************************)
EXTENDS BazaSyntax

CONSTANTS
    Inputs,       \* the statements that may be read, as sequences of tokens
    Statements    \* queries whose texts are among them

ASSUME ParserAssumption == Inputs \subseteq Seq(Token)

VARIABLES
    input,        \* the statement
    tok,
    at,
    query,
    outcome       \* result once at = "ended"; "fatal" and "segfault" end the process

parserVars == <<input, tok, at, query, outcome>>

NoQuery == [type |-> "NONE"]

Blank ==
    [select |-> [type |-> "SELECT", table |-> <<>>, columns |-> <<>>,
                 filters |-> <<>>, sort |-> <<>>],
     create |-> [type |-> "CREATE", table |-> <<>>, columns |-> <<>>, types |-> <<>>],
     insert |-> [type |-> "INSERT", table |-> <<>>, values |-> <<>>],
     delete |-> [type |-> "DELETE", table |-> <<>>, filters |-> <<>>],
     update |-> [type |-> "UPDATE", table |-> <<>>, columns |-> <<>>, values |-> <<>>,
                 filters |-> <<>>]]

Verbs == DOMAIN Blank

----------------------------------------------------------------------------
(* Tokens.                                                                 *)

\* The n-th token from tok is this keyword.
Keyword(n, word) == n \in DOMAIN tok /\ tok[n] = <<word>>

Skip(n) == SubSeq(tok, n + 1, Len(tok))

EndsWith(token, symbol) == token # <<>> /\ Last(token) = symbol

\* strlist_from_split with ",": the pieces that are not empty.
Split(token) ==
    LET Turn(acc, s) ==
            IF s = "," THEN [acc EXCEPT !.open = FALSE]
            ELSE IF acc.open THEN [acc EXCEPT !.list[Len(acc.list)] = Append(@, s)]
            ELSE [list |-> Append(acc.list, <<s>>), open |-> TRUE]
    IN  FoldLeft(Turn, [list |-> <<>>, open |-> FALSE], token).list

----------------------------------------------------------------------------
(* How a step ends.                                                        *)

Goto(label, rest, q) ==
    /\ at' = label
    /\ tok' = rest
    /\ query' = q
    /\ UNCHANGED <<input, outcome>>

Stop(how, q) ==
    /\ at' = "ended"
    /\ outcome' = how
    /\ query' = q
    /\ UNCHANGED <<input, tok>>

Accept(q) == Stop("RESULT_OK", q)
Refuse == Stop("RESULT_ERR_SQL_PARSE", NoQuery)    \* query_parse frees the query
Die(how) == Stop(how, query)

\* An optional WHERE clause is all that may follow, n tokens on.
WhereOrAccept(n, q) ==
    IF Keyword(n + 1, "where") THEN Goto("filter", Skip(n + 1), q) ELSE Accept(q)

----------------------------------------------------------------------------
(* query_parse and the fixed words of the five statements.                 *)

ReadVerb ==
    /\ at = "verb"
    /\ \/ /\ tok = <<>>
          /\ Die("segfault")
       \/ \E verb \in Verbs :
            /\ Keyword(1, verb)
            /\ Goto(verb, Skip(1), Blank[verb])
       \/ /\ tok # <<>> /\ \A verb \in Verbs : ~Keyword(1, verb)
          /\ Refuse

ReadSelect ==
    /\ at = "select"
    /\ \/ tok = <<>> /\ Refuse
       \/ Keyword(1, "*") /\ Goto("from", Skip(1), [query EXCEPT !.columns = NoList])
       \/ tok # <<>> /\ ~Keyword(1, "*") /\ Goto("list", tok, query)

ReadFrom ==
    /\ at = "from"
    /\ IF Keyword(1, "from") /\ Len(tok) >= 2
       THEN Goto("clauses", Skip(2), [query EXCEPT !.table = tok[2]])
       ELSE Refuse

ReadCreate ==
    /\ at = "create"
    /\ IF Keyword(1, "table") /\ Keyword(3, "(")
       THEN Goto("column", Skip(3), [query EXCEPT !.table = tok[2]])
       ELSE Refuse

\* The first token of the list may hold items, and the end of the list too.
ReadInsert ==
    LET heading == Keyword(1, "into") /\ Keyword(3, "values")
        opens == tok[4] # <<>> /\ Head(tok[4]) = "("
        closes == EndsWith(tok[4], ")")
        first == IF closes THEN Front(Tail(tok[4])) ELSE Tail(tok[4])
        q == [query EXCEPT !.table = tok[2], !.values = Split(first)]
    IN  /\ at = "insert"
        /\ \/ ~heading /\ Refuse
           \/ heading /\ Len(tok) = 3 /\ Die("segfault")
           \/ heading /\ Len(tok) > 3 /\ ~opens /\ Refuse
           \/ heading /\ Len(tok) > 3 /\ opens /\ ~closes /\ Goto("list", Skip(4), q)
           \/ heading /\ Len(tok) > 3 /\ opens /\ closes /\ Accept(q)

ReadDelete ==
    /\ at = "delete"
    /\ IF Keyword(1, "from") /\ Len(tok) >= 2
       THEN WhereOrAccept(2, [query EXCEPT !.table = tok[2]])
       ELSE Refuse

ReadUpdate ==
    /\ at = "update"
    /\ IF Keyword(2, "set")
       THEN Goto("assign", Skip(2), [query EXCEPT !.table = tok[1]])
       ELSE Refuse

----------------------------------------------------------------------------
(* The loops.                                                              *)

\* extract_sql_list follows the next token without a look.
ListRunsOut == at = "list" /\ tok = <<>> /\ Die("segfault")

\* The list of a SELECT goes on after a comma.
ColumnItem ==
    /\ at = "list" /\ tok # <<>> /\ query.type = "SELECT"
    /\ Goto(IF EndsWith(tok[1], ",") THEN "list" ELSE "from", Skip(1),
            [query EXCEPT !.columns = @ \o Split(tok[1])])

\* Faulty: what stands before the closing bracket is dropped.
ValueItemLosesLast ==
    /\ at = "list" /\ tok # <<>> /\ query.type = "INSERT"
    /\ IF EndsWith(tok[1], ")")
       THEN Accept(query)
       ELSE Goto("list", Skip(1), [query EXCEPT !.values = @ \o Split(tok[1])])

\* The list of an INSERT goes on up to a closing bracket.
ValueItem ==
    /\ at = "list" /\ tok # <<>> /\ query.type = "INSERT"
    /\ IF EndsWith(tok[1], ")")
       THEN Accept([query EXCEPT !.values = @ \o Split(Front(tok[1]))])
       ELSE Goto("list", Skip(1), [query EXCEPT !.values = @ \o Split(tok[1])])

\* A column and its type; a comma at the end of the type announces another.
ColumnDefinition ==
    LET more == EndsWith(tok[2], ",")
        q == [query EXCEPT !.columns = Append(@, tok[1]),
                           !.types = Append(@, IF more THEN Front(tok[2]) ELSE tok[2])]
    IN  /\ at = "column"
        /\ \/ Len(tok) < 2 /\ Refuse
           \/ Len(tok) >= 2 /\ more /\ Goto("column", Skip(2), q)
           \/ Len(tok) >= 2 /\ ~more /\ Keyword(3, ")") /\ Accept(q)
           \/ Len(tok) >= 2 /\ ~more /\ ~Keyword(3, ")") /\ Refuse

\* Faulty: the second token may be anything.
AnyThreeTokens == Len(tok) >= 3

IsAssignment == Len(tok) >= 3 /\ Keyword(2, "=")

\* Faulty: the value is not kept.
AssignedColumnOnly == [query EXCEPT !.columns = Append(@, tok[1])]

\* The value keeps the comma that ends it.
Assigned == [query EXCEPT !.columns = Append(@, tok[1]), !.values = Append(@, tok[3])]

\* column = value; an empty value counts as one that ends with a comma.
Assignment ==
    LET last == tok[3] # <<>> /\ ~EndsWith(tok[3], ",")
    IN  /\ at = "assign"
        /\ \/ ~IsAssignment /\ Refuse
           \/ IsAssignment /\ ~last /\ Goto("assign", Skip(3), Assigned)
           \/ IsAssignment /\ last /\ WhereOrAccept(3, Assigned)

\* Whether a column and an operator come next.
Operator == Len(tok) >= 2 /\ \E op \in FilterOps : Keyword(2, op)

\* Faulty: the value is read without a look, as the operator is.
FilterFailsLate ==
    /\ at = "filter" /\ (Len(tok) < 3 \/ ~Operator)
    /\ Die(IF Len(tok) = 1 \/ (Operator /\ Len(tok) = 2) THEN "segfault" ELSE "fatal")

\* The errors of parse_filters are fatal to the process (try_parse_where); the
\* operator is read through a null pointer when the statement ends after the
\* column.
FilterFails ==
    /\ at = "filter" /\ (Len(tok) < 3 \/ ~Operator)
    /\ Die(IF Len(tok) = 1 THEN "segfault" ELSE "fatal")

\* Faulty: the tokens of the last filter are not consumed.
FiltersDoneStays(q) == IF q.type = "SELECT" THEN Goto("order", tok, q) ELSE Accept(q)

\* After a filter without AND or OR, SELECT looks for ORDER BY.
FiltersDone(q) == IF q.type = "SELECT" THEN Goto("order", Skip(3), q) ELSE Accept(q)

\* A filter that is complete.
FilterItem ==
    LET With(relation) ==
            [query EXCEPT !.filters =
                Append(@, [column |-> tok[1], op |-> tok[2][1], value |-> tok[3],
                           next_relation |-> relation])]
    IN  /\ at = "filter" /\ Len(tok) >= 3 /\ Operator
        /\ \/ \E word \in DOMAIN Relations :
                /\ Keyword(4, word)
                /\ Goto("filter", Skip(4), With(Relations[word]))
           \/ /\ \A word \in DOMAIN Relations : ~Keyword(4, word)
              /\ FiltersDone(With("NONE"))

\* The loop of query_parse_select: a WHERE clause, if that is next, and then
\* ORDER BY.  A later clause replaces an earlier one.
SelectClauses ==
    /\ at = "clauses"
    /\ \/ tok = <<>> /\ Accept(query)
       \/ Keyword(1, "where") /\ Goto("filter", Skip(1), [query EXCEPT !.filters = <<>>])
       \/ tok # <<>> /\ ~Keyword(1, "where") /\ Goto("order", tok, query)

OrderBy == Keyword(1, "order") /\ Keyword(2, "by") /\ Len(tok) >= 4

\* Faulty: any direction will do.
OrderAnyDirection ==
    /\ at = "order"
    /\ IF OrderBy THEN Goto("clauses", Skip(4), [query EXCEPT !.sort = <<tok[3], tok[4]>>])
                  ELSE Goto("clauses", tok, query)

\* try_parse_order; what is not ORDER BY c d is left for the next turn.
OrderClause ==
    /\ at = "order"
    /\ \/ \E d \in Directions :
            /\ OrderBy /\ Keyword(4, d)
            /\ Goto("clauses", Skip(4), [query EXCEPT !.sort = <<tok[3], d>>])
       \/ OrderBy /\ (\A d \in Directions : ~Keyword(4, d)) /\ Refuse
       \/ ~OrderBy /\ Goto("clauses", tok, query)

----------------------------------------------------------------------------

\* query_parse is called with the tokens of a statement.
Parses(text) ==
    /\ input' = text
    /\ tok' = text
    /\ at' = "verb"
    /\ query' = NoQuery
    /\ outcome' = "PENDING"

ParserInit ==
    /\ input \in Inputs
    /\ tok = input
    /\ at = "verb"
    /\ query = NoQuery
    /\ outcome = "PENDING"

ParserNext ==
    \/ ReadVerb
    \/ ReadSelect
    \/ ReadFrom
    \/ ReadCreate
    \/ ReadInsert
    \/ ReadDelete
    \/ ReadUpdate
    \/ ListRunsOut
    \/ ColumnItem
    \/ ValueItem
    \/ ColumnDefinition
    \/ Assignment
    \/ FilterFails
    \/ FilterItem
    \/ SelectClauses
    \/ OrderClause

\* The parser runs by itself.
ParserSpec == ParserInit /\ [][ParserNext]_parserVars /\ WF_parserVars(ParserNext)

----------------------------------------------------------------------------
(* Properties.                                                             *)

Ended == at = "ended"
Accepted == Ended /\ outcome = "RESULT_OK"

\* Every variable has its type; the pointer stays in the statement's list.
ParserTypeOK ==
    /\ input \in Seq(Token)
    /\ IsSuffix(tok, input)
    /\ at \in Verbs \cup {"verb", "from", "list", "column", "assign", "filter", "clauses",
                          "order", "ended"}
    /\ query \in QueryRecord \cup {NoQuery}
    /\ outcome \in {"PENDING", "RESULT_OK", "RESULT_ERR_SQL_PARSE", "fatal", "segfault"}

\* The texts of the instance that are well formed, with their queries.
Texts == {<<text, q>> : q \in Statements, text \in UNION {Written(s) : s \in Statements}}
Meanings == {m \in Texts : m[1] \in Written(m[2])}

\* A well-formed statement is read as the query it was written for, however its
\* lists are spread over tokens and in whichever order its clauses come.
ReadAsWritten(m) == Ended /\ input = m[1] => Accepted /\ query = m[2]

OneAssignment(q) == q.type = "UPDATE" => Len(q.columns) = 1

WellFormedStatementsAreRead ==
    \A m \in Meanings : OneAssignment(m[2]) => ReadAsWritten(m)

\* What the interpreter relies on and does not check (interpreter.c:384, 251,
\* 213): a CREATE has a type for every column and at least one, an UPDATE a value
\* for every column and at least one, only the last filter has no relation.
QueriesSuitTheInterpreter ==
    Accepted =>
        /\ query.type = "CREATE" =>
              Len(query.types) = Len(query.columns) /\ query.columns # <<>>
        /\ query.type = "UPDATE" =>
              Len(query.values) = Len(query.columns) /\ query.columns # <<>>
        /\ query.type \in {"SELECT", "DELETE", "UPDATE"} =>
              \A i \in DOMAIN query.filters :
                  query.filters[i].next_relation = "NONE" <=> i = Len(query.filters)

\* The words of a text, without the punctuation.
Words(text) ==
    LET IsWord(s) == s \notin Punctuation
    IN  SelectSeq(FlattenSeq(text), IsWord)

\* The words of a query up to its clauses, and whether a text holds others
\* without a gap.
Heading(q) ==
    CASE q.type = "SELECT" ->
            <<<<"select">>>> \o (IF q.columns = NoList THEN <<<<"*">>>> ELSE q.columns)
            \o <<<<"from">>, q.table>>
      [] q.type = "CREATE" ->
            <<<<"create">>, <<"table">>, q.table>> \o Paired(q.columns, <<>>, q.types)
      [] q.type = "INSERT" -> <<<<"insert">>, <<"into">>, q.table, <<"values">>>> \o q.values
      [] q.type = "DELETE" -> <<<<"delete">>, <<"from">>, q.table>> \o WhereWords(q.filters)
      [] q.type = "UPDATE" ->
            <<<<"update">>, q.table, <<"set">>>> \o Paired(q.columns, <<<<"=">>>>, q.values)
            \o WhereWords(q.filters)

Holds(text, part) ==
    \E i \in 1 .. Len(text) + 1 : IsPrefix(part, SubSeq(text, i, Len(text)))

\* Whatever tokens are thrown at it, the parser makes up nothing: each name,
\* operator and value of an accepted query stands in the statement where its part
\* of the query calls for it, and no word between two of them was passed over.
NothingInvented ==
    Accepted =>
        /\ IsPrefix(Words(Heading(query)), Words(input))
        /\ query.type = "SELECT" =>
              /\ Holds(Words(input), Words(WhereWords(query.filters)))
              /\ Holds(Words(input), Words(OrderWords(query.sort)))

\* A statement that ends too early: without a word; after the comma of a list;
\* in the list of an INSERT; after the column of a filter.
Unfinished ==
    \/ input = <<>>
    \/ EndsWith(Last(input), ",")
    \/ /\ input[1] = <<"insert">>
       /\ \A i \in 5 .. Len(input) : ~EndsWith(input[i], ")")
    \/ Len(input) >= 2 /\ input[Len(input) - 1] \in {<<"where">>, <<"and">>, <<"or">>}

\* The token loops look for the end of the statement (parser.c:295, 314, 682,
\* 703, 842, 857, 872): the null token is followed only where a statement that
\* ends early is known to lead (75, 110, 279, 932).
OnlyUnfinishedStatementsSegfault == outcome = "segfault" => Unfinished

\* The loop of SELECT neither consumes this token nor ends.
Unknown ==
    /\ at \in {"clauses", "order"}
    /\ tok # <<>> /\ ~Keyword(1, "where") /\ ~OrderBy

WellFormed == \E m \in Meanings : m[1] = input

\* The parser answers every well-formed statement; any other it answers too, or
\* is caught in the loop of SELECT at a token no clause starts with (parser.c:610).
ParserAnswers == <>Ended \/ <>[](Unknown /\ ~WellFormed)

\* "a WHERE clause can be followed by other things like 'GROUP BY' etc."
\* (parser.c:318).
ParserAlwaysAnswers == <>Ended

\* "UPDATE table SET column = value, ... WHERE condition/filter" (parser.c:828).
UpdatesAreRead == \A m \in Meanings : m[2].type = "UPDATE" => ReadAsWritten(m)

============================================================================
