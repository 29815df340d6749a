----------------------------- MODULE BazaSyntax -----------------------------
(***************************************************************************)
(* Statements as texts and as queries.  A token is a sequence of symbols:  *)
(* words (keywords as str_ieq sees them, whatever their case) and the      *)
(* punctuation the parser looks for inside tokens.  The empty token is     *)
(* what a pair of quotes with nothing between leaves.  A query is a record *)
(* with the fields of struct Query.                                        *)
(*                                                                         *)
(* Written(q) is what a user may write for the query q, after the examples *)
(* in src/parser.c (lines 562-566, 638-647, 749-751, 798 and 828) and in   *)
(* README.md.  It is a reference for the parser and no translation of it.  *)
(***************************************************************************)
EXTENDS Integers, Sequences, SequencesExt, FiniteSets

CONSTANTS
    Symbol,
    NoList        \* the null StrList of SELECT *

Punctuation == {",", "(", ")"}
Token == Seq(Symbol)

FilterOps == {"=", "!=", ">", ">=", "<", "<=", "like"}
Relations == [and |-> "AND", or |-> "OR"]
Directions == {"asc", "desc"}

FilterRecord ==
    [column : Token, op : FilterOps, value : Token, next_relation : {"NONE", "AND", "OR"}]

QueryRecord ==
    [type : {"SELECT"}, table : Token, columns : Seq(Token) \cup {NoList},
     filters : Seq(FilterRecord), sort : {<<>>} \cup (Token \X Directions)]
    \cup [type : {"CREATE"}, table : Token, columns : Seq(Token), types : Seq(Token)]
    \cup [type : {"INSERT"}, table : Token, values : Seq(Token)]
    \cup [type : {"DELETE"}, table : Token, filters : Seq(FilterRecord)]
    \cup [type : {"UPDATE"}, table : Token, columns : Seq(Token), values : Seq(Token),
          filters : Seq(FilterRecord)]

----------------------------------------------------------------------------
(* White space.                                                            *)

\* A text with white space after the positions in breaks, as tokens.
CutAt(text, breaks) ==
    LET ends == SetToSortSeq(breaks \cup {Len(text)}, <)
    IN  [k \in DOMAIN ends |->
            SubSeq(text, IF k = 1 THEN 1 ELSE ends[k - 1] + 1, ends[k])]

\* White space may follow a comma and stand inside the brackets.
Layouts(text) ==
    LET mayBreak == {i \in 1 .. Len(text) - 1 : text[i] \in {",", "("} \/ text[i + 1] = ")"}
    IN  {CutAt(text, breaks) : breaks \in SUBSET mayBreak}

\* The items of a list but the last are followed by a comma.
WithCommas(items) ==
    [i \in DOMAIN items |-> IF i < Len(items) THEN Append(items[i], ",") ELSE items[i]]

----------------------------------------------------------------------------
(* Statements.                                                             *)

\* The words of a WHERE clause, each a token.
WhereWords(filters) ==
    LET Relation(f) == CASE f.next_relation = "NONE" -> <<>>
                         [] f.next_relation = "AND" -> <<<<"and">>>>
                         [] f.next_relation = "OR" -> <<<<"or">>>>
        One(f) == <<f.column, <<f.op>>, f.value>> \o Relation(f)
    IN  IF filters = <<>> THEN <<>>
        ELSE <<<<"where">>>> \o FlattenSeq([i \in DOMAIN filters |-> One(filters[i])])

OrderWords(sort) ==
    IF sort = <<>> THEN <<>> ELSE <<<<"order">>, <<"by">>, sort[1], <<sort[2]>>>>

\* Pairs of lists walked together, with what stands between the two.
Paired(left, between, right) ==
    FlattenSeq([i \in DOMAIN left |-> <<left[i]>> \o between \o <<right[i]>>])

\* WHERE and ORDER BY "might appear in any order".
Clauses(q) ==
    {WhereWords(q.filters) \o OrderWords(q.sort), OrderWords(q.sort) \o WhereWords(q.filters)}

Written(q) ==
    CASE q.type = "SELECT" ->
            {<<<<"select">>>> \o columns \o <<<<"from">>, q.table>> \o clauses :
                columns \in IF q.columns = NoList THEN {<<<<"*">>>>}
                            ELSE Layouts(FlattenSeq(WithCommas(q.columns))),
                clauses \in Clauses(q)}
      [] q.type = "CREATE" ->
            {<<<<"create">>, <<"table">>, q.table, <<"(">>>>
             \o Paired(q.columns, <<>>, WithCommas(q.types)) \o <<<<")">>>>}
      [] q.type = "INSERT" ->
            {<<<<"insert">>, <<"into">>, q.table, <<"values">>>> \o values :
                values \in Layouts(<<"(">> \o FlattenSeq(WithCommas(q.values)) \o <<")">>)}
      [] q.type = "DELETE" ->
            {<<<<"delete">>, <<"from">>, q.table>> \o WhereWords(q.filters)}
      [] q.type = "UPDATE" ->
            {<<<<"update">>, q.table, <<"set">>>>
             \o Paired(q.columns, <<<<"=">>>>, WithCommas(q.values)) \o WhereWords(q.filters)}

============================================================================
