---------------------------- MODULE MCBazaParser ----------------------------
(* BazaParser on the statements of README.md and the examples of parser.c,  *)
(* in every layout, and on what is left of them after a slip of the pen:    *)
(* statements cut short, a token dropped, added, replaced or exchanged.     *)
EXTENDS BazaParser

T == <<"t">>
C == <<"c">>
D == <<"d">>
V == <<"v">>
X == <<"x">>
Empty == <<>>

Filter(column, op, value, relation) ==
    [column |-> column, op |-> op, value |-> value, next_relation |-> relation]

Select(columns, filters, sort) ==
    [type |-> "SELECT", table |-> T, columns |-> columns, filters |-> filters, sort |-> sort]
Update(columns, values, filters) ==
    [type |-> "UPDATE", table |-> T, columns |-> columns, values |-> values,
     filters |-> filters]

OneFilter == <<Filter(C, "=", V, "NONE")>>
TwoFilters == <<Filter(C, "<=", X, "AND"), Filter(D, "like", V, "NONE")>>
ThreeFilters == <<Filter(C, "!=", V, "OR"), Filter(D, ">", X, "AND"), Filter(C, "=", Empty, "NONE")>>

MCStatements ==
    {Select(NoList, <<>>, <<>>),
     Select(<<C, D, X>>, OneFilter, <<D, "desc">>),
     Select(<<C>>, ThreeFilters, <<>>),
     Select(<<D, C>>, <<>>, <<C, "asc">>),
     [type |-> "CREATE", table |-> T, columns |-> <<C, D>>, types |-> <<V, X>>],
     [type |-> "CREATE", table |-> T, columns |-> <<C>>, types |-> <<V>>],
     [type |-> "INSERT", table |-> T, values |-> <<X, V, X>>],
     [type |-> "INSERT", table |-> T, values |-> <<V>>],
     [type |-> "DELETE", table |-> T, filters |-> <<>>],
     [type |-> "DELETE", table |-> T, filters |-> TwoFilters],
     Update(<<C>>, <<V>>, <<>>),
     Update(<<C>>, <<X>>, OneFilter),
     Update(<<C, D>>, <<V, X>>, TwoFilters)}

Correct == UNION {Written(q) : q \in MCStatements}

\* Tokens a slip of the pen puts in.
Slips == {<<"where">>, <<"and">>, <<"order">>, <<"by">>, <<"asc">>, <<"from">>, <<"=">>, <<"x">>,
          <<"x", ",">>, <<",">>, <<"(">>, <<")">>, <<"x", ")">>, <<"*">>, Empty}

SwapWithNext(text, i) == [text EXCEPT ![i] = text[i + 1], ![i + 1] = text[i]]

MCInputs ==
    Correct
    \cup UNION {Prefixes(text) : text \in Correct}
    \cup UNION {{RemoveAt(text, i) : i \in DOMAIN text} : text \in Correct}
    \cup UNION {{SwapWithNext(text, i) : i \in 1 .. Len(text) - 1} : text \in Correct}
    \cup UNION {{InsertAt(text, i, s) : i \in 1 .. Len(text) + 1, s \in Slips} : text \in Correct}
    \cup UNION {{ReplaceAt(text, i, s) : i \in DOMAIN text, s \in Slips} : text \in Correct}

Group == Written(Select(<<C>>, OneFilter, <<>>))
GroupBy == Group \cup {text \o <<<<"group">>, <<"by">>, C>> : text \in Group}

MCSymbol == UNION {ToSet(FlattenSeq(text)) :
                        text \in Correct \cup GroupBy \cup {<<s>> : s \in Slips}}

Assignments == UNION {Written(q) : q \in {s \in MCStatements : s.type = "UPDATE"}}

============================================================================
