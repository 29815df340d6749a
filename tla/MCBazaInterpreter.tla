------------------------ MODULE MCBazaInterpreter ------------------------
(* BazaInterpreter on small instances: four texts, integers of 2 and 4     *)
(* bits, and sets of queries on a table T (k INT32, v STRING).             *)
EXTENDS BazaInterpreter, TLC

CONSTANTS a1, a2, a3, a4, one, five, abc, aPercent

AddrSymmetry == Permutations(Addr)

MCDecimal == (one :> 1) @@ (five :> 5) @@ (abc :> 0) @@ (aPercent :> 0)
MCTypeNames == [type \in BaseType |-> type]
MCIntValue == -(Mod64 \div 2) .. Mod64 \div 2 - 1
MCNotANumber == {abc, aPercent}
MCRank == (one :> 1) @@ (five :> 2) @@ (aPercent :> 3) @@ (abc :> 4)
MCLike == {<<s, s>> : s \in {one, five, abc, aPercent}} \cup {<<abc, aPercent>>}

CreateT(columns, types) ==
    [type |-> "CREATE", table |-> "T", columns |-> columns, types |-> types]
InsertT(values) == [type |-> "INSERT", table |-> "T", values |-> values]
DeleteT(filters) == [type |-> "DELETE", table |-> "T", filters |-> filters]
UpdateT(filters, columns, values) ==
    [type |-> "UPDATE", table |-> "T", filters |-> filters,
     columns |-> columns, values |-> values]
SelectT(filters, columns) ==
    [type |-> "SELECT", table |-> "T", filters |-> filters, columns |-> columns]

Filter(column, op, value, next) ==
    [column |-> column, op |-> op, value |-> value, next_relation |-> next]
Where(column, op, value) == <<Filter(column, op, value, "NONE")>>
WhereBoth(f1, relation, f2) == <<[f1[1] EXCEPT !.next_relation = relation], f2[1]>>

MakeT == CreateT(<<"k", "v">>, <<"INT32", "STRING">>)

KisOne == Where("k", "=", one)
KisFive == Where("k", "=", five)
KpastOne == Where("k", ">", one)
VlikeA == Where("v", "like", aPercent)
VisOne == Where("v", "=", one)

\* Queries the interpreter carries out or refuses as it should: WHERE
\* clauses have one filter or two joined by AND, or by OR where both test
\* the same rows in order.
SoundQueries ==
    {MakeT}
    \cup {InsertT(<<k, v>>) : k \in {one, five}, v \in {one, abc}}
    \cup {DeleteT(w) : w \in {<<>>, KpastOne, VlikeA, WhereBoth(KisOne, "AND", VisOne)}}
    \cup {UpdateT(w, <<"k", "v">>, <<one, abc>>) : w \in {<<>>, VisOne}}
    \cup {UpdateT(WhereBoth(KisOne, "OR", VlikeA), <<"v">>, <<one>>)}
    \cup {SelectT(w, <<"v">>) : w \in {VlikeA, WhereBoth(KisOne, "AND", VlikeA),
                                       WhereBoth(VlikeA, "OR", KisOne)}}
    \cup {SelectT(<<>>, NoList)}

\* Queries that must be refused, by a C library that reports bad numbers.
BadQueries ==
    {InsertT(<<abc, one>>),
     DeleteT(WhereBoth(VisOne, "AND", Where("k", "=", abc))),
     DeleteT(WhereBoth(VisOne, "OR", Where("x", "=", one))),
     UpdateT(KisOne, <<"k">>, <<abc>>),
     UpdateT(Where("x", "=", one), <<"k">>, <<one>>),
     SelectT(Where("k", "<", abc), <<"v">>)}

WorkingQueries == SoundQueries \cup BadQueries

\* Queries that take every way through the interpreter.
EveryWay ==
    {MakeT,
     CreateT(<<"k">>, <<"FLOAT">>),
     CreateT(<<"k", "k">>, <<"INT64", "INT64">>), CreateT(<<"k", "v">>, <<"INT32">>),
     CreateT(<<"k">>, <<>>),
     InsertT(<<one, abc>>), InsertT(<<five, one>>), InsertT(<<one>>), InsertT(<<abc, one>>),
     [type |-> "INSERT", table |-> "U", values |-> <<one, one>>],
     DeleteT(<<>>), DeleteT(KisOne), DeleteT(WhereBoth(KisOne, "AND", VisOne)),
     DeleteT(WhereBoth(KisFive, "OR", KisOne)),
     DeleteT(WhereBoth(VisOne, "OR", Where("x", "=", one))),
     DeleteT(Where("k", "!=", one)),
     UpdateT(<<>>, <<"k", "v">>, <<one, abc>>), UpdateT(KisFive, <<"v">>, <<abc>>),
     UpdateT(WhereBoth(VlikeA, "OR", KisOne), <<"v", "k">>, <<five, one>>),
     UpdateT(KisOne, <<"k">>, <<abc>>), UpdateT(KisOne, <<"x">>, <<abc>>),
     UpdateT(Where("k", "=", abc), <<"k">>, <<one>>),
     SelectT(<<>>, <<"v">>), SelectT(<<>>, <<>>),
     SelectT(KisOne, <<"v">>), SelectT(KisOne, <<"x">>),
     SelectT(Where("x", "=", one), <<"v">>)}

\* One table with rows (one, abc) and (five, one), and a query at odds with
\* what is said of it.
TwoRows == {MakeT, InsertT(<<one, abc>>), InsertT(<<five, one>>)}

OrDelete == TwoRows \cup {DeleteT(WhereBoth(KisFive, "OR", KisOne))}
SetOutOfOrder == TwoRows \cup {UpdateT(KisOne, <<"v", "k">>, <<five, one>>)}

============================================================================
