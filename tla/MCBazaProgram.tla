---------------------------- MODULE MCBazaProgram ---------------------------
(* BazaProgram on disks with two CSV files and a script: files at odds     *)
(* with what csv_read expects before one script, and the well-formed files  *)
(* before every script of up to two chunks and two longer ones.             *)
EXTENDS BazaProgram, TLC

Syntax == INSTANCE BazaSyntax WITH Symbol <- {}

CONSTANTS a1, a2, a3

\* Texts.
S == <<"s">>
P == <<"p">>
U == <<"u">>
K == <<"k">>
V == <<"v">>
One == <<"1">>
Two == <<"2">>
Twelve == <<"1", "2">>
X == <<"x">>
Y == <<"x", "y">>
Int32 == <<"int32">>
String == <<"string">>

Texts == <<One, Two, Twelve, X, Y>>
MCStr == ToSet(Texts)
MCDecimal == (One :> 1) @@ (Two :> 2) @@ (Twelve :> 12) @@ (X :> 0) @@ (Y :> 0)
MCNotANumber == {X, Y}
MCRank == [text \in MCStr |-> CHOOSE i \in DOMAIN Texts : Texts[i] = text]
MCLike == {<<text, text>> : text \in MCStr}
MCTypeNames == (Int32 :> "INT32") @@ (String :> "STRING")
MCIntValue == -32 .. 31
MCTableName == {S, P, U}
MCColumnName == {K, V}
MCCsvNames == <<S, P>>

----------------------------------------------------------------------------
(* Files.                                                                  *)

Csv0(lines) == [lines |-> lines, newline |-> TRUE]
Header == <<<<K, V>>, <<Int32, String>>>>
FileP == Csv0(<<<<K>>, <<Int32>>, <<Two>>, <<One>>, <<Twelve>>>>)

CutP == [lines |-> <<<<K>>, <<Int32>>, <<Two>>, <<Twelve>>>>, newline |-> FALSE]

GoodS == Csv0(Header \o <<<<One, X>>, <<Twelve, Y>>>>)
SmallS == Csv0(Header \o <<<<One, X>>>>)

OddFiles ==
    {Missing,
     Csv0(<<<<K, V>>>>),
     Csv0(Header),
     [lines |-> Header \o <<<<One, X>>>>, newline |-> FALSE],
     Csv0(Header \o <<<<One, X>>, <<>>>>),
     Csv0(Header \o <<<<One, <<>>>>>>),
     Csv0(Header \o <<<<X, X>>>>),
     Csv0(<<<<K, V>>, <<Int32>>>>),
     Csv0(<<<<K, V>>, <<>>>>),
     Csv0(<<<<K, K>>, <<Int32, Int32>>>>)}

----------------------------------------------------------------------------
(* Scripts.                                                                *)

Is(column, op, value, next) ==
    [column |-> column, op |-> op, value |-> value, next_relation |-> next]

Create == [type |-> "CREATE", table |-> U, columns |-> <<K>>, types |-> <<Int32>>]
Insert(t, values) == [type |-> "INSERT", table |-> t, values |-> values]
Delete(t, filters) == [type |-> "DELETE", table |-> t, filters |-> filters]
UpdateS(value, filters) ==
    [type |-> "UPDATE", table |-> S, columns |-> <<V>>, values |-> <<value>>,
     filters |-> filters]
SelectS(columns, filters, sort) ==
    [type |-> "SELECT", table |-> S, columns |-> columns, filters |-> filters, sort |-> sort]

Rename == UpdateS(Y, <<Is(K, ">", One, "AND"), Is(V, "=", X, "NONE")>>)

Asked ==
    {Create, Insert(U, <<Twelve>>), Insert(S, <<Two, X>>), Insert(S, <<X, X>>),
     Delete(S, <<>>), Delete(S, <<Is(K, "<", Two, "NONE")>>), Delete(P, <<Is(K, ">", One, "NONE")>>),
     Rename, UpdateS(X, <<>>),
     SelectS(NoList, <<>>, <<>>),
     SelectS(<<V>>, <<Is(K, "=", Twelve, "OR"), Is(V, "=", Y, "NONE")>>, <<K, "asc">>)}

FlushLeft(tokens) == [first |-> IF tokens = <<>> THEN "" ELSE tokens[1][1], tokens |-> tokens]
Indented(tokens) == [first |-> "\t", tokens |-> tokens]

Tokens(q) == CHOOSE text \in Syntax!Written(q) : TRUE
Text(q) == FlushLeft(Tokens(q))
IndentedDelete == Indented(Tokens(Delete(S, <<Is(K, "<", Two, "NONE")>>)))
Statements == {Text(q) : q \in Asked} \cup {IndentedDelete}

Remark == <<<<"#", "x">>, <<"select">>>>
Comment == FlushLeft(Remark)
Blank == FlushLeft(<<>>)
Unparsed == {FlushLeft(tokens) : tokens \in
    {<<<<"insert">>, <<"into">>, S>>,
     <<<<"drop">>, S>>,
     <<<<"delete">>, <<"from">>, S, <<"where">>, K>>,
     <<<<"delete">>, <<"from">>, S, <<"where">>, K, <<"=">>>>,
     <<<<"select">>, <<"*">>, <<"from">>, S, <<"where">>, K, <<"=">>, One, <<"group">>>>}}

\* A tab alone after the last semicolon, and an indented comment.
Tabs == {Indented(<<>>), Indented(Remark)}

Chunk == Statements \cup Unparsed \cup Tabs \cup {Blank, Comment}

Long == <<Text(Insert(S, <<Two, X>>)), Comment, Text(Delete(S, <<Is(K, "<", Two, "NONE")>>)),
          Text(Rename), Blank,
          Text(SelectS(<<V>>, <<Is(K, "=", Twelve, "OR"), Is(V, "=", Y, "NONE")>>, <<K, "asc">>))>>
Longer == <<Text(Create), Text(Insert(U, <<Twelve>>)), Text(Insert(U, <<Twelve>>))>>
          \o Long \o <<Text(Delete(S, <<>>))>>

Short == BoundedSeq(Chunk, 2)

Disk(s, p, script) == [csv |-> (S :> s) @@ (P :> p), script |-> script]
MCDisks ==
    {Disk(SmallS, FileP, script) : script \in Short}
    \cup {Disk(GoodS, FileP, script) : script \in {Long, Longer, Missing}}
    \cup {Disk(s, FileP, Long) : s \in OddFiles}
    \cup {Disk(GoodS, p, Long) : p \in {CutP, Missing}}

\* What the files and the statements ask for.
MCQueries ==
    Asked
    \cup {[type |-> "CREATE", table |-> t, columns |-> c, types |-> ty] :
            t \in {S, P}, c \in {<<K>>, <<K, V>>, <<K, K>>},
            ty \in {<<>>, <<Int32>>, <<Int32, String>>, <<Int32, Int32>>}}
    \cup {Insert(t, values) : t \in {S, P}, values \in BoundedSeq(MCStr, 3)}

============================================================================
