-------------------------- MODULE BazaParserProofs --------------------------
(***************************************************************************)
(* Whatever the statement, the parser keeps its types, follows a null      *)
(* token only where the statement ends early, and accepts only queries of  *)
(* which holds what the interpreter relies on and does not check.          *)
(*                                                                         *)
(* ParserInv says of each place in the parser what the query built so far  *)
(* looks like: its record, two lists that grow together, filters that all  *)
(* have a relation until one comes without.  CursorInv says what the       *)
(* pointer leads to, and of each place where a null token may be followed  *)
(* which tokens were read last.                                            *)
(***************************************************************************)
EXTENDS BazaParser, BazaFoldProofs

\* Filters that are to be followed by another, and complete WHERE clauses.
Open(filters) == \A i \in DOMAIN filters : filters[i].next_relation # "NONE"
Closed(filters) ==
    \A i \in DOMAIN filters : filters[i].next_relation = "NONE" <=> i = Len(filters)

SelectShape(q) ==
    q \in [type : {"SELECT"}, table : Token, columns : Seq(Token) \cup {NoList},
           filters : Seq(FilterRecord), sort : {<<>>} \cup (Token \X Directions)]

CreateShape(q) ==
    /\ q \in [type : {"CREATE"}, table : Token, columns : Seq(Token), types : Seq(Token)]
    /\ Len(q.columns) = Len(q.types)

InsertShape(q) == q \in [type : {"INSERT"}, table : Token, values : Seq(Token)]

DeleteShape(q) == q \in [type : {"DELETE"}, table : Token, filters : Seq(FilterRecord)]

UpdateShape(q) ==
    /\ q \in [type : {"UPDATE"}, table : Token, columns : Seq(Token), values : Seq(Token),
              filters : Seq(FilterRecord)]
    /\ Len(q.columns) = Len(q.values)

\* A query whose WHERE clause may begin or go on.
Filtered(q) == SelectShape(q) \/ DeleteShape(q) \/ (UpdateShape(q) /\ q.columns # <<>>)

\* What may be accepted.
Suitable(q) ==
    \/ SelectShape(q) /\ Closed(q.filters)
    \/ CreateShape(q) /\ q.columns # <<>>
    \/ InsertShape(q)
    \/ DeleteShape(q) /\ Closed(q.filters)
    \/ UpdateShape(q) /\ q.columns # <<>> /\ Closed(q.filters)

\* A query that is being read or has been.
Formed(q) ==
    SelectShape(q) \/ CreateShape(q) \/ InsertShape(q) \/ DeleteShape(q) \/ UpdateShape(q)

\* A SELECT whose list of columns may begin or go on.
Listing(q) == SelectShape(q) /\ Closed(q.filters) /\ q.columns \in Seq(Token)

\* What the query looks like at each place.
Fits(place, q) ==
    /\ place = "verb" => q = NoQuery
    /\ place = "ended" => q = NoQuery \/ Formed(q)
    /\ place = "select" => Listing(q)
    /\ place \in {"from", "clauses", "order"} => SelectShape(q) /\ Closed(q.filters)
    /\ place \in {"create", "column"} => CreateShape(q)
    /\ place = "insert" => InsertShape(q)
    /\ place = "list" => InsertShape(q) \/ Listing(q)
    /\ place = "delete" => DeleteShape(q) /\ q.filters = <<>>
    /\ place \in {"update", "assign"} => UpdateShape(q) /\ q.filters = <<>>
    /\ place = "filter" => Filtered(q) /\ Open(q.filters)

Places ==
    {"verb", "select", "create", "insert", "delete", "update", "from", "list", "column",
     "assign", "filter", "clauses", "order"}

ParserInv ==
    /\ tok \in Seq(Token)
    /\ at \in Places \cup {"ended"}
    /\ at # "ended" => outcome = "PENDING"
    /\ Fits(at, query)
    /\ Accepted => Suitable(query)

----------------------------------------------------------------------------
(* Tokens and their parts.                                                 *)

\* What the loop of strlist_from_split has after some turns: the pieces so far,
\* the last of which may be open.
Pieces == {acc \in [list : Seq(Token), open : BOOLEAN] : acc.open => acc.list # <<>>}

\* One turn of that loop.
PieceTurn(acc, s) ==
    IF s = "," THEN [acc EXCEPT !.open = FALSE]
    ELSE IF acc.open THEN [acc EXCEPT !.list[Len(acc.list)] = Append(@, s)]
    ELSE [list |-> Append(acc.list, <<s>>), open |-> TRUE]

LEMMA PieceTurnKeeps ==
    ASSUME NEW acc \in Pieces, NEW s \in Symbol
    PROVE  PieceTurn(acc, s) \in Pieces
<1>1. acc.list \in Seq(Token) /\ acc.open \in BOOLEAN /\ (acc.open => acc.list # <<>>)
  BY DEF Pieces
<1>2. CASE s = ","
  BY <1>1, <1>2 DEF Pieces, PieceTurn
<1>3. CASE s # "," /\ acc.open
  <2> DEFINE list == [acc.list EXCEPT ![Len(acc.list)] = Append(@, s)]
  <2>1. Len(acc.list) \in DOMAIN acc.list
    <3>1. acc.list \in Seq(Token) /\ acc.list # <<>>
      BY <1>1, <1>3
    <3>2. ASSUME NEW l \in Seq(Token), l # <<>>
          PROVE  Len(l) \in DOMAIN l
      BY <3>2
    <3> QED
      BY <3>1, <3>2
  <2>2. acc.list[Len(acc.list)] \in Seq(Symbol)
    BY <1>1, <2>1 DEF Token
  <2>3. Append(acc.list[Len(acc.list)], s) \in Token
    BY <2>2 DEF Token
  <2>4. list \in Seq(Token) /\ list # <<>>
    BY <1>1, <2>1, <2>3
  <2>5. PieceTurn(acc, s) = [list |-> list, open |-> acc.open]
    BY <1>3 DEF PieceTurn, Pieces
  <2> HIDE DEF list
  <2> QED
    BY <1>1, <2>4, <2>5 DEF Pieces
<1>4. CASE s # "," /\ ~acc.open
  <2>1. <<s>> \in Token
    BY DEF Token
  <2>2. Append(acc.list, <<s>>) \in Seq(Token) /\ Append(acc.list, <<s>>) # <<>>
    BY <1>1, <2>1
  <2> QED
    BY <1>4, <2>2 DEF Pieces, PieceTurn
<1> QED
  BY <1>2, <1>3, <1>4

LEMMA SplitTurns ==
    ASSUME NEW t \in Token
    PROVE  \E f : /\ f[0] = [list |-> <<>>, open |-> FALSE]
                  /\ \A k \in 1 .. Len(t) : f[k] = PieceTurn(f[k - 1], t[k])
                  /\ Split(t) = f[Len(t)].list
<1> DEFINE n == Len(t)
           base == [list |-> <<>>, open |-> FALSE]
           Graph(it) == it = [s \in SUBSET DOMAIN t |->
                                 IF s = {} THEN base ELSE PieceTurn(it[s \ {Max(s)}], t[Max(s)])]
           iter == CHOOSE it : Graph(it)
           Op == [p \in Pieces \X (1 .. n) |-> PieceTurn(p[1], t[p[2]])]
           f == Along(iter, n)
<1>1. DOMAIN t = 1 .. n /\ n \in Nat /\ \A k \in 1 .. n : t[k] \in Symbol
  BY DEF Token
<1>2. Split(t) = iter[1 .. n].list
  BY <1>1 DEF Split, PieceTurn, FoldLeft, MapThenFoldSet
<1>3. Op \in [Pieces \X (1 .. n) -> Pieces] /\ base \in Pieces
  BY <1>1, PieceTurnKeeps DEF Pieces
<1>4. \E it : Graph(it)
  <2> HIDE DEF Op, base
  <2>1. PICK it : IsFold(it, n, Pieces, base, Op)
    BY <1>1, <1>3, FoldExists
  <2>2. it \in [SUBSET (1 .. n) -> Pieces] /\ it[{}] = base
    BY <2>1 DEF IsFold
  <2>3. ASSUME NEW s \in SUBSET (1 .. n), s # {}
        PROVE  it[s] = PieceTurn(it[s \ {Max(s)}], t[Max(s)])
    <3>1. Max(s) \in 1 .. n
      BY <2>3, <1>1, GreatestNumber
    <3>2. <<it[s \ {Max(s)}], Max(s)>> \in Pieces \X (1 .. n)
      BY <2>2, <3>1
    <3>3. it[s] = Op[<<it[s \ {Max(s)}], Max(s)>>]
      BY <2>1, <2>3 DEF IsFold
    <3> QED
      BY <3>2, <3>3 DEF Op
  <2>4. Graph(it)
    BY <1>1, <2>2, <2>3
  <2> QED
    BY <2>4, Zenon
<1>5. Graph(iter)
  BY <1>4, Zenon
<1>6. iter[{}] = base
  BY <1>5, Zenon
<1>7. ASSUME NEW k \in 1 .. n
      PROVE  iter[1 .. k] = PieceTurn(iter[(1 .. k) \ {Max(1 .. k)}], t[Max(1 .. k)])
  <2>1. 1 .. k \in SUBSET DOMAIN t /\ 1 .. k # {}
    BY <1>1, FirstTurns
  <2> HIDE DEF iter
  <2> QED
    BY <1>5, <2>1
<1>8. TurnsOf(f, iter, n)
  BY <1>1, FoldTurns, Zenon
<1> HIDE DEF iter, f
<1>9. \A k \in 1 .. n : f[k] = PieceTurn(f[k - 1], t[k])
  BY <1>7, <1>8 DEF TurnsOf
<1> QED
  BY <1>2, <1>6, <1>8, <1>9 DEF TurnsOf

\* The pieces of a token are tokens.
LEMMA SplitTokens ==
    ASSUME NEW t \in Token
    PROVE  Split(t) \in Seq(Token)
<1>1. PICK f : /\ f[0] = [list |-> <<>>, open |-> FALSE]
               /\ \A k \in 1 .. Len(t) : f[k] = PieceTurn(f[k - 1], t[k])
               /\ Split(t) = f[Len(t)].list
  BY SplitTurns
<1> DEFINE n == Len(t)
           S == {k \in 0 .. n : f[k] \in Pieces}
<1>2. n \in Nat /\ \A k \in 1 .. n : t[k] \in Symbol
  BY DEF Token
<1>3. f[0] \in Pieces
  BY <1>1 DEF Pieces
<1>4. ASSUME NEW k \in 1 .. n, k - 1 \in S
      PROVE  k \in S
  <2>1. f[k] \in Pieces
    BY <1>1, <1>2, <1>4, PieceTurnKeeps
  <2> QED
    BY <1>2, <2>1
<1>5. n \in S
  <2> HIDE DEF n
  <2>1. 0 \in S
    BY <1>2, <1>3
  <2> HIDE DEF S
  <2>2. Inductive(S, n)
    BY <1>4, <2>1 DEF Inductive
  <2> QED
    BY <1>2, <2>2, UpTo
<1> QED
  BY <1>1, <1>5 DEF Pieces

\* What is left of a token without its last symbol, or without its first.
LEMMA FrontOfToken ==
    ASSUME NEW t \in Token, t # <<>>
    PROVE  Front(t) \in Token
  BY DEF Front, Token

LEMMA TailOfToken ==
    ASSUME NEW t \in Token, t # <<>>
    PROVE  Tail(t) \in Token /\ Len(Tail(t)) = Len(t) - 1
  BY DEF Token

----------------------------------------------------------------------------
(* How steps end.                                                          *)

\* The rest of a list of tokens is one.
LEMMA SkipTokens ==
    ASSUME tok \in Seq(Token), NEW n \in Nat, n <= Len(tok)
    PROVE  Skip(n) \in Seq(Token)
  BY DEF Skip

\* A keyword stands inside the list.
LEMMA KeywordInside ==
    ASSUME tok \in Seq(Token), NEW n \in Nat, NEW word, Keyword(n, word)
    PROVE  n <= Len(tok)
  BY DEF Keyword

LEMMA FitsIsFormed ==
    ASSUME NEW place \in Places, place # "verb", NEW q, Fits(place, q)
    PROVE  Formed(q)
  BY DEF Places, Fits, Formed, Listing, Filtered

LEMMA GotoKeeps ==
    ASSUME ParserInv, at # "ended",
           NEW label \in Places, NEW rest \in Seq(Token), NEW q,
           Fits(label, q), Goto(label, rest, q)
    PROVE  ParserInv'
  BY DEF Goto, ParserInv, Accepted, Ended, Places

LEMMA AcceptKeeps ==
    ASSUME ParserInv, NEW q, Suitable(q), Accept(q)
    PROVE  ParserInv'
<1>1. Formed(q)
  BY DEF Suitable, Formed
<1> QED
  BY <1>1 DEF Accept, Stop, ParserInv, Fits, Accepted, Ended

LEMMA FailureKeeps ==
    ASSUME ParserInv, at # "ended",
           Refuse \/ Die("fatal") \/ Die("segfault")
    PROVE  ParserInv'
<1>1. query = NoQuery \/ Formed(query)
  <2>1. Fits(at, query) /\ at \in Places
    BY DEF ParserInv
  <2> QED
    BY <2>1, FitsIsFormed DEF Fits
<1>2. at' = "ended" /\ tok' = tok /\ outcome' # "RESULT_OK"
  BY DEF Refuse, Die, Stop
<1>3. query' = NoQuery \/ Formed(query')
  BY <1>1 DEF Refuse, Die, Stop
<1> QED
  BY <1>2, <1>3 DEF ParserInv, Fits, Accepted, Ended

\* An optional WHERE clause, which begins without filters.
LEMMA WhereOrAcceptKeeps ==
    ASSUME ParserInv, at # "ended", NEW n \in Nat, NEW q,
           DeleteShape(q) \/ (UpdateShape(q) /\ q.columns # <<>>), q.filters = <<>>,
           WhereOrAccept(n, q)
    PROVE  ParserInv'
<1>0. Open(q.filters) /\ Closed(q.filters)
  BY DEF Open, Closed
<1>1. CASE Keyword(n + 1, "where")
  <2>1. Skip(n + 1) \in Seq(Token)
    BY <1>1, KeywordInside, SkipTokens DEF ParserInv
  <2>2. Fits("filter", q)
    BY <1>0 DEF Fits, Filtered
  <2> QED
    BY <1>1, <2>1, <2>2, GotoKeeps DEF WhereOrAccept, Places
<1>2. CASE ~Keyword(n + 1, "where")
  <2>1. Suitable(q)
    BY <1>0 DEF Suitable
  <2> QED
    BY <1>2, <2>1, AcceptKeeps DEF WhereOrAccept
<1> QED
  BY <1>1, <1>2

----------------------------------------------------------------------------
(* Every action keeps the invariant.                                       *)

\* The parser starts at the verb, without a query.
LEMMA InitKeeps == ParserInit => ParserInv
  BY ParserAssumption DEF ParserInit, ParserInv, Fits, Places, Accepted, Ended

\* The query a statement begins with.
LEMMA BlankFits ==
    /\ <<>> \in Token /\ <<>> \in Seq(Token) /\ <<>> \in Seq(FilterRecord)
    /\ Open(<<>>) /\ Closed(<<>>)
  BY DEF Token, Open, Closed

LEMMA ReadVerbKeeps == ParserInv /\ ReadVerb => ParserInv'
<1> SUFFICES ASSUME ParserInv, ReadVerb PROVE ParserInv'
  OBVIOUS
<1>1. CASE Die("segfault")
  BY <1>1, FailureKeeps DEF ReadVerb
<1>2. CASE \E verb \in Verbs : Keyword(1, verb) /\ Goto(verb, Skip(1), Blank[verb])
  <2>1. PICK verb \in Verbs : Keyword(1, verb) /\ Goto(verb, Skip(1), Blank[verb])
    BY <1>2
  <2>2. Skip(1) \in Seq(Token)
    BY <2>1, KeywordInside, SkipTokens DEF ParserInv
  <2>3. verb \in Places /\ Fits(verb, Blank[verb])
    <3>1. verb \in {"select", "create", "insert", "delete", "update"}
      BY DEF Verbs, Blank
    <3>2. CASE verb = "select"
      <4>1. Blank[verb] = [type |-> "SELECT", table |-> <<>>, columns |-> <<>>,
                           filters |-> <<>>, sort |-> <<>>]
        BY <3>2 DEF Blank
      <4>2. Listing(Blank[verb])
        BY <4>1, BlankFits DEF SelectShape, Listing
      <4> QED
        BY <3>2, <4>2 DEF Fits, Places
    <3>3. CASE verb = "create"
      <4>1. Blank[verb] = [type |-> "CREATE", table |-> <<>>, columns |-> <<>>,
                           types |-> <<>>]
        BY <3>3 DEF Blank
      <4>2. CreateShape(Blank[verb])
        BY <4>1, BlankFits DEF CreateShape
      <4> QED
        BY <3>3, <4>2 DEF Fits, Places
    <3>4. CASE verb = "insert"
      <4>1. Blank[verb] = [type |-> "INSERT", table |-> <<>>, values |-> <<>>]
        BY <3>4 DEF Blank
      <4>2. InsertShape(Blank[verb])
        BY <4>1, BlankFits DEF InsertShape
      <4> QED
        BY <3>4, <4>2 DEF Fits, Places
    <3>5. CASE verb = "delete"
      <4>1. Blank[verb] = [type |-> "DELETE", table |-> <<>>, filters |-> <<>>]
        BY <3>5 DEF Blank
      <4>2. DeleteShape(Blank[verb]) /\ Blank[verb].filters = <<>>
        BY <4>1, BlankFits DEF DeleteShape
      <4> QED
        BY <3>5, <4>2 DEF Fits, Places
    <3>6. CASE verb = "update"
      <4>1. Blank[verb] = [type |-> "UPDATE", table |-> <<>>, columns |-> <<>>,
                           values |-> <<>>, filters |-> <<>>]
        BY <3>6 DEF Blank
      <4>2. UpdateShape(Blank[verb]) /\ Blank[verb].filters = <<>>
        BY <4>1, BlankFits DEF UpdateShape
      <4> QED
        BY <3>6, <4>2 DEF Fits, Places
    <3> QED
      BY <3>1, <3>2, <3>3, <3>4, <3>5, <3>6
  <2> QED
    BY <2>1, <2>2, <2>3, GotoKeeps DEF ReadVerb
<1>3. CASE Refuse
  BY <1>3, FailureKeeps DEF ReadVerb
<1> QED
  BY <1>1, <1>2, <1>3 DEF ReadVerb

LEMMA ReadSelectKeeps == ParserInv /\ ReadSelect => ParserInv'
<1> SUFFICES ASSUME ParserInv, ReadSelect PROVE ParserInv'
  OBVIOUS
<1>1. Listing(query)
  BY DEF ParserInv, ReadSelect, Fits
<1>2. CASE Refuse
  BY <1>2, FailureKeeps DEF ReadSelect
<1>3. CASE Keyword(1, "*") /\ Goto("from", Skip(1), [query EXCEPT !.columns = NoList])
  <2>1. Skip(1) \in Seq(Token)
    BY <1>3, KeywordInside, SkipTokens DEF ParserInv
  <2>2. Fits("from", [query EXCEPT !.columns = NoList])
    BY <1>1 DEF Fits, Listing, SelectShape, Closed
  <2> QED
    BY <1>3, <2>1, <2>2, GotoKeeps DEF ReadSelect, Places
<1>4. CASE Goto("list", tok, query)
  BY <1>1, <1>4, GotoKeeps DEF ReadSelect, ParserInv, Fits, Places
<1> QED
  BY <1>2, <1>3, <1>4 DEF ReadSelect

LEMMA ReadFromKeeps == ParserInv /\ ReadFrom => ParserInv'
<1> SUFFICES ASSUME ParserInv, ReadFrom PROVE ParserInv'
  OBVIOUS
<1>1. SelectShape(query) /\ Closed(query.filters)
  BY DEF ParserInv, ReadFrom, Fits
<1>2. CASE Refuse
  BY <1>2, FailureKeeps DEF ReadFrom
<1>3. CASE Len(tok) >= 2 /\ Goto("clauses", Skip(2), [query EXCEPT !.table = tok[2]])
  <2>1. Skip(2) \in Seq(Token)
    BY <1>3, SkipTokens DEF ParserInv
  <2>2. Fits("clauses", [query EXCEPT !.table = tok[2]])
    <3>1. tok[2] \in Token
      BY <1>3 DEF ParserInv
    <3> QED
      BY <1>1, <3>1 DEF Fits, SelectShape, Closed
  <2> QED
    BY <1>3, <2>1, <2>2, GotoKeeps DEF ReadFrom, Places
<1> QED
  BY <1>2, <1>3 DEF ReadFrom

LEMMA ReadCreateKeeps == ParserInv /\ ReadCreate => ParserInv'
<1> SUFFICES ASSUME ParserInv, ReadCreate PROVE ParserInv'
  OBVIOUS
<1>1. CreateShape(query)
  BY DEF ParserInv, ReadCreate, Fits
<1>2. CASE Refuse
  BY <1>2, FailureKeeps DEF ReadCreate
<1>3. CASE Keyword(3, "(") /\ Goto("column", Skip(3), [query EXCEPT !.table = tok[2]])
  <2>1. Skip(3) \in Seq(Token)
    BY <1>3, KeywordInside, SkipTokens DEF ParserInv
  <2>2. Fits("column", [query EXCEPT !.table = tok[2]])
    <3>1. 3 <= Len(tok) /\ tok \in Seq(Token)
      BY <1>3, KeywordInside DEF ParserInv
    <3>2. tok[2] \in Token
      BY <3>1
    <3> QED
      BY <1>1, <3>2 DEF Fits, CreateShape
  <2> QED
    BY <1>3, <2>1, <2>2, GotoKeeps DEF ReadCreate, Places
<1> QED
  BY <1>2, <1>3 DEF ReadCreate

LEMMA ReadInsertKeeps == ParserInv /\ ReadInsert => ParserInv'
<1> SUFFICES ASSUME ParserInv, ReadInsert PROVE ParserInv'
  OBVIOUS
<1> DEFINE first == IF EndsWith(tok[4], ")") THEN Front(Tail(tok[4])) ELSE Tail(tok[4])
           q == [query EXCEPT !.table = tok[2], !.values = Split(first)]
<1>1. InsertShape(query)
  BY DEF ParserInv, ReadInsert, Fits
<1>2. ASSUME Len(tok) > 3, tok[4] # <<>>, Head(tok[4]) = "("
      PROVE  InsertShape(q)
  <2>1. tok[2] \in Token /\ tok[4] \in Token
    BY <1>2 DEF ParserInv
  <2>2. Tail(tok[4]) \in Token
    BY <1>2, <2>1, TailOfToken
  <2>3. EndsWith(tok[4], ")") => Tail(tok[4]) # <<>>
    <3>1. tok[4] \in Seq(Symbol)
      BY <2>1 DEF Token
    <3>2. ASSUME EndsWith(tok[4], ")"), Len(tok[4]) = 1
          PROVE  FALSE
      BY <1>2, <3>1, <3>2 DEF EndsWith, Last
    <3>3. ASSUME NEW rest, rest = Tail(tok[4]), rest = <<>>
          PROVE  Len(tok[4]) = 1
      <4>1. Len(rest) = Len(tok[4]) - 1
        BY <1>2, <2>1, <3>3, TailOfToken
      <4>2. rest = <<>>
        BY <3>3
      <4>3. Len(rest) = 0
        BY <4>2
      <4> QED
        BY <3>1, <4>1, <4>3
    <3> QED
      BY <1>2, <3>1, <3>2, <3>3
  <2>4. first \in Token
    BY <2>2, <2>3, FrontOfToken
  <2> HIDE DEF first
  <2>5. Split(first) \in Seq(Token)
    BY <2>4, SplitTokens
  <2> QED
    BY <1>1, <2>1, <2>5 DEF InsertShape
<1>3. CASE Refuse \/ Die("segfault")
  BY <1>3, FailureKeeps DEF ReadInsert
<1>4. CASE /\ Len(tok) > 3 /\ tok[4] # <<>> /\ Head(tok[4]) = "("
           /\ Goto("list", Skip(4), q)
  <2>1. Skip(4) \in Seq(Token)
    BY <1>4, SkipTokens DEF ParserInv
  <2>2. Fits("list", q)
    BY <1>2, <1>4 DEF Fits
  <2> QED
    BY <1>4, <2>1, <2>2, GotoKeeps DEF ReadInsert, Places
<1>5. CASE /\ Len(tok) > 3 /\ tok[4] # <<>> /\ Head(tok[4]) = "("
           /\ Accept(q)
  BY <1>2, <1>5, AcceptKeeps DEF Suitable, ReadInsert
<1> QED
  BY <1>3, <1>4, <1>5 DEF ReadInsert

LEMMA ReadDeleteKeeps == ParserInv /\ ReadDelete => ParserInv'
<1> SUFFICES ASSUME ParserInv, ReadDelete PROVE ParserInv'
  OBVIOUS
<1>1. DeleteShape(query) /\ query.filters = <<>>
  BY DEF ParserInv, ReadDelete, Fits
<1>2. CASE Refuse
  BY <1>2, FailureKeeps DEF ReadDelete
<1>3. CASE Len(tok) >= 2 /\ WhereOrAccept(2, [query EXCEPT !.table = tok[2]])
  <2>1. /\ DeleteShape([query EXCEPT !.table = tok[2]])
        /\ [query EXCEPT !.table = tok[2]].filters = <<>>
    <3>1. tok[2] \in Token
      BY <1>3 DEF ParserInv
    <3> QED
      BY <1>1, <3>1 DEF DeleteShape
  <2> QED
    BY <1>3, <2>1, WhereOrAcceptKeeps DEF ReadDelete
<1> QED
  BY <1>2, <1>3 DEF ReadDelete

LEMMA ReadUpdateKeeps == ParserInv /\ ReadUpdate => ParserInv'
<1> SUFFICES ASSUME ParserInv, ReadUpdate PROVE ParserInv'
  OBVIOUS
<1>1. UpdateShape(query) /\ query.filters = <<>>
  BY DEF ParserInv, ReadUpdate, Fits
<1>2. CASE Refuse
  BY <1>2, FailureKeeps DEF ReadUpdate
<1>3. CASE Keyword(2, "set") /\ Goto("assign", Skip(2), [query EXCEPT !.table = tok[1]])
  <2>1. Skip(2) \in Seq(Token)
    BY <1>3, KeywordInside, SkipTokens DEF ParserInv
  <2>2. Fits("assign", [query EXCEPT !.table = tok[1]])
    <3>1. tok[1] \in Token
      BY <1>3, KeywordInside DEF ParserInv
    <3> QED
      BY <1>1, <3>1 DEF Fits, UpdateShape
  <2> QED
    BY <1>3, <2>1, <2>2, GotoKeeps DEF ReadUpdate, Places
<1> QED
  BY <1>2, <1>3 DEF ReadUpdate

LEMMA ColumnItemKeeps == ParserInv /\ ColumnItem => ParserInv'
<1> SUFFICES ASSUME ParserInv, ColumnItem PROVE ParserInv'
  OBVIOUS
<1> DEFINE label == IF EndsWith(tok[1], ",") THEN "list" ELSE "from"
           q == [query EXCEPT !.columns = @ \o Split(tok[1])]
<1>1. Listing(query)
  <2>1. InsertShape(query) \/ Listing(query)
    BY DEF ParserInv, ColumnItem, Fits
  <2> QED
    BY <2>1 DEF InsertShape, ColumnItem
<1>2. Listing(q)
  <2>1. tok[1] \in Token
    <3>1. tok \in Seq(Token) /\ tok # <<>>
      BY DEF ParserInv, ColumnItem
    <3> QED
      BY <3>1
  <2>2. Split(tok[1]) \in Seq(Token)
    BY <2>1, SplitTokens
  <2>3. query.columns \o Split(tok[1]) \in Seq(Token)
    BY <1>1, <2>2 DEF Listing
  <2> QED
    BY <1>1, <2>3 DEF Listing, SelectShape, Closed
<1>3. label \in Places /\ Fits(label, q)
  <2> HIDE DEF q
  <2> QED
    BY <1>2 DEF Fits, Places, Listing
<1>4. Skip(1) \in Seq(Token)
  <2>1. tok \in Seq(Token) /\ tok # <<>>
    BY DEF ParserInv, ColumnItem
  <2>2. 1 <= Len(tok)
    BY <2>1
  <2> QED
    BY <2>1, <2>2, SkipTokens
<1> QED
  BY <1>3, <1>4, GotoKeeps DEF ColumnItem

LEMMA ValueItemKeeps == ParserInv /\ ValueItem => ParserInv'
<1> SUFFICES ASSUME ParserInv, ValueItem PROVE ParserInv'
  OBVIOUS
<1>1. InsertShape(query) /\ tok[1] \in Token
  BY DEF ParserInv, ValueItem, Fits, SelectShape, Listing
<1>2. ASSUME NEW t \in Token
      PROVE  InsertShape([query EXCEPT !.values = @ \o Split(t)])
  <2>1. Split(t) \in Seq(Token)
    BY SplitTokens
  <2>2. query.values \o Split(t) \in Seq(Token)
    BY <1>1, <2>1 DEF InsertShape
  <2> QED
    BY <1>1, <2>2 DEF InsertShape
<1>3. CASE /\ EndsWith(tok[1], ")")
           /\ Accept([query EXCEPT !.values = @ \o Split(Front(tok[1]))])
  <2>1. Front(tok[1]) \in Token
    BY <1>1, <1>3, FrontOfToken DEF EndsWith
  <2> QED
    BY <1>2, <1>3, <2>1, AcceptKeeps DEF Suitable, ValueItem
<1>4. CASE Goto("list", Skip(1), [query EXCEPT !.values = @ \o Split(tok[1])])
  <2>1. Skip(1) \in Seq(Token)
    BY SkipTokens DEF ParserInv, ValueItem
  <2>2. Fits("list", [query EXCEPT !.values = @ \o Split(tok[1])])
    BY <1>1, <1>2 DEF Fits
  <2> QED
    BY <1>4, <2>1, <2>2, GotoKeeps DEF ValueItem, Places
<1> QED
  BY <1>3, <1>4 DEF ValueItem

\* Two lists that grow together.
LEMMA BothGrow ==
    ASSUME NEW s \in Seq(Token), NEW t \in Seq(Token), Len(s) = Len(t),
           NEW a \in Token, NEW b \in Token
    PROVE  /\ Append(s, a) \in Seq(Token) /\ Append(s, a) # <<>>
           /\ Append(t, b) \in Seq(Token)
           /\ Len(Append(s, a)) = Len(Append(t, b))
  OBVIOUS

LEMMA ColumnDefinitionKeeps == ParserInv /\ ColumnDefinition => ParserInv'
<1> SUFFICES ASSUME ParserInv, ColumnDefinition PROVE ParserInv'
  OBVIOUS
<1> DEFINE type == IF EndsWith(tok[2], ",") THEN Front(tok[2]) ELSE tok[2]
           q == [query EXCEPT !.columns = Append(@, tok[1]), !.types = Append(@, type)]
<1>1. CreateShape(query)
  BY DEF ParserInv, ColumnDefinition, Fits
<1>2. CASE Refuse
  BY <1>2, FailureKeeps DEF ColumnDefinition
<1>3. CASE Len(tok) >= 2 /\ (Goto("column", Skip(2), q) \/ Accept(q))
  <2>1. tok[1] \in Token /\ tok[2] \in Token
    BY <1>3 DEF ParserInv
  <2>2. type \in Token
    BY <2>1, FrontOfToken DEF EndsWith
  <2>3. CreateShape(q) /\ q.columns # <<>>
    <3> DEFINE columns == Append(query.columns, tok[1])
               types == Append(query.types, type)
    <3>1. q = [query EXCEPT !.columns = columns, !.types = types]
      OBVIOUS
    <3> HIDE DEF type, q
    <3>2. /\ columns \in Seq(Token) /\ types \in Seq(Token) /\ columns # <<>>
          /\ Len(columns) = Len(types)
      BY <1>1, <2>1, <2>2, BothGrow DEF CreateShape
    <3> HIDE DEF columns, types
    <3> QED
      BY <1>1, <3>1, <3>2 DEF CreateShape
  <2>4. Skip(2) \in Seq(Token)
    BY <1>3, SkipTokens DEF ParserInv
  <2>5. CASE Goto("column", Skip(2), q)
    BY <2>3, <2>4, <2>5, GotoKeeps DEF ColumnDefinition, Fits, Places
  <2>6. CASE Accept(q)
    BY <2>3, <2>6, AcceptKeeps DEF Suitable
  <2> QED
    BY <1>3, <2>5, <2>6
<1> QED
  BY <1>2, <1>3 DEF ColumnDefinition

LEMMA AssignmentKeeps == ParserInv /\ Assignment => ParserInv'
<1> SUFFICES ASSUME ParserInv, Assignment PROVE ParserInv'
  OBVIOUS
<1>1. UpdateShape(query) /\ query.filters = <<>>
  BY DEF ParserInv, Assignment, Fits
<1>2. CASE Refuse
  BY <1>2, FailureKeeps DEF Assignment
<1>3. CASE IsAssignment /\ (Goto("assign", Skip(3), Assigned) \/ WhereOrAccept(3, Assigned))
  <2>1. tok[1] \in Token /\ tok[3] \in Token
    BY <1>3 DEF IsAssignment, ParserInv
  <2>2. UpdateShape(Assigned) /\ Assigned.columns # <<>> /\ Assigned.filters = <<>>
    <3> DEFINE columns == Append(query.columns, tok[1])
               values == Append(query.values, tok[3])
    <3>1. Assigned = [query EXCEPT !.columns = columns, !.values = values]
      BY DEF Assigned
    <3>2. /\ columns \in Seq(Token) /\ values \in Seq(Token) /\ columns # <<>>
          /\ Len(columns) = Len(values)
      BY <1>1, <2>1, BothGrow DEF UpdateShape
    <3> HIDE DEF columns, values
    <3> QED
      BY <1>1, <3>1, <3>2 DEF UpdateShape
  <2>3. CASE Goto("assign", Skip(3), Assigned)
    <3>1. Skip(3) \in Seq(Token)
      BY <1>3, SkipTokens DEF IsAssignment, ParserInv
    <3> QED
      BY <2>2, <2>3, <3>1, GotoKeeps DEF Assignment, Fits, Places
  <2>4. CASE WhereOrAccept(3, Assigned)
    BY <2>2, <2>4, WhereOrAcceptKeeps DEF Assignment
  <2> QED
    BY <1>3, <2>3, <2>4
<1> QED
  BY <1>2, <1>3 DEF Assignment

\* A filter that is followed by another, and one that is the last.
LEMMA OneMoreFilter ==
    ASSUME NEW filters \in Seq(FilterRecord), Open(filters), NEW f \in FilterRecord
    PROVE  /\ f.next_relation # "NONE" => Open(Append(filters, f))
           /\ f.next_relation = "NONE" => Closed(Append(filters, f))
  BY DEF Open, Closed

LEMMA FilterItemKeeps == ParserInv /\ FilterItem => ParserInv'
<1> SUFFICES ASSUME ParserInv, FilterItem PROVE ParserInv'
  OBVIOUS
<1> DEFINE f(relation) == [column |-> tok[1], op |-> tok[2][1], value |-> tok[3],
                           next_relation |-> relation]
           q(relation) == [query EXCEPT !.filters = Append(@, f(relation))]
<1>1. Filtered(query) /\ Open(query.filters) /\ query.filters \in Seq(FilterRecord)
  BY DEF ParserInv, FilterItem, Fits, Filtered, SelectShape, DeleteShape, UpdateShape
<1>2. ASSUME NEW relation \in {"NONE", "AND", "OR"}
      PROVE  f(relation) \in FilterRecord
  <2>1. tok[1] \in Token /\ tok[3] \in Token
    BY DEF FilterItem, ParserInv
  <2>2. tok[2][1] \in FilterOps
    BY DEF FilterItem, Operator, Keyword
  <2> QED
    BY <2>1, <2>2 DEF FilterRecord
<1>3. ASSUME NEW relation \in {"NONE", "AND", "OR"}
      PROVE  /\ Filtered(q(relation))
             /\ q(relation).filters = Append(query.filters, f(relation))
             /\ q(relation).type = query.type
  <2>1. Append(query.filters, f(relation)) \in Seq(FilterRecord)
    BY <1>1, <1>2
  <2>2. CASE SelectShape(query)
    BY <2>1, <2>2 DEF SelectShape, Filtered
  <2>3. CASE DeleteShape(query)
    BY <2>1, <2>3 DEF DeleteShape, Filtered
  <2>4. CASE UpdateShape(query) /\ query.columns # <<>>
    BY <2>1, <2>4 DEF UpdateShape, Filtered
  <2> QED
    BY <1>1, <2>2, <2>3, <2>4 DEF Filtered
<1>4. ASSUME NEW word \in DOMAIN Relations,
             Keyword(4, word), Goto("filter", Skip(4), q(Relations[word]))
      PROVE  ParserInv'
  <2>1. Relations[word] \in {"AND", "OR"}
    BY DEF Relations
  <2>2. Fits("filter", q(Relations[word]))
    BY <1>1, <1>2, <1>3, <2>1, OneMoreFilter DEF Fits
  <2>3. Skip(4) \in Seq(Token)
    BY <1>4, KeywordInside, SkipTokens DEF ParserInv
  <2> QED
    BY <1>4, <2>2, <2>3, GotoKeeps DEF FilterItem, Places
<1>5. CASE FiltersDone(q("NONE"))
  <2>1. Filtered(q("NONE")) /\ Closed(q("NONE").filters)
    BY <1>1, <1>2, <1>3, OneMoreFilter
  <2>2. CASE q("NONE").type = "SELECT"
    <3>1. Fits("order", q("NONE"))
      BY <2>1, <2>2 DEF Fits, Filtered, SelectShape, DeleteShape, UpdateShape
    <3>2. Skip(3) \in Seq(Token)
      BY SkipTokens DEF FilterItem, ParserInv
    <3> QED
      BY <1>5, <2>2, <3>1, <3>2, GotoKeeps DEF FiltersDone, FilterItem, Places
  <2>3. CASE q("NONE").type # "SELECT"
    <3>1. Suitable(q("NONE"))
      BY <2>1, <2>3 DEF Suitable, Filtered
    <3> QED
      BY <1>5, <2>3, <3>1, AcceptKeeps DEF FiltersDone
  <2> QED
    BY <2>2, <2>3
<1> QED
  BY <1>4, <1>5 DEF FilterItem

LEMMA SelectClausesKeeps == ParserInv /\ SelectClauses => ParserInv'
<1> SUFFICES ASSUME ParserInv, SelectClauses PROVE ParserInv'
  OBVIOUS
<1>1. SelectShape(query) /\ Closed(query.filters)
  BY DEF ParserInv, SelectClauses, Fits
<1>2. CASE Accept(query)
  BY <1>1, <1>2, AcceptKeeps DEF Suitable
<1>3. CASE Keyword(1, "where") /\ Goto("filter", Skip(1), [query EXCEPT !.filters = <<>>])
  <2>1. Skip(1) \in Seq(Token)
    BY <1>3, KeywordInside, SkipTokens DEF ParserInv
  <2>2. Fits("filter", [query EXCEPT !.filters = <<>>])
    <3> DEFINE q == [query EXCEPT !.filters = <<>>]
    <3>1. SelectShape(q) /\ q.filters = <<>>
      BY <1>1, BlankFits DEF SelectShape
    <3> HIDE DEF q
    <3>2. Fits("filter", q)
      BY <3>1, BlankFits DEF Fits, Filtered
    <3> QED
      BY <3>2 DEF q
  <2> QED
    BY <1>3, <2>1, <2>2, GotoKeeps DEF SelectClauses, Places
<1>4. CASE Goto("order", tok, query)
  BY <1>1, <1>4, GotoKeeps DEF SelectClauses, ParserInv, Fits, Places
<1> QED
  BY <1>2, <1>3, <1>4 DEF SelectClauses

LEMMA OrderClauseKeeps == ParserInv /\ OrderClause => ParserInv'
<1> SUFFICES ASSUME ParserInv, OrderClause PROVE ParserInv'
  OBVIOUS
<1>1. SelectShape(query) /\ Closed(query.filters)
  BY DEF ParserInv, OrderClause, Fits
<1>2. ASSUME NEW d \in Directions, OrderBy,
             Goto("clauses", Skip(4), [query EXCEPT !.sort = <<tok[3], d>>])
      PROVE  ParserInv'
  <2>1. Skip(4) \in Seq(Token)
    BY <1>2, SkipTokens DEF OrderBy, ParserInv
  <2>2. Fits("clauses", [query EXCEPT !.sort = <<tok[3], d>>])
    <3>1. <<tok[3], d>> \in Token \X Directions
      BY <1>2 DEF OrderBy, ParserInv
    <3> QED
      BY <1>1, <3>1 DEF Fits, SelectShape, Closed
  <2> QED
    BY <1>2, <2>1, <2>2, GotoKeeps DEF OrderClause, Places
<1>3. CASE Refuse
  BY <1>3, FailureKeeps DEF OrderClause
<1>4. CASE Goto("clauses", tok, query)
  BY <1>1, <1>4, GotoKeeps DEF OrderClause, ParserInv, Fits, Places
<1> QED
  BY <1>2, <1>3, <1>4 DEF OrderClause

----------------------------------------------------------------------------

LEMMA StepKeeps == ParserInv /\ [ParserNext]_parserVars => ParserInv'
<1> SUFFICES ASSUME ParserInv, [ParserNext]_parserVars PROVE ParserInv'
  OBVIOUS
<1>1. CASE ListRunsOut
  BY <1>1, FailureKeeps DEF ListRunsOut
<1>2. CASE FilterFails
  BY <1>2, FailureKeeps DEF FilterFails
<1>3. CASE UNCHANGED parserVars
  BY <1>3 DEF parserVars, ParserInv, Fits, Accepted, Ended
<1> QED
  BY <1>1, <1>2, <1>3, ReadVerbKeeps, ReadSelectKeeps, ReadFromKeeps, ReadCreateKeeps,
     ReadInsertKeeps, ReadDeleteKeeps, ReadUpdateKeeps, ColumnItemKeeps, ValueItemKeeps,
     ColumnDefinitionKeeps, AssignmentKeeps, FilterItemKeeps, SelectClausesKeeps,
     OrderClauseKeeps
     DEF ParserNext

----------------------------------------------------------------------------
(* Where the pointer is.                                                   *)

\* How many tokens have been read; tok is what is left.
Read == Len(input) - Len(tok)

Behind ==
    /\ input \in Seq(Token)
    /\ Len(tok) <= Len(input)
    /\ \A i \in 1 .. Len(tok) : tok[i] = input[Read + i]

\* The words that a filter comes after.
BeforeFilter == {<<"where">>, <<"and">>, <<"or">>}

\* In the list of an INSERT: none of its tokens so far has ended it.
InsertGoesOn ==
    /\ Read >= 4
    /\ input[1] = <<"insert">>
    /\ \A i \in 5 .. Read : ~EndsWith(input[i], ")")

\* A token of a list after which another is due.
Announces(token) == EndsWith(token, ",")

\* In the list of a SELECT: the last token read, if all are, has announced another.
SelectGoesOn == tok = <<>> => input # <<>> /\ Announces(Last(input))

\* What the tokens read are at the places where a null token may be followed.
Path ==
    /\ at = "verb" => Read = 0
    /\ at = "insert" => Read = 1 /\ input[1] = <<"insert">>
    /\ at = "list" /\ query.type = "INSERT" => InsertGoesOn
    /\ at = "list" /\ query.type = "SELECT" => SelectGoesOn
    /\ at = "filter" => Read >= 1 /\ input[Read] \in BeforeFilter

Outcomes == {"PENDING", "RESULT_OK", "RESULT_ERR_SQL_PARSE", "fatal", "segfault"}

CursorInv ==
    /\ Behind
    /\ Path
    /\ outcome \in Outcomes
    /\ outcome = "segfault" => Unfinished

\* The pointer moves on by n tokens.
LEMMA MovesOn ==
    ASSUME ParserInv, Behind, NEW n \in 0 .. Len(tok), NEW label, NEW q,
           Goto(label, Skip(n), q)
    PROVE  /\ Behind'
           /\ input' = input
           /\ Read' = Read + n
           /\ Len(tok') = Len(tok) - n
           /\ n > 0 => input[Read'] = tok[n]
<1>1. tok \in Seq(Token) /\ Len(tok) \in Nat /\ input \in Seq(Token) /\ Len(input) \in Nat
  BY DEF ParserInv, Behind
<1>2. /\ tok' = SubSeq(tok, n + 1, Len(tok))
      /\ input' = input
  BY DEF Goto, Skip
<1>3. /\ Len(tok') = Len(tok) - n
      /\ \A i \in 1 .. Len(tok') : tok'[i] = tok[n + i]
  BY <1>1, <1>2
<1>0. input' = input
  BY <1>2
<1>4. Read' = Read + n
  <2>1. Read' = Len(input) - Len(tok')
    BY <1>0 DEF Read
  <2>2. Len(tok') = Len(tok) - n /\ n \in Int
    BY <1>3
  <2> QED
    BY <1>1, <2>1, <2>2 DEF Read
<1>5. ASSUME NEW i \in 1 .. Len(tok')
      PROVE  tok'[i] = input[Read' + i]
  <2>1. n + i \in 1 .. Len(tok)
    BY <1>1, <1>3
  <2>2. tok[n + i] = input[Read + (n + i)]
    BY <2>1 DEF Behind
  <2>3. Read + (n + i) = Read' + i
    BY <1>1, <1>4 DEF Read
  <2> QED
    BY <1>3, <2>2, <2>3
<1>6. Behind'
  BY <1>1, <1>2, <1>3, <1>5 DEF Behind
<1>7. n > 0 => input[Read'] = tok[n]
  BY <1>1, <1>4 DEF Behind
<1> QED
  BY <1>2, <1>3, <1>4, <1>6, <1>7

\* The pointer stays.
LEMMA StaysHere ==
    ASSUME ParserInv, NEW label, NEW q, Goto(label, tok, q)
    PROVE  Goto(label, Skip(0), q)
<1>1. SubSeq(tok, 1, Len(tok)) = tok
  BY DEF ParserInv
<1>2. Skip(0) = tok
  BY <1>1 DEF Skip
<1> QED
  BY <1>2

\* A step to a place where no null token is followed.
LEMMA PlainGotoKeeps ==
    ASSUME ParserInv, CursorInv, at # "ended", NEW n \in 0 .. Len(tok), NEW q,
           NEW label \in Places \ {"verb", "insert", "list", "filter"},
           Goto(label, Skip(n), q)
    PROVE  CursorInv'
<1>1. Behind' /\ at' = label /\ outcome' = outcome
  BY MovesOn DEF CursorInv, Goto
<1>2. outcome = "PENDING"
  BY DEF ParserInv
<1>3. Path'
  BY <1>1 DEF Path, Places
<1> QED
  BY <1>1, <1>2, <1>3 DEF CursorInv, Outcomes

\* A step to a filter, past the word it comes after.
LEMMA FilterGotoKeeps ==
    ASSUME ParserInv, CursorInv, at # "ended", NEW n \in Nat \ {0}, NEW q,
           NEW word \in {"where", "and", "or"}, Keyword(n, word), Goto("filter", Skip(n), q)
    PROVE  CursorInv'
<1>1. n \in 0 .. Len(tok) /\ tok[n] = <<word>>
  BY DEF Keyword, ParserInv
<1>2. Behind' /\ input' = input /\ Read' = Read + n /\ input[Read'] = tok[n]
  BY <1>1, MovesOn DEF CursorInv
<1>3. Read \in Nat
  BY DEF CursorInv, Behind, Read, ParserInv
<1>4. at' = "filter" /\ outcome' = "PENDING"
  BY DEF Goto, ParserInv
<1>5. Path'
  BY <1>1, <1>2, <1>3, <1>4 DEF Path, BeforeFilter
<1> QED
  BY <1>2, <1>4, <1>5 DEF CursorInv, Outcomes

\* Whether a statement is unfinished is a matter of its text.
LEMMA SameText ==
    ASSUME input' = input
    PROVE  Unfinished' <=> Unfinished
<1>2. (input = <<>>)' <=> input = <<>>
  OBVIOUS
<1>3. EndsWith(Last(input), ",")' <=> EndsWith(Last(input), ",")
  BY DEF EndsWith, Last
<1>4. (\A i \in 5 .. Len(input) : ~EndsWith(input[i], ")"))'
      <=> \A i \in 5 .. Len(input) : ~EndsWith(input[i], ")")
  BY DEF EndsWith, Last
<1>5. (Len(input) >= 2 /\ input[Len(input) - 1] \in {<<"where">>, <<"and">>, <<"or">>})'
      <=> Len(input) >= 2 /\ input[Len(input) - 1] \in {<<"where">>, <<"and">>, <<"or">>}
  OBVIOUS
<1> QED
  BY <1>2, <1>3, <1>4, <1>5, Zenon DEF Unfinished

\* The end, which follows a null token only if the statement is unfinished.
LEMMA StopKeeps ==
    ASSUME CursorInv, NEW how \in Outcomes, how = "segfault" => Unfinished, NEW q,
           Stop(how, q)
    PROVE  CursorInv'
<1>1. UNCHANGED <<input, tok>> /\ at' = "ended" /\ outcome' = how
  BY DEF Stop
<1>2. Behind'
  BY <1>1 DEF CursorInv, Behind, Read
<1>3. Unfinished' <=> Unfinished
  BY <1>1, SameText
<1>4. Path'
  BY <1>1 DEF Path
<1> QED
  BY <1>1, <1>2, <1>3, <1>4 DEF CursorInv

LEMMA EndingsKeep ==
    ASSUME CursorInv, (\E q : Accept(q)) \/ Refuse \/ Die("fatal")
    PROVE  CursorInv'
  BY StopKeeps DEF Accept, Refuse, Die, Outcomes

\* The statement begins at its first token.
LEMMA InitCursor == ParserInit => CursorInv
<1> SUFFICES ASSUME ParserInit PROVE CursorInv
  OBVIOUS
<1>1. input \in Seq(Token) /\ tok = input /\ at = "verb" /\ outcome = "PENDING"
  BY ParserAssumption DEF ParserInit
<1>2. Read = 0
  BY <1>1 DEF Read
<1> QED
  BY <1>1, <1>2 DEF CursorInv, Behind, Path, Outcomes

LEMMA ReadVerbCursor == ParserInv /\ CursorInv /\ ReadVerb => CursorInv'
<1> SUFFICES ASSUME ParserInv, CursorInv, ReadVerb PROVE CursorInv'
  OBVIOUS
<1>1. Read = 0 /\ at = "verb" /\ tok \in Seq(Token) /\ input \in Seq(Token)
  BY DEF CursorInv, Path, Behind, ReadVerb, ParserInv
<1>2. CASE tok = <<>> /\ Die("segfault")
  <2>1. input = <<>>
    BY <1>1, <1>2 DEF Read
  <2> QED
    BY <1>2, <2>1, StopKeeps DEF Die, Unfinished, Outcomes
<1>3. ASSUME NEW verb \in Verbs, Keyword(1, verb), Goto(verb, Skip(1), Blank[verb])
      PROVE  CursorInv'
  <2>1. 1 \in 0 .. Len(tok) /\ tok[1] = <<verb>>
    BY <1>1, <1>3 DEF Keyword
  <2>2. verb \in {"select", "create", "insert", "delete", "update"}
    BY DEF Verbs, Blank
  <2>3. CASE verb = "insert"
    <3>1. Behind' /\ Read' = 1 /\ input' = input /\ input[Read'] = tok[1]
      BY <1>1, <1>3, <2>1, MovesOn DEF CursorInv
    <3>2. at' = "insert" /\ outcome' = "PENDING"
      BY <1>1, <1>3, <2>3 DEF Goto, ParserInv
    <3>3. Path'
      BY <2>1, <2>3, <3>1, <3>2 DEF Path
    <3> QED
      BY <3>1, <3>2, <3>3 DEF CursorInv, Outcomes
  <2>4. CASE verb # "insert"
    <3>1. verb \in Places \ {"verb", "insert", "list", "filter"}
      BY <2>2, <2>4 DEF Places
    <3> QED
      BY <1>1, <1>3, <2>1, <3>1, PlainGotoKeeps
  <2> QED
    BY <2>3, <2>4
<1>4. CASE Refuse
  BY <1>4, EndingsKeep
<1> QED
  BY <1>2, <1>3, <1>4 DEF ReadVerb

LEMMA ReadSelectCursor == ParserInv /\ CursorInv /\ ReadSelect => CursorInv'
<1> SUFFICES ASSUME ParserInv, CursorInv, ReadSelect PROVE CursorInv'
  OBVIOUS
<1>1. query.type = "SELECT" /\ at = "select"
  BY DEF ParserInv, ReadSelect, Fits, Listing, SelectShape
<1>2. CASE Refuse
  BY <1>2, EndingsKeep
<1>3. CASE Keyword(1, "*") /\ Goto("from", Skip(1), [query EXCEPT !.columns = NoList])
  <2>1. 1 \in 0 .. Len(tok)
    BY <1>3, KeywordInside DEF ParserInv
  <2> QED
    BY <1>1, <1>3, <2>1, PlainGotoKeeps DEF Places
<1>4. CASE tok # <<>> /\ Goto("list", tok, query)
  <2>1. 0 \in 0 .. Len(tok)
    BY DEF ParserInv
  <2>2. Behind'
    BY <1>4, <2>1, StaysHere, MovesOn DEF CursorInv
  <2>3. at' = "list" /\ tok' = tok /\ query' = query /\ outcome' = "PENDING"
    BY <1>1, <1>4 DEF Goto, ParserInv
  <2>4. SelectGoesOn'
    BY <1>4, <2>3, Zenon DEF SelectGoesOn
  <2>5. Path'
    BY <1>1, <2>3, <2>4 DEF Path
  <2> QED
    BY <2>2, <2>3, <2>5 DEF CursorInv, Outcomes
<1> QED
  BY <1>2, <1>3, <1>4 DEF ReadSelect

LEMMA ReadFromCursor == ParserInv /\ CursorInv /\ ReadFrom => CursorInv'
<1> SUFFICES ASSUME ParserInv, CursorInv, ReadFrom PROVE CursorInv'
  OBVIOUS
<1>1. CASE Len(tok) >= 2 /\ Goto("clauses", Skip(2), [query EXCEPT !.table = tok[2]])
  <2>1. 2 \in 0 .. Len(tok) /\ at # "ended"
    BY <1>1 DEF ParserInv, ReadFrom
  <2> QED
    BY <1>1, <2>1, PlainGotoKeeps DEF Places
<1> QED
  BY <1>1, EndingsKeep DEF ReadFrom

LEMMA ReadCreateCursor == ParserInv /\ CursorInv /\ ReadCreate => CursorInv'
<1> SUFFICES ASSUME ParserInv, CursorInv, ReadCreate PROVE CursorInv'
  OBVIOUS
<1>1. CASE Keyword(3, "(") /\ Goto("column", Skip(3), [query EXCEPT !.table = tok[2]])
  <2>1. 3 \in 0 .. Len(tok) /\ at # "ended"
    BY <1>1, KeywordInside DEF ParserInv, ReadCreate
  <2> QED
    BY <1>1, <2>1, PlainGotoKeeps DEF Places
<1> QED
  BY <1>1, EndingsKeep DEF ReadCreate

LEMMA ReadInsertCursor == ParserInv /\ CursorInv /\ ReadInsert => CursorInv'
<1> SUFFICES ASSUME ParserInv, CursorInv, ReadInsert PROVE CursorInv'
  OBVIOUS
<1> DEFINE first == IF EndsWith(tok[4], ")") THEN Front(Tail(tok[4])) ELSE Tail(tok[4])
           q == [query EXCEPT !.table = tok[2], !.values = Split(first)]
<1>0. \/ Refuse
      \/ Len(tok) = 3 /\ Die("segfault")
      \/ Len(tok) > 3 /\ ~EndsWith(tok[4], ")") /\ Goto("list", Skip(4), q)
      \/ Accept(q)
  BY DEF ReadInsert
<1>1. /\ Read = 1 /\ input[1] = <<"insert">> /\ at = "insert"
      /\ tok \in Seq(Token) /\ input \in Seq(Token)
  BY DEF CursorInv, Path, Behind, ReadInsert, ParserInv
<1>2. InsertShape(query)
  BY DEF ParserInv, ReadInsert, Fits
<1>3. CASE Len(tok) = 3 /\ Die("segfault")
  <2>1. Len(input) = 4
    BY <1>1, <1>3 DEF Read
  <2>2. Unfinished
    BY <1>1, <2>1 DEF Unfinished
  <2> QED
    BY <1>3, <2>2, StopKeeps DEF Die, Outcomes
<1>4. CASE Len(tok) > 3 /\ ~EndsWith(tok[4], ")") /\ Goto("list", Skip(4), q)
  <2>1. 4 \in 0 .. Len(tok)
    BY <1>1, <1>4
  <2>2. Behind' /\ Read' = 5 /\ input' = input /\ input[Read'] = tok[4]
    BY <1>1, <1>4, <2>1, MovesOn DEF CursorInv
  <2>3. at' = "list" /\ query'.type = "INSERT" /\ outcome' = "PENDING"
    BY <1>1, <1>2, <1>4 DEF Goto, ParserInv, InsertShape
  <2>4. InsertGoesOn'
    <3>1. \A i \in 5 .. 5 : ~EndsWith(input[i], ")")
      BY <1>4, <2>2
    <3> QED
      BY <1>1, <2>2, <3>1 DEF InsertGoesOn
  <2>5. Path'
    BY <2>3, <2>4 DEF Path
  <2> QED
    BY <2>2, <2>3, <2>5 DEF CursorInv, Outcomes
<1> QED
  BY <1>0, <1>3, <1>4, EndingsKeep

\* The words after a statement's last name.
LEMMA WhereOrAcceptCursor ==
    ASSUME ParserInv, CursorInv, at # "ended", NEW n \in Nat, NEW q, WhereOrAccept(n, q)
    PROVE  CursorInv'
<1>1. CASE Keyword(n + 1, "where") /\ Goto("filter", Skip(n + 1), q)
  BY <1>1, FilterGotoKeeps
<1>2. CASE Accept(q)
  BY <1>2, EndingsKeep
<1> QED
  BY <1>1, <1>2 DEF WhereOrAccept

LEMMA ReadDeleteCursor == ParserInv /\ CursorInv /\ ReadDelete => CursorInv'
<1> SUFFICES ASSUME ParserInv, CursorInv, ReadDelete PROVE CursorInv'
  OBVIOUS
<1>1. at # "ended"
  BY DEF ReadDelete
<1> QED
  BY <1>1, WhereOrAcceptCursor, EndingsKeep DEF ReadDelete

LEMMA ReadUpdateCursor == ParserInv /\ CursorInv /\ ReadUpdate => CursorInv'
<1> SUFFICES ASSUME ParserInv, CursorInv, ReadUpdate PROVE CursorInv'
  OBVIOUS
<1>1. CASE Keyword(2, "set") /\ Goto("assign", Skip(2), [query EXCEPT !.table = tok[1]])
  <2>1. 2 \in 0 .. Len(tok) /\ at # "ended"
    BY <1>1, KeywordInside DEF ParserInv, ReadUpdate
  <2> QED
    BY <1>1, <2>1, PlainGotoKeeps DEF Places
<1> QED
  BY <1>1, EndingsKeep DEF ReadUpdate

\* The list has run out of tokens.
LEMMA ListRunsOutCursor == ParserInv /\ CursorInv /\ ListRunsOut => CursorInv'
<1> SUFFICES ASSUME ParserInv, CursorInv, ListRunsOut PROVE CursorInv'
  OBVIOUS
<1>1. at = "list" /\ tok = <<>> /\ Die("segfault")
  BY DEF ListRunsOut
<1>2. Read = Len(input) /\ Len(input) \in Nat
  BY <1>1 DEF Read, CursorInv, Behind
<1>3. query.type \in {"INSERT", "SELECT"}
  BY <1>1 DEF ParserInv, Fits, InsertShape, Listing, SelectShape
<1>4. CASE query.type = "INSERT"
  <2>1. InsertGoesOn
    BY <1>1, <1>4 DEF CursorInv, Path
  <2>2. input[1] = <<"insert">> /\ \A i \in 5 .. Len(input) : ~EndsWith(input[i], ")")
    BY <1>2, <2>1 DEF InsertGoesOn
  <2>3. Unfinished
    BY <2>2, Zenon DEF Unfinished
  <2> QED
    BY <1>1, <2>3, StopKeeps DEF Die, Outcomes
<1>5. CASE query.type = "SELECT"
  <2>1. SelectGoesOn
    BY <1>1, <1>5 DEF CursorInv, Path
  <2>2. Unfinished
    BY <1>1, <2>1, Zenon DEF SelectGoesOn, Announces, Unfinished
  <2> QED
    BY <1>1, <2>2, StopKeeps DEF Die, Outcomes
<1> QED
  BY <1>3, <1>4, <1>5

LEMMA ColumnItemCursor == ParserInv /\ CursorInv /\ ColumnItem => CursorInv'
<1> SUFFICES ASSUME ParserInv, CursorInv, ColumnItem PROVE CursorInv'
  OBVIOUS
<1> DEFINE q == [query EXCEPT !.columns = @ \o Split(tok[1])]
<1>0. at = "list" /\ query.type = "SELECT" /\ tok # <<>>
  BY Zenon DEF ColumnItem
<1>1. /\ at = "list" /\ query.type = "SELECT" /\ tok # <<>>
      /\ tok \in Seq(Token) /\ input \in Seq(Token) /\ Len(tok) <= Len(input)
  BY <1>0 DEF ParserInv, CursorInv, Behind
<1>2. 1 \in 0 .. Len(tok)
  BY <1>1
<1>3. q.type = "SELECT"
  <2>1. SelectShape(query)
    BY <1>1 DEF ParserInv, Fits, Listing, InsertShape
  <2> QED
    BY <2>1 DEF SelectShape
<1> HIDE DEF q
<1>4. CASE Announces(tok[1]) /\ Goto("list", Skip(1), q)
  <2>1. /\ Behind' /\ input' = input /\ Read' = Read + 1 /\ input[Read'] = tok[1]
        /\ Len(tok') = Len(tok) - 1
    BY <1>2, <1>4, MovesOn DEF CursorInv
  <2>2. at' = "list" /\ query' = q /\ outcome' = "PENDING"
    BY <1>1, <1>4 DEF Goto, ParserInv
  <2>3. ASSUME tok' = <<>>
        PROVE  input # <<>> /\ Last(input) = tok[1]
    <3>1. Len(tok') = 0
      BY <2>3
    <3>2. input' = input
      BY <2>1
    <3>3. Read' = Len(input) - Len(tok')
      BY <3>2 DEF Read
    <3>4. Len(input) \in Nat /\ Len(input) >= Len(tok) /\ Len(tok) >= 1
      BY <1>1, <1>2
    <3>5. Read' = Len(input) /\ input # <<>>
      BY <3>1, <3>3, <3>4
    <3> QED
      BY <2>1, <3>5 DEF Last
  <2>4. SelectGoesOn'
    BY <1>4, <2>1, <2>3, Zenon DEF SelectGoesOn
  <2>5. Path'
    BY <1>3, <2>2, <2>4 DEF Path
  <2> QED
    BY <2>1, <2>2, <2>5 DEF CursorInv, Outcomes
<1>5. CASE Goto("from", Skip(1), q)
  BY <1>1, <1>2, <1>5, PlainGotoKeeps DEF Places
<1>6. \/ Announces(tok[1]) /\ Goto("list", Skip(1), q)
      \/ Goto("from", Skip(1), q)
  BY Zenon DEF ColumnItem, Announces, q
<1> QED
  BY <1>4, <1>5, <1>6

LEMMA ValueItemCursor == ParserInv /\ CursorInv /\ ValueItem => CursorInv'
<1> SUFFICES ASSUME ParserInv, CursorInv, ValueItem PROVE CursorInv'
  OBVIOUS
<1> DEFINE q == [query EXCEPT !.values = @ \o Split(tok[1])]
<1>1. at = "list" /\ query.type = "INSERT" /\ tok # <<>> /\ tok \in Seq(Token)
  BY DEF ValueItem, ParserInv
<1>2. 1 \in 0 .. Len(tok)
  BY <1>1
<1>3. q.type = "INSERT"
  <2>1. InsertShape(query)
    BY <1>1 DEF ParserInv, Fits, Listing, SelectShape
  <2> QED
    BY <2>1 DEF InsertShape
<1>4. InsertGoesOn /\ Read \in Nat
  BY <1>1 DEF CursorInv, Path, Behind, Read, ParserInv
<1> HIDE DEF q
<1>5. CASE ~EndsWith(tok[1], ")") /\ Goto("list", Skip(1), q)
  <2>1. Behind' /\ input' = input /\ Read' = Read + 1 /\ input[Read'] = tok[1]
    BY <1>2, <1>5, MovesOn DEF CursorInv
  <2>2. at' = "list" /\ query' = q /\ outcome' = "PENDING"
    BY <1>1, <1>5 DEF Goto, ParserInv
  <2>3. ASSUME NEW i \in 5 .. Read'
        PROVE  ~EndsWith(input[i], ")")
    <3>1. i = Read' \/ i \in 5 .. Read
      BY <1>4, <2>1
    <3> QED
      BY <1>4, <1>5, <2>1, <3>1 DEF InsertGoesOn
  <2>4. InsertGoesOn'
    BY <1>4, <2>1, <2>3 DEF InsertGoesOn
  <2>5. Path'
    BY <1>3, <2>2, <2>4 DEF Path
  <2> QED
    BY <2>1, <2>2, <2>5 DEF CursorInv, Outcomes
<1>6. (\E v : Accept(v)) \/ (~EndsWith(tok[1], ")") /\ Goto("list", Skip(1), q))
  BY DEF ValueItem, q
<1> QED
  BY <1>5, <1>6, EndingsKeep

LEMMA ColumnDefinitionCursor == ParserInv /\ CursorInv /\ ColumnDefinition => CursorInv'
<1> SUFFICES ASSUME ParserInv, CursorInv, ColumnDefinition PROVE CursorInv'
  OBVIOUS
<1>1. \/ Refuse
      \/ \E q : Accept(q)
      \/ Len(tok) >= 2 /\ \E q : Goto("column", Skip(2), q)
  BY Zenon DEF ColumnDefinition
<1>0. at = "column"
  BY Zenon DEF ColumnDefinition
<1>2. at = "column" /\ tok \in Seq(Token)
  BY <1>0 DEF ParserInv
<1>3. ASSUME Len(tok) >= 2, NEW q, Goto("column", Skip(2), q)
      PROVE  CursorInv'
  <2>1. 2 \in 0 .. Len(tok)
    BY <1>2, <1>3
  <2> QED
    BY <1>2, <1>3, <2>1, PlainGotoKeeps DEF Places
<1> QED
  BY <1>1, <1>3, EndingsKeep

LEMMA AssignmentCursor == ParserInv /\ CursorInv /\ Assignment => CursorInv'
<1> SUFFICES ASSUME ParserInv, CursorInv, Assignment PROVE CursorInv'
  OBVIOUS
<1>0. /\ at = "assign"
      /\ \/ Refuse
         \/ IsAssignment /\ Goto("assign", Skip(3), Assigned)
         \/ WhereOrAccept(3, Assigned)
  BY Zenon DEF Assignment
<1>1. at = "assign" /\ tok \in Seq(Token)
  BY <1>0 DEF ParserInv
<1>2. CASE IsAssignment /\ Goto("assign", Skip(3), Assigned)
  <2>1. 3 \in 0 .. Len(tok)
    BY <1>1, <1>2 DEF IsAssignment
  <2> QED
    BY <1>1, <1>2, <2>1, PlainGotoKeeps DEF Places
<1>3. CASE WhereOrAccept(3, Assigned)
  BY <1>1, <1>3, WhereOrAcceptCursor
<1> QED
  BY <1>0, <1>2, <1>3, EndingsKeep

LEMMA FilterFailsCursor == ParserInv /\ CursorInv /\ FilterFails => CursorInv'
<1> SUFFICES ASSUME ParserInv, CursorInv, FilterFails PROVE CursorInv'
  OBVIOUS
<1>1. /\ at = "filter" /\ Read >= 1 /\ input[Read] \in BeforeFilter
      /\ tok \in Seq(Token) /\ input \in Seq(Token)
  BY DEF FilterFails, CursorInv, Path, Behind, ParserInv
<1>2. CASE Len(tok) = 1 /\ Die("segfault")
  <2>1. Read = Len(input) - 1 /\ Len(input) >= 2
    BY <1>1, <1>2 DEF Read
  <2>2. input[Len(input) - 1] \in {<<"where">>, <<"and">>, <<"or">>}
    BY <1>1, <2>1 DEF BeforeFilter
  <2>3. Unfinished
    BY <2>1, <2>2, Zenon DEF Unfinished
  <2> QED
    BY <1>2, <2>3, StopKeeps DEF Die, Outcomes
<1>3. (Len(tok) = 1 /\ Die("segfault")) \/ Die("fatal")
  BY DEF FilterFails
<1> QED
  BY <1>2, <1>3, EndingsKeep

LEMMA FilterItemCursor == ParserInv /\ CursorInv /\ FilterItem => CursorInv'
<1> SUFFICES ASSUME ParserInv, CursorInv, FilterItem PROVE CursorInv'
  OBVIOUS
<1>1. at = "filter" /\ Len(tok) >= 3 /\ tok \in Seq(Token)
  BY DEF FilterItem, ParserInv
<1>2. \/ \E word \in {"and", "or"} : \E q : Keyword(4, word) /\ Goto("filter", Skip(4), q)
      \/ \E q : FiltersDone(q)
  <2>1. DOMAIN Relations = {"and", "or"}
    BY DEF Relations
  <2> QED
    BY <2>1, Zenon DEF FilterItem
<1>3. ASSUME NEW word \in {"and", "or"}, NEW q, Keyword(4, word), Goto("filter", Skip(4), q)
      PROVE  CursorInv'
  BY <1>1, <1>3, FilterGotoKeeps
<1>4. ASSUME NEW q, Goto("order", Skip(3), q)
      PROVE  CursorInv'
  <2>1. 3 \in 0 .. Len(tok)
    BY <1>1
  <2> QED
    BY <1>1, <1>4, <2>1, PlainGotoKeeps DEF Places
<1> QED
  BY <1>2, <1>3, <1>4, EndingsKeep DEF FiltersDone

LEMMA SelectClausesCursor == ParserInv /\ CursorInv /\ SelectClauses => CursorInv'
<1> SUFFICES ASSUME ParserInv, CursorInv, SelectClauses PROVE CursorInv'
  OBVIOUS
<1>1. at = "clauses" /\ tok \in Seq(Token)
  BY DEF SelectClauses, ParserInv
<1>2. CASE Keyword(1, "where") /\ Goto("filter", Skip(1), [query EXCEPT !.filters = <<>>])
  BY <1>1, <1>2, FilterGotoKeeps
<1>3. CASE Goto("order", tok, query)
  <2>1. 0 \in 0 .. Len(tok) /\ Goto("order", Skip(0), query)
    BY <1>1, <1>3, StaysHere
  <2> QED
    BY <1>1, <2>1, PlainGotoKeeps DEF Places
<1> QED
  BY <1>2, <1>3, EndingsKeep DEF SelectClauses

LEMMA OrderClauseCursor == ParserInv /\ CursorInv /\ OrderClause => CursorInv'
<1> SUFFICES ASSUME ParserInv, CursorInv, OrderClause PROVE CursorInv'
  OBVIOUS
<1>1. at = "order" /\ tok \in Seq(Token)
  BY DEF OrderClause, ParserInv
<1>2. ASSUME NEW q, OrderBy, Goto("clauses", Skip(4), q)
      PROVE  CursorInv'
  <2>1. 4 \in 0 .. Len(tok)
    BY <1>1, <1>2 DEF OrderBy
  <2> QED
    BY <1>1, <1>2, <2>1, PlainGotoKeeps DEF Places
<1>3. CASE Goto("clauses", tok, query)
  <2>1. 0 \in 0 .. Len(tok) /\ Goto("clauses", Skip(0), query)
    BY <1>1, <1>3, StaysHere
  <2> QED
    BY <1>1, <2>1, PlainGotoKeeps DEF Places
<1> QED
  BY <1>2, <1>3, EndingsKeep DEF OrderClause

LEMMA StepCursor == ParserInv /\ CursorInv /\ [ParserNext]_parserVars => CursorInv'
<1> SUFFICES ASSUME ParserInv, CursorInv, [ParserNext]_parserVars PROVE CursorInv'
  OBVIOUS
<1>1. CASE UNCHANGED parserVars
  <2>1. UNCHANGED <<input, tok, at, query, outcome>>
    BY <1>1 DEF parserVars
  <2>2. Behind'
    BY <2>1 DEF CursorInv, Behind, Read
  <2>3. UNCHANGED Read /\ (InsertGoesOn' <=> InsertGoesOn)
    BY <2>1 DEF Read, InsertGoesOn, EndsWith, Last
  <2>4. (SelectGoesOn' <=> SelectGoesOn)
    BY <2>1, Zenon DEF SelectGoesOn
  <2>5. Path'
    BY <2>1, <2>3, <2>4 DEF CursorInv, Path
  <2>6. Unfinished' <=> Unfinished
    BY <2>1, SameText
  <2> QED
    BY <2>1, <2>2, <2>5, <2>6 DEF CursorInv
<1> QED
  BY <1>1, ReadVerbCursor, ReadSelectCursor, ReadFromCursor, ReadCreateCursor,
     ReadInsertCursor, ReadDeleteCursor, ReadUpdateCursor, ListRunsOutCursor,
     ColumnItemCursor, ValueItemCursor, ColumnDefinitionCursor, AssignmentCursor,
     FilterFailsCursor, FilterItemCursor, SelectClausesCursor, OrderClauseCursor
     DEF ParserNext

\* What may be accepted is what the interpreter relies on.
LEMMA SuitableSuits == ParserInv => QueriesSuitTheInterpreter
<1> SUFFICES ASSUME ParserInv, Accepted
             PROVE  /\ query.type = "CREATE" =>
                          Len(query.types) = Len(query.columns) /\ query.columns # <<>>
                    /\ query.type = "UPDATE" =>
                          Len(query.values) = Len(query.columns) /\ query.columns # <<>>
                    /\ query.type \in {"SELECT", "DELETE", "UPDATE"} =>
                          Closed(query.filters)
  BY DEF QueriesSuitTheInterpreter, Closed
<1>1. Suitable(query)
  BY DEF ParserInv
<1> QED
  BY <1>1 DEF Suitable, SelectShape, CreateShape, InsertShape, DeleteShape, UpdateShape

\* What is left of the statement is a suffix of it.
LEMMA LeftIsSuffix == ParserInv /\ CursorInv => IsSuffix(tok, input)
<1> SUFFICES ASSUME ParserInv, CursorInv PROVE IsSuffix(tok, input)
  OBVIOUS
<1>1. /\ tok \in Seq(Token) /\ Len(tok) \in Nat /\ input \in Seq(Token) /\ Len(input) \in Nat
      /\ Len(tok) <= Len(input)
  BY DEF ParserInv, CursorInv, Behind
<1> DEFINE left == Reverse(tok)
           whole == Reverse(input)
<1>2. /\ left \in Seq(Token) /\ Len(left) = Len(tok)
      /\ whole \in Seq(Token) /\ Len(whole) = Len(input)
  BY <1>1 DEF Reverse
<1>3. ASSUME NEW i \in 1 .. Len(tok)
      PROVE  left[i] = whole[i]
  <2>1. left[i] = tok[(Len(tok) - i) + 1] /\ whole[i] = input[(Len(input) - i) + 1]
    BY <1>1 DEF Reverse
  <2>2. (Len(tok) - i) + 1 \in 1 .. Len(tok)
    BY <1>1
  <2>3. tok[(Len(tok) - i) + 1] = input[Read + ((Len(tok) - i) + 1)]
    BY <2>2 DEF CursorInv, Behind
  <2>4. Read + ((Len(tok) - i) + 1) = (Len(input) - i) + 1
    BY <1>1 DEF Read
  <2> QED
    BY <2>1, <2>3, <2>4
<1> HIDE DEF left, whole
<1>4. SubSeq(left, 1, Len(left)) = SubSeq(whole, 1, Len(left))
  BY <1>1, <1>2, <1>3
<1> QED
  BY <1>1, <1>2, <1>4 DEF IsSuffix, IsPrefix, left, whole

\* The records that the parser builds are those of struct Query.
LEMMA FormedIsQuery ==
    ASSUME NEW q, Formed(q)
    PROVE  q \in QueryRecord
  BY DEF Formed, SelectShape, CreateShape, InsertShape, DeleteShape, UpdateShape, QueryRecord

LEMMA TypesHold == ParserInv /\ CursorInv => ParserTypeOK
<1> SUFFICES ASSUME ParserInv, CursorInv PROVE ParserTypeOK
  OBVIOUS
<1>1. input \in Seq(Token) /\ IsSuffix(tok, input)
  BY LeftIsSuffix DEF CursorInv, Behind
<1>2. at \in Verbs \cup {"verb", "from", "list", "column", "assign", "filter", "clauses",
                         "order", "ended"}
  BY DEF ParserInv, Places, Verbs, Blank
<1>3. query \in QueryRecord \cup {NoQuery}
  <2>1. Fits(at, query) /\ at \in Places \cup {"ended"}
    BY DEF ParserInv
  <2>2. query = NoQuery \/ Formed(query)
    BY <2>1, FitsIsFormed DEF Fits
  <2> QED
    BY <2>2, FormedIsQuery
<1>4. outcome \in {"PENDING", "RESULT_OK", "RESULT_ERR_SQL_PARSE", "fatal", "segfault"}
  BY DEF CursorInv, Outcomes
<1> QED
  BY <1>1, <1>2, <1>3, <1>4 DEF ParserTypeOK

----------------------------------------------------------------------------

LEMMA AlwaysParserInv == ParserSpec => [](ParserInv /\ CursorInv)
<1>1. ParserInit => ParserInv /\ CursorInv
  BY InitKeeps, InitCursor
<1>2. ParserInv /\ CursorInv /\ [ParserNext]_parserVars => (ParserInv /\ CursorInv)'
  BY StepKeeps, StepCursor
<1> QED
  BY <1>1, <1>2, PTL DEF ParserSpec

\* Whatever the tokens of a statement, the parser's pointer stays in its list and
\* what it builds is a query: its lists hold tokens, pieces of the statement's
\* lists included, and only as SELECT * a null list.
THEOREM ParserTypes == ParserSpec => []ParserTypeOK
<1> QED
  BY AlwaysParserInv, TypesHold, PTL

\* Whatever the tokens of a statement, a null token is followed only where the
\* statement ends early: at its very beginning, after a comma of a list, in the
\* list of an INSERT, after the column of a filter (parser.c:932, 110, 75, 105,
\* 279); at every other place the parser looks first.
THEOREM OnlyUnfinishedSegfault == ParserSpec => []OnlyUnfinishedStatementsSegfault
<1>1. CursorInv => OnlyUnfinishedStatementsSegfault
  BY DEF CursorInv, OnlyUnfinishedStatementsSegfault
<1> QED
  BY <1>1, AlwaysParserInv, PTL

\* Every query the parser accepts, whatever the statement, has a type for each
\* column it creates and a value for each it assigns, at least one, and only its
\* last filter stands without a relation: what the interpreter indexes and loops
\* by without a check (interpreter.c:384, 251, 213).
THEOREM QueriesAreSuitable == ParserSpec => []QueriesSuitTheInterpreter
<1> QED
  BY AlwaysParserInv, SuitableSuits, PTL

============================================================================
