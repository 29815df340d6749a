--------------------------- MODULE BazaSqlProofs ---------------------------
(***************************************************************************)
(* Every query that is handled right does what its statement means: the    *)
(* proof that BazaInterpreter, with the history of BazaSqlRefinement,      *)
(* implements BazaSql, for every value of the constants.                   *)
(***************************************************************************)
EXTENDS BazaSqlRefinement, BazaInterpreterProofs

----------------------------------------------------------------------------
(* BazaSql computes with values as the interpreter does.                   *)

LEMMA SameTypes == /\ \A type : Sql!IsIntegral(type) <=> IsIntegral(type)
                   /\ Sql!BaseType = BaseType
BY DEF Sql!IsIntegral, IsIntegral, Sql!BaseType, BaseType

LEMMA SameBaseType ==
    ASSUME NEW text
    PROVE  Sql!BaseTypeFromStr(text) = BaseTypeFromStr(text)
BY DEF Sql!BaseTypeFromStr, BaseTypeFromStr

LEMMA SameConverts ==
    ASSUME NEW text
    PROVE  Sql!Converts(text) <=> Converts(text)
BY DEF Sql!Converts, Converts

LEMMA SameSlotValue ==
    ASSUME NEW type, NEW text
    PROVE  Sql!SlotValue(type, text) = SlotValue(type, text)
BY DEF Sql!SlotValue, SlotValue, Sql!Signed, Signed, Sql!StrToInt, StrToInt,
       Sql!Saturate, Saturate

LEMMA SameFilterHolds ==
    ASSUME NEW op, NEW type, NEW left, NEW text
    PROVE  Sql!FilterHolds(op, type, left, text) = FilterHolds(op, type, left, text)
BY SameSlotValue DEF Sql!FilterHolds, FilterHolds

LEMMA SameFunctions == Sql!FilterFunctions = FilterFunctions
BY DEF Sql!FilterFunctions, FilterFunctions

----------------------------------------------------------------------------
(* WHERE, filter by filter.                                                *)

\* One turn of the fold of Sql!Satisfies.
Judged(tab, row, acc, f) ==
    [holds |-> Sql!Joined(acc.relation, acc.holds, Sql!Passes(tab, row, f)),
     relation |-> f.next_relation]

Judges(g, tab, row, filters) ==
    /\ g[0] = [holds |-> TRUE, relation |-> "NONE"]
    /\ \A k \in 1 .. Len(filters) : g[k] = Judged(tab, row, g[k - 1], filters[k])
    /\ Sql!Satisfies(tab, row, filters) = g[Len(filters)].holds

LEMMA SatisfyTurns ==
    ASSUME NEW tab, NEW row, NEW filters, filters \in Seq(ToSet(filters)),
           \A i \in DOMAIN filters : filters[i].next_relation \in {"NONE", "AND", "OR"}
    PROVE  \E g : Judges(g, tab, row, filters)
<1> DEFINE n == Len(filters)
           X == [holds : BOOLEAN \cup {Sql!Passes(tab, row, filters[k]) : k \in 1 .. n},
                 relation : {"NONE", "AND", "OR"}]
           base == [holds |-> TRUE, relation |-> "NONE"]
           Turn(acc, k) == Judged(tab, row, acc, filters[k])
           Graph(it) == it = [s \in SUBSET DOMAIN filters |->
                                 IF s = {} THEN base ELSE Turn(it[s \ {Max(s)}], Max(s))]
           iter == CHOOSE it : Graph(it)
           Op == [p \in X \X (1 .. n) |-> Turn(p[1], p[2])]
           g == Along(iter, n)
<1>1. DOMAIN filters = 1 .. n /\ n \in Nat
  OBVIOUS
<1>2. Sql!Satisfies(tab, row, filters) = iter[1 .. n].holds
  BY <1>1 DEF Sql!Satisfies, Sql!FoldLeft, Sql!MapThenFoldSet, Judged, Sql!Max, Max
<1>3. Op \in [X \X (1 .. n) -> X] /\ base \in X
  BY <1>1 DEF Judged, Sql!Joined
<1>4. \E it : Graph(it)
  <2>. HIDE DEF Op, base, X, Turn
  <2>1. PICK it : IsFold(it, n, X, base, Op)
    BY <1>1, <1>3, FoldExists
  <2>2. it \in [SUBSET (1 .. n) -> X] /\ it[{}] = base
    BY <2>1 DEF IsFold
  <2>3. ASSUME NEW s \in SUBSET (1 .. n), s # {}
        PROVE  it[s] = Turn(it[s \ {Max(s)}], Max(s))
    <3>1. Max(s) \in 1 .. n
      BY <2>3, <1>1, GreatestNumber
    <3>2. <<it[s \ {Max(s)}], Max(s)>> \in X \X (1 .. n)
      BY <2>2, <3>1
    <3>3. it[s] = Op[<<it[s \ {Max(s)}], Max(s)>>]
      BY <2>1, <2>3 DEF IsFold
    <3>. QED BY <3>2, <3>3 DEF Op
  <2>4. Graph(it)
    BY <1>1, <2>2, <2>3
  <2>. QED BY <2>4, Zenon
<1>5. Graph(iter)
  BY <1>4, Zenon
<1>6. iter[{}] = base
  BY <1>5, Zenon
<1>7. ASSUME NEW k \in 1 .. n
      PROVE  iter[1 .. k] = Turn(iter[(1 .. k) \ {Max(1 .. k)}], Max(1 .. k))
  <2>1. 1 .. k \in SUBSET DOMAIN filters /\ 1 .. k # {}
    BY <1>1, FirstTurns
  <2>. HIDE DEF iter, Turn
  <2>. QED BY <1>5, <2>1
<1>8. TurnsOf(g, iter, n)
  BY <1>1, FoldTurns, Zenon
<1>. HIDE DEF iter, g
<1>9. \A k \in 1 .. n : g[k] = Judged(tab, row, g[k - 1], filters[k])
  BY <1>7, <1>8 DEF TurnsOf
<1>10. Judges(g, tab, row, filters)
  BY <1>2, <1>6, <1>8, <1>9 DEF TurnsOf, Judges
<1>. QED BY <1>10

----------------------------------------------------------------------------
(* Lookups.                                                                *)

\* The columns of a table have different names.
NamesDiffer(db) ==
    \A t \in DOMAIN db : \A c, d \in DOMAIN db[t].columns :
        db[t].columns[c].name = db[t].columns[d].name => c = d

\* Nothing is being done, and what is stored is what the last query left.
Quiet == TypeInv /\ status = "up" /\ ~Filling /\ committed.db = Contents /\ NamesDiffer(Contents)

LEMMA SeenTable ==
    ASSUME Quiet, NEW t \in DOMAIN tables
    PROVE  /\ t \in DOMAIN Contents
           /\ Contents[t].name = tables[t].name
           /\ DOMAIN Contents[t].columns = Columns(t)
           /\ \A c \in Columns(t) : /\ Contents[t].columns[c].name = tables[t].columns[c].name
                                    /\ Contents[t].columns[c].type = TypeOf(t, c)
           /\ Contents[t].rows = [r \in 1 .. tables[t].row_count |->
                                    [c \in Columns(t) |-> ValueAt(t, r - 1, c)]]
<1>1. Contents[t] = TableContents(t) /\ t \in DOMAIN Contents
  BY DEF Contents, Quiet
<1>2. CompleteRows(t) = tables[t].row_count
  BY DEF CompleteRows, Quiet
<1>3. Contents[t] = [name |-> tables[t].name,
                     columns |-> [c \in Columns(t) |-> [name |-> tables[t].columns[c].name,
                                                        type |-> tables[t].columns[c].type]],
                     rows |-> [r \in 1 .. tables[t].row_count |->
                                  [c \in Columns(t) |-> ValueAt(t, r - 1, c)]]]
  BY <1>1, <1>2 DEF TableContents
<1>. QED BY <1>1, <1>3 DEF TypeOf

LEMMA SameTables ==
    ASSUME Quiet, NEW name
    PROVE  Sql!TablesCalled(name) = TablesNamed(name)
<1>1. DOMAIN Contents = DOMAIN tables
  BY DEF Contents, Quiet
<1>2. \A t \in DOMAIN tables : Contents[t].name = tables[t].name
  BY SeenTable
<1>. QED BY <1>1, <1>2 DEF Sql!TablesCalled, TablesNamed, Quiet

LEMMA SameTableCalled ==
    ASSUME Quiet, NEW name, TablesNamed(name) # {}
    PROVE  Sql!TableCalled(name) = TableNamed(name)
<1> DEFINE S == TablesNamed(name)
<1>1. S \in SUBSET Nat
  BY DEF TablesNamed, Quiet, TypeInv
<1>2. Sql!TablesCalled(name) = S
  BY SameTables
<1>3. Sql!TableCalled(name) = CHOOSE t \in S : \A u \in S : t <= u
  BY <1>2 DEF Sql!TableCalled
<1>4. TableNamed(name) = CHOOSE t \in S : IsFirst(t, S)
  BY DEF TableNamed
<1>. HIDE DEF S
<1>5. \A t \in S : IsFirst(t, S) <=> \A u \in S : t <= u
  BY DEF IsFirst
<1>6. (CHOOSE t \in S : IsFirst(t, S)) = CHOOSE t \in S : \A u \in S : t <= u
  BY <1>5
<1>. QED BY <1>3, <1>4, <1>6

LEMMA SameColumn ==
    ASSUME Quiet, NEW t \in DOMAIN tables, NEW name
    PROVE  /\ ColumnsNamed(tables[t], name) # {} <=> name \in Sql!Names(Contents[t])
           /\ \A c \in ColumnsNamed(tables[t], name) :
                 /\ c \in Columns(t)
                 /\ Sql!ColumnCalled(Contents[t], name) = c
                 /\ ColumnsNamed(tables[t], name) = {c}
<1>1. /\ t \in DOMAIN Contents
      /\ DOMAIN Contents[t].columns = Columns(t)
      /\ \A c \in Columns(t) : Contents[t].columns[c].name = tables[t].columns[c].name
  BY SeenTable
<1>2. ColumnsNamed(tables[t], name) = {c \in Columns(t) : Contents[t].columns[c].name = name}
  BY <1>1 DEF ColumnsNamed, Columns
<1>3. ASSUME NEW c \in ColumnsNamed(tables[t], name)
      PROVE  /\ c \in Columns(t)
             /\ Sql!ColumnCalled(Contents[t], name) = c
             /\ ColumnsNamed(tables[t], name) = {c}
  <2>1. \A d \in DOMAIN Contents[t].columns : Contents[t].columns[d].name = name <=> d = c
    BY <1>1, <1>2 DEF Quiet, NamesDiffer
  <2>2. (CHOOSE d \in DOMAIN Contents[t].columns : Contents[t].columns[d].name = name) = c
    BY <1>1, <1>2, <2>1
  <2>. QED BY <1>1, <1>2, <2>1, <2>2 DEF Sql!ColumnCalled
<1>. QED BY <1>1, <1>2, <1>3 DEF Sql!Names

\* The first column of a name is the column of that name.
LEMMA FirstColumn ==
    ASSUME Quiet, NEW t \in DOMAIN tables, NEW name, NEW named,
           named = ColumnsNamed(tables[t], name), NEW c \in named
    PROVE  (CHOOSE d \in named : IsFirst(d, named)) = c
<1>1. named = {c}
  BY SameColumn
<1>2. c \in Nat
  BY Lengths, SameColumn DEF Quiet
<1>3. IsFirst(c, named)
  BY <1>1, <1>2 DEF IsFirst
<1>. QED BY <1>1, <1>3

----------------------------------------------------------------------------
(* WHERE, against the interpreter.                                         *)

\* What one turn of filter_interpret's loop does, said with BazaSql.
TurnAgrees(t, acc, f) ==
    LET found == FilterTurn(t, acc, f)
    IN  /\ found.res # "SIGSEGV"
        /\ found.res = "RESULT_OK" <=> Sql!FilterValid(Contents[t], f)
        /\ found.res = "RESULT_OK" =>
              /\ found.relation = f.next_relation
              /\ \E rows \in Seq(Slots(tables[t].row_count)) :
                    /\ found.rows = Combine(acc.relation, acc.rows, rows)
                    /\ \A r \in 1 .. tables[t].row_count :
                          r - 1 \in ToSet(rows) <=> Sql!Passes(Contents[t], Contents[t].rows[r], f)

LEMMA RowBelow ==
    ASSUME NEW n \in Nat
    PROVE  \A r \in 1 .. n : r - 1 \in Slots(n) /\ (r - 1) + 1 = r
BY DEF Slots

LEMMA RowIdsSet ==
    ASSUME NEW t, tables[t].row_count \in Nat
    PROVE  ToSet(RowIds(t)) = Slots(tables[t].row_count)
<1> DEFINE n == tables[t].row_count
<1>1. DOMAIN RowIds(t) = 1 .. n /\ \A i \in 1 .. n : RowIds(t)[i] = i - 1
  BY DEF RowIds
<1>2. ASSUME NEW x \in Slots(n) PROVE x \in ToSet(RowIds(t))
  <2>1. x + 1 \in 1 .. n /\ RowIds(t)[x + 1] = x
    BY <1>1 DEF Slots
  <2>. QED BY <1>1, <2>1 DEF ToSet
<1>3. ASSUME NEW x \in ToSet(RowIds(t)) PROVE x \in Slots(n)
  BY <1>1 DEF ToSet, Slots
<1>. QED BY <1>2, <1>3

\* The rows table_find returns are those of which BazaSql says they pass.
LEMMA FindsThePassing ==
    ASSUME Quiet, NEW t \in DOMAIN tables, NEW f, NEW c \in ColumnsNamed(tables[t], f.column),
           NEW r \in 1 .. tables[t].row_count
    PROVE  /\ TableFind(t, c, f) \in Seq(Slots(tables[t].row_count))
           /\ r - 1 \in ToSet(TableFind(t, c, f)) <=>
                 Sql!Passes(Contents[t], Contents[t].rows[r], f)
<1> DEFINE n == tables[t].row_count
           V == Slots(n)
           passing == {s \in V : FilterHolds(f.op, TypeOf(t, c), ValueAt(t, s, c), f.value)}
<1>1. n \in Nat /\ r - 1 \in V /\ (r - 1) + 1 = r
  <2>1. n \in Nat
    BY TableFacts DEF Quiet
  <2>. QED BY <2>1, RowBelow
<1>2. RowIds(t) \in Seq(V) /\ ToSet(RowIds(t)) = V
  BY <1>1, RowIdsFacts, RowIdsSet
<1>3. TableFind(t, c, f) = Picked(RowIds(t), passing)
  BY DEF TableFind
<1>4. c \in Columns(t) /\ Sql!ColumnCalled(Contents[t], f.column) = c
  BY SameColumn
<1>5. /\ Contents[t].columns[c].type = TypeOf(t, c)
      /\ Contents[t].rows[r][c] = ValueAt(t, r - 1, c)
  <2>1. Contents[t].columns[c].type = TypeOf(t, c)
    BY <1>4, SeenTable
  <2>2. Contents[t].rows = [i \in 1 .. n |-> [d \in Columns(t) |-> ValueAt(t, i - 1, d)]]
    BY SeenTable
  <2>3. r \in 1 .. n
    OBVIOUS
  <2>. HIDE DEF n
  <2>. QED BY <1>4, <2>1, <2>2, <2>3
<1>6. Sql!Passes(Contents[t], Contents[t].rows[r], f)
        = FilterHolds(f.op, TypeOf(t, c), ValueAt(t, r - 1, c), f.value)
  BY <1>4, <1>5, SameFilterHolds DEF Sql!Passes
<1>7. r - 1 \in passing <=> FilterHolds(f.op, TypeOf(t, c), ValueAt(t, r - 1, c), f.value)
  BY <1>1
<1>. HIDE DEF passing, V
<1>8. ToSet(TableFind(t, c, f)) = V \cap passing
  BY <1>2, <1>3, PickedSet
<1>9. TableFind(t, c, f) \in Seq(V)
  BY <1>1, TableFindFacts DEF V
<1>. QED BY <1>1, <1>6, <1>7, <1>8, <1>9 DEF V

LEMMA TurnsAgree ==
    ASSUME Quiet, NEW t \in DOMAIN tables, NEW n, NEW noOr, NEW unknown,
           NEW acc \in Found(n, noOr, unknown), acc.res = "RESULT_OK",
           NEW f, f.op \in FilterFunctions
    PROVE  TurnAgrees(t, acc, f)
<1> DEFINE named == ColumnsNamed(tables[t], f.column)
           c == CHOOSE c \in named : IsFirst(c, named)
           refused == IsIntegral(TypeOf(t, c)) /\ ~Converts(f.value)
<1>1. CASE named = {}
  <2>1. FilterTurn(t, acc, f) = [acc EXCEPT !.res = "RESULT_COLUMN_NOT_FOUND"]
    BY <1>1 DEF FilterTurn
  <2>2. FilterTurn(t, acc, f).res = "RESULT_COLUMN_NOT_FOUND"
    BY <2>1 DEF Found
  <2>3. ~Sql!FilterValid(Contents[t], f)
    BY <1>1, SameColumn DEF Sql!FilterValid
  <2>. QED BY <2>2, <2>3 DEF TurnAgrees
<1>2. CASE named # {}
  <2>1. PICK d \in named : TRUE
    BY <1>2
  <2>2. c = d
    BY <2>1, FirstColumn
  <2>3. c \in named
    BY <2>1, <2>2
  <2>4. FilterTurn(t, acc, f) =
            IF refused THEN [acc EXCEPT !.res = "RESULT_FILTER_VALUE_TYPE",
                                        !.held = HeldWithoutRows(acc.held)]
            ELSE [res |-> "RESULT_OK", relation |-> f.next_relation,
                  held |-> HeldWithMore(acc.relation, acc.held),
                  rows |-> Combine(acc.relation, acc.rows, TableFind(t, c, f))]
    BY <1>2 DEF FilterTurn
  <2>. HIDE DEF c
  <2>5. /\ c \in Columns(t)
        /\ f.column \in Sql!Names(Contents[t])
        /\ Sql!ColumnCalled(Contents[t], f.column) = c
    BY <1>2, <2>3, SameColumn
  <2>6. Contents[t].columns[c].type = TypeOf(t, c)
    BY <2>5, SeenTable
  <2>7. Sql!FilterValid(Contents[t], f) <=> ~refused
    BY <2>5, <2>6, SameFunctions, SameConverts, SameTypes DEF Sql!FilterValid
  <2>8. CASE refused
    <3>1. FilterTurn(t, acc, f).res = "RESULT_FILTER_VALUE_TYPE"
      BY <2>4, <2>8 DEF Found
    <3>. QED BY <2>7, <2>8, <3>1 DEF TurnAgrees
  <2>9. CASE ~refused
    <3> DEFINE rows == TableFind(t, c, f)
    <3>1. rows \in Seq(Slots(tables[t].row_count))
      BY TableFindFacts, TableFacts DEF Quiet
    <3>2. \A r \in 1 .. tables[t].row_count :
             r - 1 \in ToSet(rows) <=> Sql!Passes(Contents[t], Contents[t].rows[r], f)
      BY <2>3, FindsThePassing
    <3>. HIDE DEF rows, refused
    <3>3. FilterTurn(t, acc, f) = [res |-> "RESULT_OK", relation |-> f.next_relation,
                  held |-> HeldWithMore(acc.relation, acc.held),
                  rows |-> Combine(acc.relation, acc.rows, rows)]
      BY <2>4, <2>9 DEF rows
    <3>. QED BY <2>7, <2>9, <3>1, <3>2, <3>3 DEF TurnAgrees
  <2>. QED BY <2>8, <2>9
<1>. QED BY <1>1, <1>2

\* The turns of filter_interpret's loop.
Filtered(f, t, filters) ==
    /\ f[0] = [res |-> "RESULT_OK", relation |-> "NONE", held |-> 0, rows |-> <<>>]
    /\ \A k \in 1 .. Len(filters) :
          /\ f[k - 1].res # "RESULT_OK" => f[k] = f[k - 1]
          /\ f[k - 1].res = "RESULT_OK" =>
                /\ f[k - 1].relation \in {"NONE", "AND", "OR"}
                /\ f[k - 1].rows \in Seq(Slots(tables[t].row_count))
                /\ f[k] = FilterTurn(t, f[k - 1], filters[k])
                /\ TurnAgrees(t, f[k - 1], filters[k])
    /\ FilterInterpret(t, filters) = f[Len(filters)]

\* Filters as the parser makes them, with operators that have a function.
Known(filters) ==
    /\ filters \in Seq(ToSet(filters))
    /\ \A i \in DOMAIN filters : /\ filters[i].next_relation \in {"NONE", "AND", "OR"}
                                 /\ filters[i].op \in FilterFunctions

LEMMA FilteredExists ==
    ASSUME Quiet, NEW t \in DOMAIN tables, NEW filters, Known(filters)
    PROVE  \E f : Filtered(f, t, filters)
<1> DEFINE n == tables[t].row_count
           X == Found(n, NoOr(filters), UnknownOperator(filters))
           base == [res |-> "RESULT_OK", relation |-> "NONE", held |-> 0, rows |-> <<>>]
           m == Len(filters)
<1>1. m \in Nat /\ DOMAIN filters = 1 .. m
  BY DEF Known
<1>2. base \in X
  BY DEF Found, Distinct, Ascending
<1>3. n \in Nat /\ tables[t].row_count = n
  BY TableFacts DEF Quiet
<1>. HIDE DEF m, n
<1>4. ASSUME NEW acc \in X, NEW k \in 1 .. m
      PROVE  FilterTurn(t, acc, filters[k]) \in X
  <2>1. /\ filters[k].next_relation \in {"NONE", "AND", "OR"}
        /\ NoOr(filters) => filters[k].next_relation # "OR"
        /\ filters[k].op \notin FilterFunctions => UnknownOperator(filters)
    BY <1>1 DEF Known, NoOr, UnknownOperator
  <2>. QED BY <1>3, <2>1, FilterTurnFacts
<1>. HIDE DEF X
<1>5. PICK f : /\ f[0] = base
               /\ \A k \in 1 .. m : f[k] = FilterTurn(t, f[k - 1], filters[k])
               /\ FilterInterpret(t, filters) = f[m]
  BY <1>2, <1>4, FilterTurns DEF m, Known
<1>6. ASSUME NEW k \in 0 .. m PROVE f[k] \in X
  <2> DEFINE S == {j \in 0 .. k : f[j] \in X}
  <2>1. 0 \in S
    BY <1>2, <1>5
  <2>2. ASSUME NEW j \in 1 .. k, j - 1 \in S PROVE j \in S
    BY <1>1, <1>4, <1>5, <2>2
  <2>. HIDE DEF S
  <2>3. Inductive(S, k)
    BY <2>1, <2>2 DEF Inductive
  <2>4. k \in S
    BY <1>1, <2>3, UpTo
  <2>. QED BY <2>4 DEF S
<1>7. ASSUME NEW k \in 1 .. m
      PROVE  /\ f[k - 1].res # "RESULT_OK" => f[k] = f[k - 1]
             /\ f[k - 1].res = "RESULT_OK" =>
                   /\ f[k - 1].relation \in {"NONE", "AND", "OR"}
                   /\ f[k - 1].rows \in Seq(Slots(n))
                   /\ f[k] = FilterTurn(t, f[k - 1], filters[k])
                   /\ TurnAgrees(t, f[k - 1], filters[k])
  <2>1. k - 1 \in 0 .. m /\ f[k] = FilterTurn(t, f[k - 1], filters[k])
    BY <1>1, <1>5
  <2>2. f[k - 1] \in X
    BY <1>6, <2>1
  <2>3. f[k - 1].res # "RESULT_OK" => f[k] = f[k - 1]
    BY <2>1 DEF FilterTurn
  <2>4. f[k - 1].relation \in {"NONE", "AND", "OR"} /\ f[k - 1].rows \in Seq(Slots(n))
    BY <2>2 DEF X, Found
  <2>5. f[k - 1].res = "RESULT_OK" => TurnAgrees(t, f[k - 1], filters[k])
    BY <1>1, <2>2, TurnsAgree DEF X, Known
  <2>. QED BY <2>1, <2>3, <2>4, <2>5
<1>8. Filtered(f, t, filters)
  BY <1>5, <1>7 DEF Filtered, m, n
<1>. QED BY <1>8

\* Which filters are refused.
LEMMA FiltersRefused ==
    ASSUME Quiet, NEW t \in DOMAIN tables, NEW filters, Known(filters)
    PROVE  /\ FilterInterpret(t, filters).res # "SIGSEGV"
           /\ FilterInterpret(t, filters).res = "RESULT_OK" <=>
                 \A i \in DOMAIN filters : Sql!FilterValid(Contents[t], filters[i])
<1> DEFINE m == Len(filters)
           Valid(i) == Sql!FilterValid(Contents[t], filters[i])
<1>1. m \in Nat /\ DOMAIN filters = 1 .. m
  BY DEF Known
<1>2. PICK f : Filtered(f, t, filters)
  BY FilteredExists
<1> DEFINE S == {k \in 0 .. m : /\ f[k].res # "SIGSEGV"
                                /\ f[k].res = "RESULT_OK" <=> \A i \in 1 .. k : Valid(i)}
<1>3. 0 \in S
  BY <1>1, <1>2 DEF Filtered
<1>4. ASSUME NEW k \in 1 .. m, k - 1 \in S PROVE k \in S
  <2>1. /\ f[k - 1].res # "RESULT_OK" => f[k] = f[k - 1]
        /\ f[k - 1].res = "RESULT_OK" => /\ f[k].res # "SIGSEGV"
                                         /\ f[k].res = "RESULT_OK" <=> Valid(k)
    BY <1>2 DEF Filtered, TurnAgrees
  <2>2. \A i \in 1 .. k : i \in 1 .. (k - 1) \/ i = k
    BY <1>1
  <2>3. k \in 0 .. m /\ k \in 1 .. k /\ 1 .. (k - 1) \subseteq 1 .. k
    BY <1>1
  <2>. HIDE DEF Valid
  <2>. QED BY <1>4, <2>1, <2>2, <2>3
<1>5. m \in S
  <2>. HIDE DEF S
  <2>1. Inductive(S, m)
    BY <1>3, <1>4 DEF Inductive
  <2>. QED BY <1>1, <2>1, UpTo
<1>. QED BY <1>1, <1>2, <1>5 DEF Filtered

\* Which rows they find.
LEMMA FiltersFind ==
    ASSUME Quiet, NEW t \in DOMAIN tables, NEW filters, Known(filters), filters # <<>>,
           FilterInterpret(t, filters).res = "RESULT_OK",
           NEW r \in 1 .. tables[t].row_count
    PROVE  r - 1 \in ToSet(FilterInterpret(t, filters).rows) <=>
              Sql!Satisfies(Contents[t], Contents[t].rows[r], filters)
<1> DEFINE m == Len(filters)
           tab == Contents[t]
           row == Contents[t].rows[r]
<1>1. m \in Nat \ {0} /\ DOMAIN filters = 1 .. m
  BY DEF Known
<1>2. PICK f : Filtered(f, t, filters)
  BY FilteredExists
<1>3. PICK g : Judges(g, tab, row, filters)
  BY SatisfyTurns DEF Known
<1> DEFINE S == {k \in 0 .. m : f[k].res = "RESULT_OK" =>
                    /\ f[k].relation = g[k].relation
                    /\ k > 0 => (r - 1 \in ToSet(f[k].rows) <=> g[k].holds)}
<1>4. 0 \in S
  BY <1>1, <1>2, <1>3 DEF Filtered, Judges
<1>5. ASSUME NEW k \in 1 .. m, k - 1 \in S PROVE k \in S
  <2>1. CASE f[k].res # "RESULT_OK"
    BY <1>1, <2>1
  <2>2. CASE f[k].res = "RESULT_OK"
    <3>1. f[k - 1].res = "RESULT_OK"
      BY <1>2, <2>2 DEF Filtered
    <3> DEFINE acc == f[k - 1]
               V == Slots(tables[t].row_count)
    <3>2. PICK rows \in Seq(V) :
             /\ f[k].relation = filters[k].next_relation
             /\ f[k].rows = Combine(acc.relation, acc.rows, rows)
             /\ r - 1 \in ToSet(rows) <=> Sql!Passes(tab, row, filters[k])
      BY <1>2, <2>2, <3>1 DEF Filtered, TurnAgrees
    <3>3. acc.rows \in Seq(V)
      BY <1>2, <3>1 DEF Filtered
    <3>4. g[k] = Judged(tab, row, g[k - 1], filters[k])
      BY <1>3 DEF Judges
    <3>5. acc.relation = g[k - 1].relation /\ (k - 1 > 0 => (r - 1 \in ToSet(acc.rows) <=> g[k - 1].holds))
      BY <1>5, <3>1
    <3>6. k - 1 = 0 => acc.relation = "NONE"
      BY <1>2 DEF Filtered
    <3>7. acc.relation \in {"NONE", "AND", "OR"}
      BY <1>2, <3>1 DEF Filtered
    <3>8. f[k].relation = g[k].relation
      BY <3>2, <3>4 DEF Judged
    <3>9. g[k].holds = Sql!Joined(acc.relation, g[k - 1].holds, Sql!Passes(tab, row, filters[k]))
      BY <3>4, <3>5 DEF Judged
    <3>10. r - 1 \in ToSet(f[k].rows) <=> g[k].holds
      <4>. HIDE DEF acc, V
      <4>1. CASE acc.relation = "NONE"
        BY <3>2, <3>3, <3>9, <4>1, CombineSet DEF Sql!Joined
      <4>2. CASE acc.relation # "NONE"
        <5>1. r - 1 \in ToSet(acc.rows) <=> g[k - 1].holds
          BY <1>1, <3>5, <3>6, <4>2
        <5>2. CASE acc.relation = "AND"
          <6>1. ToSet(f[k].rows) = ToSet(acc.rows) \cap ToSet(rows)
            BY <3>2, <3>3, <5>2, CombineSet
          <6>2. g[k].holds = (g[k - 1].holds /\ Sql!Passes(tab, row, filters[k]))
            BY <3>9, <5>2 DEF Sql!Joined
          <6>. QED BY <3>2, <5>1, <6>1, <6>2
        <5>3. CASE acc.relation = "OR"
          <6>1. ToSet(f[k].rows) = ToSet(acc.rows) \cup ToSet(rows)
            BY <3>2, <3>3, <5>3, CombineSet
          <6>2. g[k].holds = (g[k - 1].holds \/ Sql!Passes(tab, row, filters[k]))
            BY <3>9, <5>3 DEF Sql!Joined
          <6>. QED BY <3>2, <5>1, <6>1, <6>2
        <5>. QED BY <3>7, <4>2, <5>2, <5>3
      <4>. QED BY <4>1, <4>2
    <3>. QED BY <1>1, <3>8, <3>10
  <2>. QED BY <2>1, <2>2
<1>6. m \in S
  <2>. HIDE DEF S
  <2>1. Inductive(S, m)
    BY <1>4, <1>5 DEF Inductive
  <2>. QED BY <1>1, <2>1, UpTo
<1>. QED BY <1>1, <1>2, <1>3, <1>6 DEF Filtered, Judges

----------------------------------------------------------------------------
(* Rows counted and kept.                                                  *)

LEMMA CountImage ==
    ASSUME NEW k \in Nat, NEW f, \A i, j \in 1 .. k : f[i] = f[j] => i = j,
           NEW T, T = {f[i] : i \in 1 .. k}
    PROVE  IsFiniteSet(T) /\ Cardinality(T) = k
<1> DEFINE g == [i \in 1 .. k |-> f[i]]
<1>1. g \in Surjection(1 .. k, T) /\ g \in Injection(1 .. k, T)
  <2>1. DOMAIN g = 1 .. k /\ \A i \in 1 .. k : g[i] = f[i]
    OBVIOUS
  <2>2. g \in [1 .. k -> T]
    OBVIOUS
  <2>. HIDE DEF g
  <2>3. \A x \in T : \E i \in 1 .. k : g[i] = x
    BY <2>1
  <2>4. \A i, j \in 1 .. k : g[i] = g[j] => i = j
    BY <2>1
  <2>5. g \in Surjection(1 .. k, T)
    BY <2>2, <2>3 DEF Surjection
  <2>6. g \in Injection(1 .. k, T)
    BY <2>1, <2>2, <2>4 DEF Injection, IsInjective
  <2>. QED BY <2>5, <2>6
<1>2. IsFiniteSet(1 .. k) /\ Cardinality(1 .. k) = k
  BY FS_Interval
<1>. QED BY <1>1, <1>2, FS_Surjection

\* The first k values of f are different, and they are T.
Enumerates(f, k, T) ==
    /\ \A i, j \in 1 .. k : f[i] = f[j] => i = j
    /\ T = {f[i] : i \in 1 .. k}

LEMMA CountEnumerated ==
    ASSUME NEW k \in Nat, NEW f, NEW T, Enumerates(f, k, T)
    PROVE  Cardinality(T) = k
BY CountImage DEF Enumerates

\* BazaSql counts as its implementation does.
LEMMA SameCardinality == \A S : Sql!Cardinality(S) = Cardinality(S)
BY DEF Sql!Cardinality, Cardinality

\* The order in which the members of S are listed, up to the m-th.
Lists(order, m, S) ==
    /\ \A i, j \in 1 .. m : i < j => order[i] < order[j]
    /\ S = {order[k] : k \in 1 .. m}

KeepsThose(list, S, m, order) == Sql!Kept(list, S) = [k \in 1 .. m |-> list[order[k]]]

LEMMA ListedIsKept ==
    ASSUME NEW S \in SUBSET Nat, NEW m \in Nat, NEW order, Lists(order, m, S), NEW list
    PROVE  KeepsThose(list, S, m, order)
<1>1. \A i, j \in 1 .. m : order[i] \in Int /\ (order[i] = order[j] => i = j)
  <2>1. \A i \in 1 .. m : order[i] \in S
    BY DEF Lists
  <2>. QED BY <2>1 DEF Lists
<1>2. Sql!Cardinality(S) = m
  BY <1>1, CountImage, SameCardinality DEF Lists
<1>3. ASSUME NEW k \in 1 .. m
      PROVE  Sql!Nth(S, k) = order[k]
  <2> DEFINE Upto(i) == {s \in S : s <= i}
  <2>1. ASSUME NEW j \in 1 .. m
        PROVE  Sql!Cardinality(Upto(order[j])) = j
    <3>1. Upto(order[j]) = {order[i] : i \in 1 .. j}
      <4>1. \A i \in 1 .. m : order[i] <= order[j] <=> i <= j
        BY <1>1 DEF Lists
      <4>2. \A i : i \in 1 .. j <=> i \in 1 .. m /\ i <= j
        OBVIOUS
      <4>. QED BY <4>1, <4>2 DEF Lists
    <3>2. \A i, h \in 1 .. j : order[i] = order[h] => i = h
      BY <1>1
    <3>3. j \in Nat
      OBVIOUS
    <3>. HIDE DEF Upto
    <3>. QED BY <3>1, <3>2, <3>3, CountImage, SameCardinality
  <2>2. \A s \in S : Sql!Cardinality(Upto(s)) = k <=> s = order[k]
    <3>. HIDE DEF Upto
    <3>. QED BY <2>1 DEF Lists
  <2>3. order[k] \in S
    BY DEF Lists
  <2>4. (CHOOSE s \in S : Sql!Cardinality(Upto(s)) = k) = order[k]
    <3>. HIDE DEF Upto
    <3>. QED BY <2>2, <2>3
  <2>. QED BY <2>4 DEF Sql!Nth
<1>. QED BY <1>2, <1>3 DEF Sql!Kept, KeepsThose

----------------------------------------------------------------------------
(* What holds at every step of every query.                                *)

\* No table has more rows than the bound.
Few == \A t \in DOMAIN tables : tables[t].row_count \in 0 .. MaxRows

LEMMA CountsStay ==
    ASSUME Few, DOMAIN tables' = DOMAIN tables,
           \A t \in DOMAIN tables : tables'[t].row_count \in 0 .. tables[t].row_count
    PROVE  Few'
<1>1. MaxRows \in Nat
  BY StorageAssumption
<1>. QED BY <1>1 DEF Few

LEMMA SlotWritten ==
    ASSUME TypeInv, Few, NEW t \in DOMAIN tables, NEW c \in Columns(t), NEW r, NEW value,
           tables' = [tables EXCEPT ![t].columns[c].data[r] = value]
    PROVE  Few'
<1>1. tables'[t].row_count = tables[t].row_count
  BY WriteKeepsCounts
<1>2. DOMAIN tables' = DOMAIN tables /\ \A u \in DOMAIN tables : u # t => tables'[u] = tables[u]
  OBVIOUS
<1>3. \A u \in DOMAIN tables : tables'[u].row_count = tables[u].row_count
  BY <1>1, <1>2
<1>. QED BY <1>2, <1>3 DEF Few

LEMMA FewStep ==
    ASSUME TypeInv, Few, [StorageNext]_storageVars
    PROVE  Few'
<1>0. MaxRows \in Nat
  BY StorageAssumption
<1>1. CASE UNCHANGED tables
  BY <1>1 DEF Few
<1>2. CASE ClientNewTable
  <2>1. PICK name \in TableName : tables' = Append(tables, NewTable(name))
    BY <1>2 DEF ClientNewTable, DbTableNew
  <2>2. /\ DOMAIN tables' = DOMAIN tables \cup {Len(tables) + 1}
        /\ tables'[Len(tables) + 1] = NewTable(name)
        /\ \A t \in DOMAIN tables : tables'[t] = tables[t]
    BY <2>1 DEF TypeInv
  <2>3. NewTable(name).row_count = 0
    BY DEF NewTable
  <2>. QED BY <1>0, <2>2, <2>3 DEF Few
<1>3. CASE ClientNewColumn
  <2>1. PICK t \in DOMAIN tables, type \in BaseType, name \in ColumnName :
           TableColumnNew(t, type, name)
    BY <1>3 DEF ClientNewColumn
  <2>2. CASE ~UNCHANGED tables
    <3>1. tables' = [tables EXCEPT ![t].columns = Append(@, NewColumn(t, type, name))]
      BY <2>1, <2>2 DEF TableColumnNew
    <3>2. tables'[t].row_count = tables[t].row_count
      BY <3>1, TableFacts DEF TableType
    <3>3. DOMAIN tables' = DOMAIN tables /\ \A u \in DOMAIN tables : u # t => tables'[u] = tables[u]
      BY <3>1
    <3>4. \A u \in DOMAIN tables : tables'[u].row_count = tables[u].row_count
      BY <3>2, <3>3
    <3>. QED BY <3>3, <3>4 DEF Few
  <2>. QED BY <1>1, <2>2
<1>4. CASE ClientAddRow
  <2>1. PICK t \in DOMAIN tables : tables[t].row_count < MaxRows /\ TableRowAdd(t)
    BY <1>4 DEF ClientAddRow
  <2> DEFINE grown == [tables[t] EXCEPT !.row_count = @ + 1]
  <2>2. PICK failed : tables' = [tables EXCEPT ![t] =
                          IF NeedsRealloc(grown)
                          THEN ReallocTable(grown, grown.row_capacity * 2, failed)
                          ELSE grown]
    BY <2>1 DEF TableRowAdd
  <2>3. tables[t] \in TableType(tables[t].row_capacity) /\ tables[t].row_count \in Nat
    BY TableFacts
  <2>4. grown.row_count = tables[t].row_count + 1 /\ DOMAIN grown = DOMAIN tables[t]
    BY <2>3 DEF TableType
  <2>5. "row_count" \in DOMAIN grown
    BY <2>3, <2>4 DEF TableType
  <2>. HIDE DEF grown
  <2>6. ReallocTable(grown, grown.row_capacity * 2, failed).row_count = grown.row_count
    BY <2>5 DEF ReallocTable
  <2>7. tables'[t].row_count = tables[t].row_count + 1
    BY <2>2, <2>4, <2>6
  <2>8. DOMAIN tables' = DOMAIN tables /\ \A u \in DOMAIN tables : u # t => tables'[u] = tables[u]
    BY <2>2
  <2>9. tables[t].row_count + 1 \in 0 .. MaxRows
    BY <1>0, <2>1, <2>3
  <2>. QED BY <2>7, <2>8, <2>9 DEF Few
<1>5. CASE ClientFill
  <2>1. PICK value : FillCell(value)
    BY <1>5 DEF ClientFill
  <2>2. fill.table \in DOMAIN tables /\ fill.col \in Columns(fill.table)
    BY <1>5 DEF ClientFill, TypeInv
  <2>3. CASE ~UNCHANGED tables
    <3>1. PICK stored :
             tables' = [tables EXCEPT ![fill.table].columns[fill.col].data[fill.row] = stored]
      BY <2>1, <2>3 DEF FillCell, Crash
    <3>. QED BY <2>2, <3>1, SlotWritten
  <2>. QED BY <1>1, <2>3
<1>6. CASE ClientReplace
  <2>0. PICK t \in DOMAIN tables : \E c \in Columns(t) : \E r, value : ReplaceCell(t, c, r, value)
    BY <1>6 DEF ClientReplace, Columns
  <2>1. PICK c \in Columns(t) : \E r, value : ReplaceCell(t, c, r, value)
    BY <2>0
  <2>5. PICK r, value : ReplaceCell(t, c, r, value)
    BY <2>1
  <2>2. CASE ~UNCHANGED tables
    <3>1. PICK stored : tables' = [tables EXCEPT ![t].columns[c].data[r] = stored]
      BY <2>2, <2>5 DEF ReplaceCell, Crash
    <3>. QED BY <3>1, SlotWritten
  <2>. QED BY <1>1, <2>2
<1>7. CASE ClientDelete
  <2>1. PICK t \in DOMAIN tables : \E r \in 0 .. tables[t].row_count : TableRowDelete(t, r)
    BY <1>7 DEF ClientDelete
  <2>0. PICK r \in 0 .. tables[t].row_count : TableRowDelete(t, r)
    BY <2>1
  <2>2. CASE ~UNCHANGED tables
    <3>1. tables' = [tables EXCEPT ![t] = RemoveRow(tables[t], r)] /\ ~(r >= tables[t].row_count)
      BY <2>0, <2>2 DEF TableRowDelete, Crash, storageVars
    <3>2. tables[t] \in TableType(tables[t].row_capacity) /\ tables[t].row_count \in Nat
      BY TableFacts
    <3>3. RemoveRow(tables[t], r).row_count = tables[t].row_count - 1
      BY <3>2 DEF RemoveRow, TableType
    <3>4. DOMAIN tables' = DOMAIN tables /\ tables'[t].row_count = tables[t].row_count - 1
          /\ \A u \in DOMAIN tables : u # t => tables'[u] = tables[u]
      BY <3>1, <3>3
    <3>5. tables[t].row_count - 1 \in 0 .. tables[t].row_count
      BY <2>0, <3>1, <3>2
    <3>6. \A u \in DOMAIN tables : tables'[u].row_count \in 0 .. tables[u].row_count
      BY <3>4, <3>5 DEF Few
    <3>. QED BY <3>4, <3>6, CountsStay
  <2>. QED BY <1>1, <2>2
<1>8. CASE ClientDeinit
  BY <1>1, <1>8 DEF ClientDeinit, StorageDeinit, Crash
<1>. QED BY <1>1, <1>2, <1>3, <1>4, <1>5, <1>6, <1>7, <1>8 DEF StorageNext, storageVars

\* A table's record, with other columns and with other rows.
IsTable(tab) == tab = [name |-> tab.name, columns |-> tab.columns, rows |-> tab.rows]

OthersSame(old, new, t) ==
    /\ DOMAIN new = DOMAIN old
    /\ \A u \in DOMAIN old : u # t => new[u] = old[u]

SetsColumns(old, new, t, columns) == new = [old EXCEPT ![t].columns = columns]
SetsRows(old, new, t, rows) == new = [old EXCEPT ![t].rows = rows]

\* Table t is the only one that changes, and becomes this one.
Becomes(old, new, t, name, columns, rows) ==
    /\ OthersSame(old, new, t)
    /\ IsTable(new[t])
    /\ new[t].name = name /\ new[t].columns = columns /\ new[t].rows = rows

LEMMA ColumnsSet ==
    ASSUME NEW old, NEW t \in DOMAIN old, IsTable(old[t]), NEW columns,
           NEW new, SetsColumns(old, new, t, columns)
    PROVE  Becomes(old, new, t, old[t].name, columns, old[t].rows)
<1>1. new[t] = [old[t] EXCEPT !.columns = columns]
  BY DEF SetsColumns
<1>2. new[t] = [name |-> old[t].name, columns |-> columns, rows |-> old[t].rows]
  BY <1>1 DEF IsTable
<1>3. OthersSame(old, new, t)
  BY DEF OthersSame, SetsColumns
<1>. QED BY <1>2, <1>3 DEF Becomes, IsTable

LEMMA RowsSet ==
    ASSUME NEW old, NEW t \in DOMAIN old, IsTable(old[t]), NEW rows,
           NEW new, SetsRows(old, new, t, rows)
    PROVE  Becomes(old, new, t, old[t].name, old[t].columns, rows)
<1>1. new[t] = [old[t] EXCEPT !.rows = rows]
  BY DEF SetsRows
<1>2. new[t] = [name |-> old[t].name, columns |-> old[t].columns, rows |-> rows]
  BY <1>1 DEF IsTable
<1>3. OthersSame(old, new, t)
  BY DEF OthersSame, SetsRows
<1>. QED BY <1>2, <1>3 DEF Becomes, IsTable

LEMMA NamesOfRows ==
    ASSUME NEW old, NEW t \in DOMAIN old, IsTable(old[t]), NEW rows, NEW new,
           SetsRows(old, new, t, rows), NamesDiffer(old)
    PROVE  NamesDiffer(new)
<1>1. Becomes(old, new, t, old[t].name, old[t].columns, rows)
  BY RowsSet
<1>2. \A u \in DOMAIN old : new[u].columns = old[u].columns
  BY <1>1 DEF Becomes, OthersSame
<1>. QED BY <1>1, <1>2 DEF NamesDiffer, Becomes, OthersSame

LEMMA NamesOfColumns ==
    ASSUME NEW old, NEW t \in DOMAIN old, IsTable(old[t]), NEW V, old[t].columns \in Seq(V),
           NEW column, \A c \in DOMAIN old[t].columns : old[t].columns[c].name # column.name,
           NEW new, SetsColumns(old, new, t, Append(old[t].columns, column)), NamesDiffer(old)
    PROVE  NamesDiffer(new)
<1>. SUFFICES ASSUME NEW columns, columns = old[t].columns PROVE NamesDiffer(new)
  OBVIOUS
<1>1. Becomes(old, new, t, old[t].name, Append(columns, column), old[t].rows)
  BY ColumnsSet
<1>2. /\ DOMAIN Append(columns, column) = DOMAIN columns \cup {Len(columns) + 1}
      /\ Append(columns, column)[Len(columns) + 1] = column
      /\ \A c \in DOMAIN columns : Append(columns, column)[c] = columns[c]
  OBVIOUS
<1>3. \A c, d \in DOMAIN columns : columns[c].name = columns[d].name => c = d
  BY DEF NamesDiffer
<1>4. \A c, d \in DOMAIN Append(columns, column) :
         Append(columns, column)[c].name = Append(columns, column)[d].name => c = d
  BY <1>2, <1>3
<1>5. DOMAIN new = DOMAIN old /\ \A u \in DOMAIN old : u # t => new[u] = old[u]
  BY <1>1 DEF Becomes, OthersSame
<1>6. new[t].columns = Append(columns, column)
  BY <1>1 DEF Becomes
<1>7. ASSUME NEW u \in DOMAIN old, NEW c \in DOMAIN new[u].columns, NEW d \in DOMAIN new[u].columns,
             new[u].columns[c].name = new[u].columns[d].name
      PROVE  c = d
  <2>1. CASE u = t
    BY <1>4, <1>6, <1>7, <2>1
  <2>2. CASE u # t
    BY <1>5, <1>7, <2>2 DEF NamesDiffer
  <2>. QED BY <2>1, <2>2
<1>. QED BY <1>5, <1>7 DEF NamesDiffer

\* Only CREATE gives a table columns, each under a name the table lacks.
LEMMA NamesStep ==
    ASSUME ~AllocMayFail, SoundStore, SoundStore', [StorageNext]_storageVars, NamesDiffer(Contents)
    PROVE  NamesDiffer(Contents')
<1>1. CASE Contents' = Contents
  BY <1>1
<1>2. CASE status # "up"
  <2>1. UNCHANGED storageVars
    BY <1>2 DEF StorageNext, ClientNewTable, ClientNewColumn, ClientAddRow, ClientFill,
                ClientReplace, ClientDelete, ClientDeinit, Ready
  <2>2. Contents' = Contents
    BY <2>1 DEF Contents, TableContents, CompleteRows, Filling, Columns, ValueAt,
                IsString, TypeOf, Cell, storageVars
  <2>. QED BY <2>2
<1>3. CASE status = "up" /\ RowStore!Next
  <2>1. /\ Contents \in Seq({TableContents(t) : t \in DOMAIN tables})
        /\ Len(Contents) \in Nat /\ DOMAIN Contents = 1 .. Len(Contents)
    BY <1>3, ContentsSeq DEF SoundStore, Inv
  <2>2. ASSUME NEW t \in DOMAIN Contents
        PROVE  IsTable(Contents[t]) /\ Contents[t].columns \in Seq({Column(t, c) : c \in Columns(t)})
    <3>1. t \in DOMAIN tables /\ Contents[t] = TableContents(t)
      BY <1>3, ContentsSeq DEF SoundStore, Inv
    <3>2. Contents[t].columns = ColumnsOf(t) /\ Contents[t].rows = RowsOf(t)
      BY <3>1 DEF ColumnsOf, RowsOf
    <3>3. TableContents(t) = [name |-> tables[t].name, columns |-> ColumnsOf(t), rows |-> RowsOf(t)]
      BY <3>1 DEF SoundStore, WellFormed
    <3>4. ColumnsOf(t) \in Seq({Column(t, c) : c \in Columns(t)})
      BY <3>1, ColumnsOfSeq DEF SoundStore
    <3>. QED BY <3>1, <3>2, <3>3, <3>4 DEF IsTable
  <2>3. CASE RowStore!Close
    BY <2>3 DEF RowStore!Close, NamesDiffer
  <2>4. CASE \E name \in TableName : RowStore!CreateTable(name)
    <3>1. PICK name : Contents' = Append(Contents, RowStore!EmptyTable(name))
      BY <2>4 DEF RowStore!CreateTable
    <3>2. /\ DOMAIN Contents' = DOMAIN Contents \cup {Len(Contents) + 1}
          /\ Contents'[Len(Contents) + 1].columns = <<>>
          /\ \A t \in DOMAIN Contents : Contents'[t] = Contents[t]
      BY <2>1, <3>1 DEF RowStore!EmptyTable
    <3>. QED BY <3>2 DEF NamesDiffer
  <2>5. ASSUME NEW t \in DOMAIN Contents, NEW name, NEW type, RowStore!AddColumn(t, name, type)
        PROVE  NamesDiffer(Contents')
    <3> DEFINE column == [name |-> name, type |-> type]
    <3>1. /\ \A c \in DOMAIN Contents[t].columns : Contents[t].columns[c].name # column.name
          /\ SetsColumns(Contents, Contents', t, Append(Contents[t].columns, column))
      BY <2>5 DEF RowStore!AddColumn, SetsColumns
    <3>2. /\ IsTable(Contents[t])
          /\ Contents[t].columns \in Seq({Column(t, c) : c \in Columns(t)})
      BY <2>2
    <3>. HIDE DEF column
    <3>. QED BY <3>1, <3>2, NamesOfColumns
  <2>6. ASSUME NEW t \in DOMAIN Contents, NEW rows, Contents' = [Contents EXCEPT ![t].rows = rows]
        PROVE  NamesDiffer(Contents')
    <3>1. SetsRows(Contents, Contents', t, rows) /\ IsTable(Contents[t])
      BY <2>2, <2>6 DEF SetsRows
    <3>. QED BY <3>1, NamesOfRows
  <2>7. ASSUME NEW t \in DOMAIN Contents,
               \/ RowStore!AppendRow(t)
               \/ \E r : RowStore!RemoveRow(t, r)
               \/ \E r, c : RowStore!SetValue(t, r, c)
        PROVE  \E rows : Contents' = [Contents EXCEPT ![t].rows = rows]
    <3>1. CASE RowStore!AppendRow(t)
      BY <3>1 DEF RowStore!AppendRow
    <3>2. CASE \E r : RowStore!RemoveRow(t, r)
      BY <3>2 DEF RowStore!RemoveRow
    <3>3. CASE \E r, c : RowStore!SetValue(t, r, c)
      BY <3>3 DEF RowStore!SetValue
    <3>. QED BY <2>7, <3>1, <3>2, <3>3
  <2>8. CASE \E t \in DOMAIN Contents :
                \/ RowStore!AppendRow(t)
                \/ \E r : RowStore!RemoveRow(t, r)
                \/ \E r, c : RowStore!SetValue(t, r, c)
    BY <2>6, <2>7, <2>8
  <2>. QED BY <1>3, <2>3, <2>4, <2>5, <2>8 DEF RowStore!Next
<1>. QED BY <1>1, <1>2, <1>3, StoreStep

----------------------------------------------------------------------------
(* The steps of a query, and those of BazaSql.                             *)

Base == IInv /\ SoundStore /\ NamesDiffer(Contents) /\ Few

LEMMA BaseStep ==
    ASSUME ~AllocMayFail, Base, [Next]_vars
    PROVE  Base' /\ [StorageNext]_storageVars
<1>1. IInv' /\ [StorageNext]_storageVars
  BY IStep DEF Base
<1>2. SoundStore'
  <2>1. Inv'
    BY <1>1, InvStep DEF Base, SoundStore
  <2>2. RowsInv'
    BY <1>1, RowsStep DEF Base, SoundStore, Inv
  <2>. QED BY <2>1, <2>2, SoundInv, PTL
<1>3. NamesDiffer(Contents')
  BY <1>1, <1>2, NamesStep DEF Base
<1>4. Few'
  BY <1>1, FewStep DEF Base, IInv
<1>. QED BY <1>1, <1>2, <1>3, <1>4 DEF Base, NamesDiffer

SqlStep == [Sql!Next]_<<committed.db, committed.request, committed.result, committed.answer>>

\* Nothing is seen of a step that does not end a query.
LEMMA Hidden ==
    ASSUME Commits, pc' # "idle"
    PROVE  committed' = committed /\ SqlStep
BY DEF Commits, SqlStep

\* A query that ends.
LEMMA Shows ==
    ASSUME Commits, pc' = "idle"
    PROVE  /\ committed' = Observed'
           /\ committed'.db = Contents' /\ committed'.request = query'
           /\ committed'.result = result' /\ committed'.answer = output'
BY DEF Commits, Observed

LEMMA Refused ==
    ASSUME committed = Observed, Commits, NEW q \in Queries, query' = q, ~Sql!Acceptable(q),
           Contents' = Contents, NEW res, res # "RESULT_OK", NEW held, Reply(res, <<>>, held)
    PROVE  SqlStep /\ pc' = "idle" /\ committed' = Observed'
<1>1. pc' = "idle" /\ result' = res /\ output' = <<>>
  BY DEF Reply
<1>2. /\ committed' = Observed'
      /\ committed'.db = Contents' /\ committed'.request = query'
      /\ committed'.result = result' /\ committed'.answer = output'
  BY <1>1, Shows
<1>3. committed.db = Contents
  BY DEF Observed
<1>4. Sql!Refuse(q)
  BY <1>1, <1>2, <1>3 DEF Sql!Refuse
<1>. QED BY <1>1, <1>2, <1>4 DEF SqlStep, Sql!Next

\* The interpreter is idle.
AtRest == Base /\ Idle /\ committed = Observed

LEMMA RestIsQuiet ==
    ASSUME AtRest
    PROVE  Quiet /\ Ready
<1>1. Ready
  BY IdleFacts DEF AtRest, Base
<1>. QED BY <1>1 DEF AtRest, Base, Quiet, Ready, Observed, IInv

LEMMA Unseen ==
    ASSUME UNCHANGED storageVars
    PROVE  Contents' = Contents
BY DEF Contents, TableContents, CompleteRows, Filling, Columns, ValueAt, IsString, TypeOf, Cell,
       storageVars

LEMMA NotFoundRefuses ==
    ASSUME AtRest, Commits, NEW q \in Queries, TableNotFound(q)
    PROVE  SqlStep /\ pc' = "idle" /\ committed' = Observed'
<1>1. /\ query' = q /\ q.type # "CREATE" /\ TablesNamed(q.table) = {}
      /\ Reply("RESULT_TABLE_NOT_FOUND", <<>>, 0) /\ UNCHANGED storageVars
  BY DEF TableNotFound, Begin
<1>2. Sql!TablesCalled(q.table) = {}
  BY <1>1, RestIsQuiet, SameTables
<1>3. ~Sql!Acceptable(q)
  BY <1>1, <1>2 DEF Sql!Acceptable
<1>. QED BY <1>1, <1>3, Unseen, Refused DEF AtRest

LEMMA ShutdownCloses ==
    ASSUME AtRest, Base', Commits, Shutdown
    PROVE  SqlStep /\ pc' = "idle" /\ committed' = Observed'
<1>1. StorageDeinit /\ pc' = "idle" /\ UNCHANGED <<query, result, output>>
  BY DEF AtRest, Shutdown, Idle, interpreterVars
<1>2. Contents' = <<>>
  BY <1>1, DeinitCloses DEF AtRest, Base, Idle, RowStore!Close
<1>3. /\ committed' = Observed'
      /\ committed'.db = Contents' /\ committed'.request = query'
      /\ committed'.result = result' /\ committed'.answer = output'
  BY <1>1, Shows
<1>4. /\ committed.request = query /\ committed.result = result /\ committed.answer = output
  BY DEF AtRest, Observed
<1>5. Sql!Close
  BY <1>1, <1>2, <1>3, <1>4 DEF Sql!Close
<1>. QED BY <1>1, <1>3, <1>5 DEF SqlStep, Sql!Next

----------------------------------------------------------------------------
(* The table a query is about.                                             *)

LEMMA SeenColumns ==
    ASSUME TypeInv, status = "up", NEW t \in DOMAIN tables
    PROVE  /\ t \in DOMAIN Contents
           /\ IsTable(Contents[t])
           /\ DOMAIN Contents[t].columns = Columns(t)
           /\ \A c \in Columns(t) : /\ Contents[t].columns[c].name = tables[t].columns[c].name
                                    /\ Contents[t].columns[c].type = TypeOf(t, c)
<1>1. Contents[t] = TableContents(t) /\ t \in DOMAIN Contents
  BY DEF Contents
<1>2. Contents[t] = [name |-> tables[t].name,
                     columns |-> [c \in Columns(t) |-> [name |-> tables[t].columns[c].name,
                                                        type |-> tables[t].columns[c].type]],
                     rows |-> [r \in 1 .. CompleteRows(t) |->
                                  [c \in Columns(t) |-> ValueAt(t, r - 1, c)]]]
  BY <1>1 DEF TableContents
<1>. QED BY <1>1, <1>2 DEF TypeOf, IsTable

\* q is about table t.
About(q, t) ==
    /\ q.type # "CREATE"
    /\ TablesNamed(q.table) # {}
    /\ t = TableNamed(q.table)
    /\ t \in DOMAIN tables

LEMMA AboutTable ==
    ASSUME AtRest, NEW q, NEW t, About(q, t)
    PROVE  /\ committed.db = Contents
           /\ Sql!TablesCalled(q.table) # {}
           /\ Sql!TableCalled(q.table) = t
<1>1. Quiet
  BY RestIsQuiet
<1>. QED BY <1>1, SameTables, SameTableCalled DEF About, AtRest, Observed

\* The table the running query is about, as it was when the query began.
Doing(type, t) ==
    /\ t = Target
    /\ t \in DOMAIN tables
    /\ query \in Queries /\ query.type = type /\ type # "CREATE"
    /\ TablesNamed(query.table) # {}
    /\ t = Sql!TableCalled(query.table)
    /\ t \in DOMAIN committed.db
    /\ IsTable(committed.db[t])
    /\ DOMAIN committed.db[t].columns = Columns(t)
    /\ \A c \in Columns(t) : /\ committed.db[t].columns[c].name = tables[t].columns[c].name
                             /\ committed.db[t].columns[c].type = TypeOf(t, c)
    /\ Sql!Acceptable(query)

LEMMA SqlStays ==
    ASSUME UNCHANGED <<committed, query>>
    PROVE  /\ Sql!TableCalled(query.table)' = Sql!TableCalled(query.table)
           /\ Sql!Acceptable(query)' <=> Sql!Acceptable(query)
BY DEF Sql!Acceptable, Sql!TableCalled, Sql!TablesCalled

LEMMA DoingBegins ==
    ASSUME AtRest, NEW q \in Queries, NEW t, About(q, t), query' = q,
           Sql!Acceptable(q), committed' = committed, DOMAIN tables' = DOMAIN tables,
           \A u \in DOMAIN tables : SameShape(u)
    PROVE  Doing(q.type, t)'
<1>1. Quiet /\ t \in DOMAIN tables
  BY RestIsQuiet DEF About
<1>2. committed.db = Contents /\ Sql!TableCalled(q.table) = t
  BY AboutTable
<1>3. /\ t \in DOMAIN Contents
      /\ IsTable(Contents[t])
      /\ DOMAIN Contents[t].columns = Columns(t)
      /\ \A c \in Columns(t) : /\ Contents[t].columns[c].name = tables[t].columns[c].name
                               /\ Contents[t].columns[c].type = TypeOf(t, c)
  BY <1>1, SeenColumns DEF Quiet
<1>4. /\ TablesNamed(q.table)' = TablesNamed(q.table)
      /\ TableNamed(q.table)' = TableNamed(q.table)
  <2>1. TablesNamed(q.table)' = TablesNamed(q.table)
    BY DEF TablesNamed, SameShape
  <2>. QED BY <2>1 DEF TableNamed, IsFirst
<1>5. Target' = t
  BY <1>4 DEF Target, About
<1>6. Sql!TableCalled(q.table)' = Sql!TableCalled(q.table) /\ Sql!Acceptable(q)'
  <2>1. Sql!TablesCalled(q.table)' = Sql!TablesCalled(q.table)
    BY DEF Sql!TablesCalled
  <2>2. Sql!TableCalled(q.table)' = Sql!TableCalled(q.table)
    BY <2>1 DEF Sql!TableCalled
  <2>3. Sql!Acceptable(q)'
    BY <2>1, <2>2 DEF Sql!Acceptable
  <2>. QED BY <2>2, <2>3
<1>7. /\ Columns(t)' = Columns(t)
      /\ \A c \in Columns(t) : /\ tables'[t].columns[c].name = tables[t].columns[c].name
                               /\ TypeOf(t, c)' = TypeOf(t, c)
  BY <1>1 DEF SameShape
<1>. QED BY <1>1, <1>2, <1>3, <1>4, <1>5, <1>6, <1>7 DEF Doing, About

LEMMA DoingGoesOn ==
    ASSUME NEW type, NEW t, Doing(type, t), query' = query, committed' = committed,
           DOMAIN tables' = DOMAIN tables, \A u \in DOMAIN tables : SameShape(u)
    PROVE  Doing(type, t)'
<1>1. /\ TablesNamed(query.table)' = TablesNamed(query.table)
      /\ Target' = Target
  BY SameTarget DEF Doing, SameShape
<1>2. /\ Sql!TableCalled(query.table)' = Sql!TableCalled(query.table)
      /\ Sql!Acceptable(query)' <=> Sql!Acceptable(query)
  BY SqlStays
<1>3. /\ Columns(t)' = Columns(t)
      /\ \A c \in Columns(t) : /\ tables'[t].columns[c].name = tables[t].columns[c].name
                               /\ TypeOf(t, c)' = TypeOf(t, c)
  BY DEF SameShape, Doing
<1>. QED BY <1>1, <1>2, <1>3 DEF Doing

----------------------------------------------------------------------------
(* Values given for columns.                                               *)

LEMMA NotLess ==
    ASSUME NEW a \in Nat, NEW b \in Nat, a <= b, ~(a < b)
    PROVE  a = b
OBVIOUS

LEMMA ValuesAgree ==
    ASSUME Quiet, NEW t \in DOMAIN tables, NEW columns \in Seq(Columns(t)),
           NEW values \in Seq(Str), Len(values) <= Len(columns),
           NEW names, names = NamesOf(t, columns),
           NEW check, check = ValidateValueTypes(t, columns, values), check # "SIGSEGV"
    PROVE  /\ check \in {"RESULT_OK", "RESULT_ERR"}
           /\ check = "RESULT_OK" <=> Sql!ValuesValid(Contents[t], names, values)
           /\ check = "RESULT_OK" => Len(values) = Len(columns) /\ columns # <<>>
<1> DEFINE tab == Contents[t]
           Bad(i) == IsIntegral(TypeOf(t, columns[i])) /\ ~Converts(values[i])
<1>1. /\ Len(columns) \in Nat /\ DOMAIN columns = 1 .. Len(columns)
      /\ Len(values) \in Nat /\ DOMAIN values = 1 .. Len(values)
      /\ DOMAIN names = 1 .. Len(columns) /\ Len(names) = Len(columns)
  BY DEF NamesOf
<1>2. ASSUME NEW i \in DOMAIN columns
      PROVE  /\ names[i] \in Sql!Names(tab)
             /\ tab.columns[Sql!ColumnCalled(tab, names[i])].type = TypeOf(t, columns[i])
  <2>1. columns[i] \in Columns(t) /\ names[i] = tables[t].columns[columns[i]].name
    BY DEF NamesOf
  <2>2. columns[i] \in ColumnsNamed(tables[t], names[i])
    BY <2>1 DEF ColumnsNamed, Columns
  <2>3. names[i] \in Sql!Names(tab) /\ Sql!ColumnCalled(tab, names[i]) = columns[i]
    BY <2>2, SameColumn
  <2>4. tab.columns[columns[i]].type = TypeOf(t, columns[i])
    BY <2>1, SeenTable
  <2>. QED BY <2>3, <2>4
<1>3. ASSUME NEW i \in DOMAIN columns
      PROVE  /\ names[i] \in Sql!Names(tab)
             /\ (Sql!IsIntegral(tab.columns[Sql!ColumnCalled(tab, names[i])].type)
                    => Sql!Converts(values[i])) <=> ~Bad(i)
  BY <1>2, SameTypes, SameConverts
<1>. HIDE DEF Bad, tab
<1>4. Sql!ValuesValid(tab, names, values) <=>
         Len(values) = Len(columns) /\ \A i \in DOMAIN columns : ~Bad(i)
  <2>1. DOMAIN names = DOMAIN columns /\ Len(names) = Len(columns)
    BY <1>1
  <2>. QED BY <1>3, <2>1, Zenon DEF Sql!ValuesValid
<1>5. check = IF \E i \in DOMAIN columns \cap DOMAIN values : Bad(i) THEN "RESULT_ERR"
              ELSE IF columns = <<>> \/ Len(values) < Len(columns) THEN "SIGSEGV"
              ELSE "RESULT_OK"
  BY DEF ValidateValueTypes, Bad
<1>6. CASE \E i \in DOMAIN columns \cap DOMAIN values : Bad(i)
  <2>1. check = "RESULT_ERR"
    BY <1>5, <1>6
  <2>2. ~Sql!ValuesValid(tab, names, values)
    BY <1>4, <1>6
  <2>. QED BY <2>1, <2>2 DEF tab
<1>7. CASE \A i \in DOMAIN columns \cap DOMAIN values : ~Bad(i)
  <2>1. check = "RESULT_OK" /\ columns # <<>> /\ ~(Len(values) < Len(columns))
    BY <1>5, <1>7
  <2>2. Len(values) = Len(columns)
    <3>1. Len(values) \in Nat /\ Len(columns) \in Nat /\ ~(Len(values) < Len(columns))
      BY <2>1
    <3>. QED BY <3>1, NotLess
  <2>3. DOMAIN values = DOMAIN columns
    BY <1>1, <2>2
  <2>4. Sql!ValuesValid(tab, names, values)
    BY <1>4, <1>7, <2>2, <2>3
  <2>. QED BY <2>1, <2>2, <2>4 DEF tab
<1>. QED BY <1>6, <1>7

----------------------------------------------------------------------------
(* INSERT.                                                                 *)

Inserted(old, new, t, q) ==
    new = [old EXCEPT ![t].rows =
              Append(@, [c \in DOMAIN old[t].columns |-> SlotValue(old[t].columns[c].type, q.values[c])])]

\* The values before the cursor have been stored, the others are left to do.
InsertSoFar(t) ==
    /\ Doing("INSERT", t)
    /\ query.values \in Seq(Str)
    /\ Len(query.values) = Len(tables[t].columns)
    /\ work # <<>> =>
          /\ Contents = committed.db
          /\ fill.table = t
          /\ \A d \in Columns(t) :
                d < fill.col => ValueAt(t, fill.row, d) = SlotValue(TypeOf(t, d), query.values[d])
          /\ \A i \in DOMAIN work : work[i] = query.values[fill.col + i - 1]
    /\ work = <<>> => Inserted(committed.db, Contents, t, query)

LEMMA InsertAcceptable ==
    ASSUME AtRest, NEW q \in Queries, q.type = "INSERT", NEW t, About(q, t), HandledRight(q),
           NEW check, check = ValidateValueTypes(t, TableColumnGetList(t, NoList), q.values),
           check # "SIGSEGV"
    PROVE  /\ check \in {"RESULT_OK", "RESULT_ERR"}
           /\ check = "RESULT_OK" <=> Sql!Acceptable(q)
           /\ check = "RESULT_OK" => Len(q.values) = Len(tables[t].columns) /\ tables[t].columns # <<>>
<1> DEFINE columns == TableColumnGetList(t, NoList)
           names == NamesOf(t, columns)
<1>1. Quiet /\ t \in DOMAIN tables /\ TypeInv
  BY RestIsQuiet DEF About, Quiet
<1>2. /\ columns \in Seq(Columns(t)) /\ columns = [c \in Columns(t) |-> c]
      /\ Len(columns) = Len(tables[t].columns)
  BY <1>1, ColumnListFacts
<1>3. q.values \in Seq(Str) /\ Len(q.values) <= Len(columns)
  BY <1>2, InterpreterAssumption DEF HandledRight, About
<1>4. [c \in DOMAIN Contents[t].columns |-> Contents[t].columns[c].name] = names
  <2>1. /\ DOMAIN Contents[t].columns = Columns(t)
        /\ \A c \in Columns(t) : Contents[t].columns[c].name = tables[t].columns[c].name
    BY <1>1, SeenTable
  <2>. QED BY <1>2, <2>1 DEF NamesOf
<1>5. Sql!Acceptable(q) <=> Sql!ValuesValid(Contents[t], names, q.values)
  BY <1>4, AboutTable DEF Sql!Acceptable, About
<1>6. columns # <<>> => tables[t].columns # <<>>
  BY <1>2 DEF Columns
<1>7. names = NamesOf(t, columns) /\ check = ValidateValueTypes(t, columns, q.values)
  OBVIOUS
<1>. HIDE DEF columns, names
<1>8. /\ check \in {"RESULT_OK", "RESULT_ERR"}
      /\ check = "RESULT_OK" <=> Sql!ValuesValid(Contents[t], names, q.values)
      /\ check = "RESULT_OK" => Len(q.values) = Len(columns) /\ columns # <<>>
  BY <1>1, <1>2, <1>3, <1>7, ValuesAgree
<1>. QED BY <1>2, <1>5, <1>6, <1>8

\* The step ends the query, and what it did is seen.
Ends == pc' = "idle" /\ committed' = Observed'

\* The step ends the process.
Stops == pc' \in {"segfault", "fatal"}

LEMMA InsertStarts ==
    ASSUME ~AllocMayFail, AtRest, Base', Commits, NEW q \in Queries, q.type = "INSERT",
           query' = q, NEW t, About(q, t), Sql!Acceptable(q),
           Len(q.values) = Len(tables[t].columns), tables[t].columns # <<>>,
           TableRowAdd(t),
           EnterLoop("insert", SubSeq(q.values, 1, Len(tables[t].columns)), 1)
    PROVE  SqlStep /\ pc' = "insert" /\ InsertSoFar(t)'
<1>0. t \in DOMAIN tables /\ TypeInv /\ SoundStore /\ SoundStore' /\ status = "up" /\ ~Filling
  BY RestIsQuiet DEF AtRest, Base, About, Quiet, IInv
<1>1. pc' = "insert" /\ work' = SubSeq(q.values, 1, Len(tables[t].columns))
  BY DEF EnterLoop
<1>2. committed' = committed /\ SqlStep
  BY <1>1, Hidden
<1>3. /\ Contents' = Contents /\ status' = "up" /\ DOMAIN tables' = DOMAIN tables
      /\ \A u \in DOMAIN tables : SameShape(u)
  BY <1>0, AddRowAppends
<1>4. fill' = [table |-> t, row |-> tables[t].row_count, col |-> 1]
  BY <1>0, AddRowKeepsColumns
<1>5. Doing("INSERT", t)'
  BY <1>2, <1>3, DoingBegins
<1>6. q.values \in Seq(Str)
  BY InterpreterAssumption
<1>7. work' = q.values
  BY <1>1, <1>6
<1>8. Len(tables'[t].columns) = Len(tables[t].columns)
  BY <1>0, <1>3, SameLengths DEF SameShape, SoundStore, Inv
<1>9. Contents' = committed'.db
  BY <1>2, <1>3 DEF AtRest, Observed
<1>10. ASSUME NEW d \in Columns(t)' PROVE ~(d < fill'.col)
  BY <1>0, <1>3, <1>4, Lengths DEF SameShape
<1>11. \A i \in DOMAIN work' : work'[i] = q.values[fill'.col + i - 1]
  <2>1. DOMAIN q.values = 1 .. Len(q.values)
    BY <1>6
  <2>2. \A i \in DOMAIN q.values : 1 + i - 1 = i
    BY <1>6
  <2>. QED BY <1>4, <1>7, <2>2
<1>12. work' # <<>>
  <2>1. Len(tables[t].columns) # 0
    BY <1>0, ColumnLengths DEF TypeInv
  <2>. QED BY <1>7, <2>1
<1>13. fill'.table = t
  BY <1>4
<1>14. query' = q
  OBVIOUS
<1>15. InsertSoFar(t)'
  <2>. HIDE DEF EnterLoop
  <2>. QED BY <1>5, <1>6, <1>8, <1>9, <1>10, <1>11, <1>12, <1>13, <1>14 DEF InsertSoFar
<1>. QED BY <1>1, <1>2, <1>15

LEMMA InsertBegins ==
    ASSUME ~AllocMayFail, AtRest, Base', Commits, NEW q \in Queries, HandledRight(q), BeginInsert(q)
    PROVE  SqlStep /\ (Ends \/ Stops \/ (pc' = "insert" /\ \E t : InsertSoFar(t)'))
<1>. SUFFICES ASSUME NEW t, t = TableNamed(q.table),
                     NEW check, check = ValidateValueTypes(t, TableColumnGetList(t, NoList), q.values)
              PROVE  SqlStep /\ (Ends \/ Stops \/ (pc' = "insert" /\ InsertSoFar(t)'))
  OBVIOUS
<1>1. q.type = "INSERT" /\ query' = q /\ About(q, t)
  <2>1. q.type = "INSERT" /\ query' = q /\ TablesNamed(q.table) # {}
    BY DEF BeginInsert, Begin
  <2>2. t \in DOMAIN tables
    BY <2>1, NamedTable DEF AtRest, Base, IInv
  <2>. QED BY <2>1, <2>2 DEF About
<1>2. \/ check = "SIGSEGV" /\ Abort("segfault")
      \/ check = "RESULT_ERR" /\ Reply(check, <<>>, 1) /\ UNCHANGED storageVars
      \/ /\ check = "RESULT_OK" /\ TableRowAdd(t)
         /\ EnterLoop("insert", SubSeq(q.values, 1, Len(tables[t].columns)), 1)
  BY DEF BeginInsert
<1>3. CASE check = "SIGSEGV" /\ Abort("segfault")
  <2>1. pc' = "segfault"
    BY <1>3 DEF Abort
  <2>. QED BY <2>1, Hidden DEF Stops
<1>4. CASE check = "RESULT_ERR" /\ Reply(check, <<>>, 1) /\ UNCHANGED storageVars
  <2>1. ~Sql!Acceptable(q)
    BY <1>1, <1>4, InsertAcceptable
  <2>2. Contents' = Contents
    BY <1>4, Unseen
  <2>. QED BY <1>1, <1>4, <2>1, <2>2, Refused DEF AtRest, Ends
<1>5. CASE /\ check = "RESULT_OK" /\ TableRowAdd(t)
           /\ EnterLoop("insert", SubSeq(q.values, 1, Len(tables[t].columns)), 1)
  <2>1. Sql!Acceptable(q) /\ Len(q.values) = Len(tables[t].columns) /\ tables[t].columns # <<>>
    BY <1>1, <1>5, InsertAcceptable
  <2>. QED BY <1>1, <1>5, <2>1, InsertStarts
<1>. QED BY <1>2, <1>3, <1>4, <1>5

LEMMA NextOf ==
    ASSUME NEW c \in Nat, NEW n \in Nat, c <= n
    PROVE  /\ c < n <=> n - c + 1 - 1 # 0
           /\ \A d \in Nat : d < c + 1 => d < c \/ d = c
           /\ \A i \in Nat : c + (i + 1) - 1 = (c + 1) + i - 1
           /\ ~(c < n) => c = n /\ \A d \in 1 .. n : d < c \/ d = c
OBVIOUS

LEMMA RowAt ==
    ASSUME NEW t, NEW r, NEW k, k - 1 = r
    PROVE  Row(t, k)' = [d \in Columns(t)' |-> ValueAt(t, r, d)']
BY DEF Row

LEMMA InsertGoesOn ==
    ASSUME ~AllocMayFail, Base, Base', Commits, NEW t, InsertSoFar(t), InsertValue
    PROVE  SqlStep /\ pc' = "insert" /\ InsertSoFar(t)'
<1>1. /\ pc = "insert" /\ status = "up" /\ work # <<>>
      /\ pc' = "insert" /\ query' = query /\ work' = Tail(work)
  BY DEF InsertValue, Looping, NextTurn
<1>2. committed' = committed /\ SqlStep
  BY <1>1, Hidden
<1>3. /\ TypeInv /\ SoundStore /\ SoundStore' /\ t \in DOMAIN tables
      /\ query.values \in Seq(Str) /\ Len(query.values) = Len(tables[t].columns)
  BY DEF Base, IInv, InsertSoFar, Doing
<1>4. work \in Seq(Str) /\ Filling /\ Len(work) = Len(tables[fill.table].columns) - fill.col + 1
  BY <1>1 DEF Base, IInv, Inserting
<1>5. PICK r, c : fill = [table |-> t, row |-> r, col |-> c]
  <2>1. fill.table = t
    BY <1>1 DEF InsertSoFar
  <2>. QED BY <1>3, <2>1 DEF TypeInv
<1>6. /\ c \in Columns(t) /\ Columns(t) = 1 .. Len(tables[t].columns)
      /\ Len(tables[t].columns) \in Nat /\ c \in Nat /\ c <= Len(tables[t].columns)
  <2>1. c \in Columns(t)
    BY <1>3, <1>4, <1>5 DEF TypeInv
  <2>2. Columns(t) = 1 .. Len(tables[t].columns) /\ Len(tables[t].columns) \in Nat
    BY <1>3, Lengths
  <2>. QED BY <2>1, <2>2
<1> DEFINE n == Len(tables[t].columns)
           Value(d) == SlotValue(TypeOf(t, d), query.values[d])
<1>7. /\ Contents = committed.db
      /\ \A d \in Columns(t) : d < c => ValueAt(t, r, d) = Value(d)
      /\ \A i \in DOMAIN work : work[i] = query.values[c + i - 1]
  BY <1>1, <1>5 DEF InsertSoFar
<1>8. /\ Head(work) = query.values[c] /\ Head(work) \in Str
      /\ Len(work') = n - c + 1 - 1
      /\ work' \in Seq(Str)
      /\ \A i \in DOMAIN work' : work'[i] = query.values[(c + 1) + i - 1]
  <2>1. /\ Head(work) = work[1] /\ Head(work) \in Str /\ Tail(work) \in Seq(Str)
        /\ Len(work) \in Nat \ {0} /\ DOMAIN work = 1 .. Len(work)
        /\ DOMAIN Tail(work) = 1 .. Len(work) - 1 /\ Len(Tail(work)) = Len(work) - 1
        /\ \A i \in 1 .. Len(work) - 1 : Tail(work)[i] = work[i + 1]
    BY <1>1, <1>4, HeadTail
  <2>2. 1 \in DOMAIN work /\ c + 1 - 1 = c
    BY <1>6, <2>1
  <2>3. Head(work) = query.values[c]
    BY <1>7, <2>1, <2>2
  <2>4. ASSUME NEW i \in DOMAIN Tail(work)
        PROVE  Tail(work)[i] = query.values[(c + 1) + i - 1]
    <3>1. i + 1 \in DOMAIN work /\ i \in Nat /\ Tail(work)[i] = work[i + 1]
      BY <2>1
    <3>2. c + (i + 1) - 1 = (c + 1) + i - 1
      BY <1>6, <3>1
    <3>. QED BY <1>7, <3>1, <3>2
  <2>5. Len(Tail(work)) = n - c + 1 - 1
    <3>1. Len(work) = n - c + 1
      BY <1>4, <1>5
    <3>2. Len(Tail(work)) = Len(work) - 1
      BY <2>1
    <3>. QED BY <1>6, <3>1, <3>2
  <2>6. work' = Tail(work)
    BY <1>1
  <2>. QED BY <2>1, <2>3, <2>4, <2>5, <2>6
<1>9. TypeOf(t, c) \in BaseType
  <2>1. tables[t].columns[c] \in ColumnType(tables[t].row_capacity)
    BY <1>3, <1>6, ColumnLengths DEF TypeInv
  <2>. QED BY <2>1 DEF ColumnType, TypeOf
<1>10. Value(c) \in ValuesFor(t, c) /\ FillCell(Value(c))
  BY <1>5, <1>8, <1>9, SlotValueType DEF InsertValue
<1>. HIDE DEF n, Value
<1>11. /\ status' = "up" /\ DOMAIN tables' = DOMAIN tables
       /\ \A u \in DOMAIN tables : SameShape(u)
       /\ ValueAt(t, r, c)' = Value(c)
       /\ \A d \in Columns(t) : d < c => ValueAt(t, r, d)' = ValueAt(t, r, d)
       /\ c < Len(tables[t].columns) => Contents' = Contents
       /\ ~(c < Len(tables[t].columns)) =>
             Contents' = [Contents EXCEPT ![t].rows = Append(@, Row(t, r + 1)')]
  BY <1>1, <1>3, <1>4, <1>5, <1>10, FillAppends
<1>12. Doing("INSERT", t)'
  BY <1>1, <1>2, <1>11, DoingGoesOn DEF InsertSoFar
<1>13. /\ Columns(t)' = Columns(t) /\ \A d \in Columns(t) : TypeOf(t, d)' = TypeOf(t, d)
       /\ Len(tables'[t].columns) = Len(tables[t].columns)
  BY <1>3, <1>11, SameLengths DEF SameShape, SoundStore, Inv
<1>14. fill' = NextFill
  BY <1>10, <1>11 DEF FillCell, Crash
<1>15. CASE c < n
  <2>1. fill' = [table |-> t, row |-> r, col |-> c + 1]
    BY <1>5, <1>14, <1>15 DEF NextFill, n
  <2>2. work' # <<>>
    BY <1>6, <1>8, <1>15 DEF n
  <2>3. ASSUME NEW d \in Columns(t), d < c + 1
        PROVE  ValueAt(t, r, d)' = Value(d)
    <3>1. d < c \/ d = c
      BY <1>6, <2>3
    <3>. QED BY <1>7, <1>11, <3>1
  <2>4. ASSUME NEW d \in Columns(t)', d < fill'.col
        PROVE  ValueAt(t, fill.row, d)' = SlotValue(TypeOf(t, d)', query'.values[d])
    <3>1. ValueAt(t, r, d)' = Value(d) /\ fill'.row = r
      BY <1>13, <2>1, <2>3, <2>4
    <3>2. Value(d) = SlotValue(TypeOf(t, d)', query'.values[d])
      BY <1>1, <1>13 DEF Value
    <3>. QED BY <2>1, <3>1, <3>2 DEF ValueAt, Cell, IsString, TypeOf
  <2>5. \A i \in DOMAIN work' : work'[i] = query'.values[fill'.col + i - 1]
    BY <1>1, <1>8, <2>1
  <2>6. Contents' = committed'.db /\ fill'.table = t
    BY <1>2, <1>7, <1>11, <1>15, <2>1 DEF n
  <2>. QED BY <1>1, <1>2, <1>3, <1>12, <1>13, <2>2, <2>4, <2>5, <2>6 DEF InsertSoFar
<1>16. CASE ~(c < n)
  <2>1. work' = <<>>
    BY <1>6, <1>8, <1>16 DEF n
  <2>2. ASSUME NEW d \in Columns(t)
        PROVE  ValueAt(t, r, d)' = Value(d)
    <3>1. d < c \/ d = c
      BY <1>6, <1>16 DEF n
    <3>. QED BY <1>7, <1>11, <3>1
  <2>3. /\ DOMAIN committed.db[t].columns = Columns(t)
        /\ \A d \in Columns(t) : committed.db[t].columns[d].type = TypeOf(t, d)
    BY DEF InsertSoFar, Doing
  <2>4. Row(t, r + 1)' = [d \in Columns(t) |-> Value(d)]
    <3>1. r \in Nat
      BY <1>3, <1>5 DEF TypeInv
    <3>2. r + 1 - 1 = r
      BY <3>1
    <3>3. Row(t, r + 1)' = [d \in Columns(t)' |-> ValueAt(t, r, d)']
      <4>1. \A k : k - 1 = r => Row(t, k)' = [d \in Columns(t)' |-> ValueAt(t, r, d)']
        BY RowAt
      <4>2. PICK k : k = r + 1 
        OBVIOUS
      <4>4. Row(t, r + 1)' = Row(t, k)'
        BY <4>2
      <4>3. k - 1 = r
        BY <4>2, <3>1
      <4>5. Row(t, k)' = [d \in Columns(t)' |-> ValueAt(t, r, d)']
        BY <4>1, <4>3, Zenon
      <4>. QED BY <4>4, <4>5
    <3>. QED BY <1>13, <2>2, <3>3
  <2>5. [d \in Columns(t) |-> Value(d)]
           = [d \in DOMAIN committed.db[t].columns |->
                 SlotValue(committed.db[t].columns[d].type, query.values[d])]
    BY <2>3 DEF Value
  <2>6. Inserted(committed'.db, Contents', t, query')
    BY <1>1, <1>2, <1>7, <1>11, <1>16, <2>4, <2>5 DEF Inserted, n
  <2>. QED BY <1>1, <1>2, <1>3, <1>12, <1>13, <2>1, <2>6 DEF InsertSoFar
<1>. QED BY <1>15, <1>16

LEMMA InsertReturns ==
    ASSUME Commits, NEW t, InsertSoFar(t), pc = "insert", Return
    PROVE  SqlStep /\ Ends
<1>1. /\ work = <<>> /\ UNCHANGED storageVars /\ query' = query
      /\ pc' = "idle" /\ result' = "RESULT_OK" /\ output' = <<>>
  BY DEF Return, Reply
<1>2. Contents' = Contents
  BY <1>1, Unseen
<1>3. /\ committed' = Observed'
      /\ committed'.db = Contents' /\ committed'.request = query'
      /\ committed'.result = result' /\ committed'.answer = output'
  BY <1>1, Shows
<1>4. /\ t = Sql!TableCalled(query.table) /\ query.type = "INSERT" /\ query \in Queries
      /\ Sql!Acceptable(query) /\ Inserted(committed.db, Contents, t, query)
  BY <1>1 DEF InsertSoFar, Doing
<1>5. Sql!Insert(query)
  <2> DEFINE columns == committed.db[t].columns
             row == [c \in DOMAIN columns |-> SlotValue(columns[c].type, query.values[c])]
  <2>1. row = [c \in DOMAIN columns |-> Sql!SlotValue(columns[c].type, query.values[c])]
    BY SameSlotValue
  <2>2. Sql!Insert(query) <=>
           committed'.db = [committed.db EXCEPT ![t].rows = Append(@,
                  [c \in DOMAIN columns |-> Sql!SlotValue(columns[c].type, query.values[c])])]
    BY <1>4, Zenon DEF Sql!Insert
  <2>3. committed'.db = [committed.db EXCEPT ![t].rows = Append(@, row)]
    BY <1>2, <1>3, <1>4 DEF Inserted
  <2>. QED BY <2>1, <2>2, <2>3, Zenon
<1>6. Sql!Accept(query)
  BY <1>1, <1>3, <1>4, <1>5 DEF Sql!Accept
<1>. QED BY <1>1, <1>3, <1>4, <1>6 DEF SqlStep, Sql!Next, Ends

----------------------------------------------------------------------------
(* CREATE.                                                                 *)

MadeColumns(q, k) ==
    [i \in 1 .. k |-> [name |-> q.columns[i], type |-> BaseTypeFromStr(q.types[i])]]

\* The table of q with its first k columns.
Made(q, k) == [name |-> q.table, columns |-> MadeColumns(q, k), rows |-> <<>>]

\* The first k columns have been made.
CreateUpTo(k) ==
    /\ k \in 0 .. Len(query.columns) /\ k <= Len(query.types)
    /\ Len(work) = Len(query.columns) - k
    /\ \A i \in DOMAIN work : work[i] = k + i
    /\ Contents = Append(committed.db, Made(query, k))

CreateSoFar ==
    /\ query \in Queries /\ query.type = "CREATE"
    /\ Len(query.types) <= Len(query.columns)
    /\ \A i \in DOMAIN query.types : BaseTypeFromStr(query.types[i]) \in BaseType
    /\ committed.db \in Seq(ToSet(committed.db))
    /\ \E k : CreateUpTo(k)

LEMMA OneMoreColumn ==
    ASSUME NEW q, NEW k \in Nat
    PROVE  /\ MadeColumns(q, k) \in Seq(ToSet(MadeColumns(q, k)))
           /\ Append(MadeColumns(q, k), [name |-> q.columns[k + 1],
                                         type |-> BaseTypeFromStr(q.types[k + 1])])
                = MadeColumns(q, k + 1)
<1> DEFINE F(i) == [name |-> q.columns[i], type |-> BaseTypeFromStr(q.types[i])]
           V == {F(i) : i \in 1 .. k}
           s == [i \in 1 .. k |-> F(i)]
           u == [i \in 1 .. (k + 1) |-> F(i)]
<1>1. s = MadeColumns(q, k) /\ u = MadeColumns(q, k + 1)
  BY DEF MadeColumns
<1>. HIDE DEF F
<1>2. s \in Seq(V) /\ Len(s) = k /\ ToSet(s) = V
  BY DEF ToSet
<1>3. Append(s, F(k + 1)) = u
  <2>1. Append(s, F(k + 1)) = [i \in 1 .. (k + 1) |-> IF i = k + 1 THEN F(k + 1) ELSE s[i]]
    BY <1>2
  <2>2. \A i \in 1 .. (k + 1) : (IF i = k + 1 THEN F(k + 1) ELSE s[i]) = F(i)
    OBVIOUS
  <2>. QED BY <2>1, <2>2
<1>. QED BY <1>1, <1>2, <1>3 DEF F

LEMMA ColumnAppended ==
    ASSUME NEW V, NEW db \in Seq(V), NEW tab, IsTable(tab), NEW n, n = Len(db) + 1,
           NEW columns, NEW new, SetsColumns(Append(db, tab), new, n, columns)
    PROVE  new = Append(db, [name |-> tab.name, columns |-> columns, rows |-> tab.rows])
<1> DEFINE old == Append(db, tab)
           tab2 == [name |-> tab.name, columns |-> columns, rows |-> tab.rows]
<1>1. /\ Len(db) \in Nat /\ DOMAIN old = 1 .. n /\ n \in DOMAIN old /\ old[n] = tab
      /\ \A i \in 1 .. n : i # n => old[i] = db[i]
  OBVIOUS
<1>2. new = [i \in 1 .. n |-> IF i = n THEN [tab EXCEPT !.columns = columns] ELSE old[i]]
  BY <1>1 DEF SetsColumns
<1>3. [tab EXCEPT !.columns = columns] = tab2
  BY DEF IsTable
<1>4. Append(db, tab2) = [i \in 1 .. n |-> IF i = n THEN tab2 ELSE db[i]]
  BY <1>1
<1>. HIDE DEF old, tab2
<1>5. new = [i \in 1 .. n |-> IF i = n THEN tab2 ELSE db[i]]
  BY <1>1, <1>2, <1>3
<1>. QED BY <1>4, <1>5 DEF tab2

LEMMA CreateBegins ==
    ASSUME ~AllocMayFail, AtRest, Base', Commits, NEW q \in Queries, HandledRight(q), BeginCreate(q)
    PROVE  SqlStep /\ pc' = "create" /\ CreateSoFar'
<1>1. /\ q.type = "CREATE" /\ query' = q /\ DbTableNew(q.table)
      /\ Len(q.types) <= Len(q.columns)
      /\ \A i \in DOMAIN q.types : BaseTypeFromStr(q.types[i]) \in BaseType
      /\ EnterLoop("create", [i \in DOMAIN q.columns |-> i], 1)
  BY DEF BeginCreate, Begin, HandledRight
<1>2. pc' = "create" /\ work' = [i \in DOMAIN q.columns |-> i]
  BY <1>1 DEF EnterLoop
<1>3. committed' = committed /\ SqlStep
  BY <1>2, Hidden
<1>4. /\ SoundStore /\ SoundStore' /\ status = "up" /\ ~Filling /\ TypeInv
      /\ committed.db = Contents
  BY RestIsQuiet DEF AtRest, Base, Quiet, Observed
<1>5. Contents' = Append(Contents, RowStore!EmptyTable(q.table))
  BY <1>1, <1>4, NewTableCreates DEF RowStore!CreateTable
<1>6. RowStore!EmptyTable(q.table) = Made(q, 0)
  <2>1. MadeColumns(q, 0) = <<>>
    BY DEF MadeColumns
  <2>. QED BY <2>1 DEF Made, RowStore!EmptyTable
<1>7. q.columns \in Seq(ColumnName) /\ q.types \in Seq(ToSet(q.types))
  BY <1>1, InterpreterAssumption
<1>8. committed.db \in Seq(ToSet(committed.db))
  <2>1. \E V : Contents \in Seq(V)
    BY <1>4, ContentsSeq
  <2>. QED BY <1>4, <2>1 DEF ToSet
<1>9. CreateUpTo(0)'
  <2>1. Len(q.columns) \in Nat /\ Len(q.types) \in Nat /\ DOMAIN q.columns = 1 .. Len(q.columns)
    BY <1>7
  <2>2. DOMAIN work' = 1 .. Len(q.columns) /\ Len(work') = Len(q.columns)
    BY <1>2, <2>1
  <2>3. \A i \in DOMAIN work' : work'[i] = 0 + i
    BY <1>2, <2>2
  <2>4. Contents' = Append(committed'.db, Made(query', 0))
    BY <1>1, <1>3, <1>4, <1>5, <1>6
  <2>5. Made(query, 0)' = Made(query', 0)
    BY DEF Made, MadeColumns
  <2>6. Contents' = Append(committed'.db, Made(query, 0)')
    BY <2>4, <2>5
  <2>7. 0 \in 0 .. Len(q.columns) /\ 0 <= Len(q.types) /\ Len(q.columns) - 0 = Len(q.columns)
    BY <2>1
  <2>. QED BY <1>1, <2>2, <2>3, <2>6, <2>7 DEF CreateUpTo
<1>10. CreateSoFar'
  <2>1. /\ query' \in Queries /\ query'.type = "CREATE"
        /\ Len(query'.types) <= Len(query'.columns)
        /\ \A i \in DOMAIN query'.types : BaseTypeFromStr(query'.types[i]) \in BaseType
    BY <1>1
  <2>2. committed'.db \in Seq(ToSet(committed'.db))
    BY <1>3, <1>8
  <2>. QED BY <1>9, <2>1, <2>2 DEF CreateSoFar
<1>. QED BY <1>2, <1>3, <1>10

LEMMA CreateGoesOn ==
    ASSUME ~AllocMayFail, Base, Base', Commits, CreateSoFar, CreateColumn
    PROVE  SqlStep /\ (Stops \/ (pc' = "create" /\ CreateSoFar'))
<1> DEFINE i == Head(work)
           type == BaseTypeFromStr(query.types[i])
           name == query.columns[i]
<1>1. /\ pc = "create" /\ status = "up" /\ work # <<>>
      /\ \/ pc' \in {"fatal", "segfault"}
         \/ /\ i \in DOMAIN query.types /\ TableColumnNew(Target, type, name)
            /\ tables' # tables /\ NextTurn
  BY DEF CreateColumn, Looping, Abort
<1>2. CASE pc' \in {"fatal", "segfault"}
  BY <1>2, Hidden DEF Stops
<1>3. CASE /\ i \in DOMAIN query.types /\ TableColumnNew(Target, type, name)
           /\ tables' # tables /\ NextTurn
  <2>1. pc' = "create" /\ query' = query /\ work' = Tail(work)
    BY <1>1, <1>3 DEF NextTurn
  <2>2. committed' = committed /\ SqlStep
    BY <2>1, Hidden
  <2>3. /\ query \in Queries /\ query.type = "CREATE"
        /\ Len(query.types) <= Len(query.columns)
        /\ \A j \in DOMAIN query.types : BaseTypeFromStr(query.types[j]) \in BaseType
        /\ committed.db \in Seq(ToSet(committed.db))
    BY DEF CreateSoFar
  <2>4. PICK k : CreateUpTo(k)
    BY DEF CreateSoFar
  <2>5. /\ query.columns \in Seq(ColumnName) /\ query.types \in Seq(ToSet(query.types))
        /\ k \in Nat /\ Len(query.columns) \in Nat /\ Len(query.types) \in Nat
    BY <2>3, <2>4, InterpreterAssumption DEF CreateUpTo
  <2>6. /\ work \in Seq(DOMAIN query.columns) /\ tables # <<>> /\ TypeInv /\ ~Filling
        /\ SoundStore /\ SoundStore'
    BY <1>1 DEF Base, IInv, Creating, Inserting
  <2>7. /\ i = k + 1 /\ Len(work') = Len(query.columns) - (k + 1)
        /\ \A j \in DOMAIN work' : work'[j] = (k + 1) + j
        /\ Len(work) \in Nat \ {0}
    <3>1. /\ Head(work) = work[1] /\ Tail(work) \in Seq(DOMAIN query.columns)
          /\ Len(work) \in Nat \ {0} /\ DOMAIN work = 1 .. Len(work)
          /\ DOMAIN Tail(work) = 1 .. Len(work) - 1 /\ Len(Tail(work)) = Len(work) - 1
          /\ \A j \in 1 .. Len(work) - 1 : Tail(work)[j] = work[j + 1]
      BY <1>1, <2>6, HeadTail
    <3>2. Len(work) = Len(query.columns) - k /\ \A j \in DOMAIN work : work[j] = k + j
      BY <2>4 DEF CreateUpTo
    <3>3. i = k + 1
      <4>1. 1 \in DOMAIN work
        BY <3>1
      <4>. QED BY <3>1, <3>2, <4>1
    <3>4. Len(Tail(work)) = Len(query.columns) - (k + 1)
      BY <2>5, <3>1, <3>2
    <3>5. ASSUME NEW j \in DOMAIN Tail(work)
          PROVE  Tail(work)[j] = (k + 1) + j
      <4>1. j + 1 \in DOMAIN work /\ j \in Nat /\ Tail(work)[j] = work[j + 1]
        BY <3>1
      <4>2. k + (j + 1) = (k + 1) + j
        BY <2>5, <4>1
      <4>. QED BY <3>2, <4>1, <4>2
    <3>. QED BY <2>1, <3>1, <3>3, <3>4, <3>5
  <2>8. k + 1 \in 0 .. Len(query.columns) /\ k + 1 <= Len(query.types)
    <3>1. k + 1 \in DOMAIN query.types
      BY <1>3, <2>7
    <3>. QED BY <2>3, <2>5, <3>1
  <2>9. Target \in DOMAIN tables /\ Target = Len(tables)
    BY <2>3, <2>6, Lengths DEF Target, TypeInv
  <2>10. RowStore!AddColumn(Target, name, type)
    BY <1>1, <1>3, <2>6, <2>9, NewColumnAdds
  <2> DEFINE tab == Made(query, k)
             column == [name |-> name, type |-> type]
  <2>11. Contents = Append(committed.db, tab)
    BY <2>4 DEF CreateUpTo
  <2>12. Target = Len(committed.db) + 1 /\ Contents[Target] = tab
    <3>1. Len(Contents) = Len(tables)
      BY <1>1, <2>6, ContentsSeq
    <3>. QED BY <2>3, <2>9, <2>11, <3>1
  <2>13. SetsColumns(Contents, Contents', Target, Append(tab.columns, column))
    BY <2>10, <2>12 DEF RowStore!AddColumn, SetsColumns
  <2>14. IsTable(tab) /\ tab.columns = MadeColumns(query, k) /\ tab.name = query.table /\ tab.rows = <<>>
    BY DEF IsTable, Made
  <2>15. Append(tab.columns, column) = MadeColumns(query, k + 1)
    BY <2>5, <2>7, <2>14, OneMoreColumn
  <2>. HIDE DEF tab, column, i, type, name
  <2>16. Contents' = Append(committed.db, Made(query, k + 1))
    <3>1. SetsColumns(Append(committed.db, tab), Contents', Target, MadeColumns(query, k + 1))
      BY <2>11, <2>13, <2>15
    <3>2. Contents' = Append(committed.db, [name |-> tab.name, columns |-> MadeColumns(query, k + 1), rows |-> tab.rows])
      BY <2>3, <2>12, <2>14, <3>1, ColumnAppended
    <3>. QED BY <2>14, <3>2 DEF Made
  <2>17. CreateUpTo(k + 1)'
    <3>1. Made(query, k + 1)' = Made(query, k + 1)
      BY <2>1 DEF Made, MadeColumns
    <3>. QED BY <2>1, <2>2, <2>7, <2>8, <2>16, <3>1 DEF CreateUpTo
  <2>18. CreateSoFar'
    <3>1. /\ query' \in Queries /\ query'.type = "CREATE"
          /\ Len(query'.types) <= Len(query'.columns)
          /\ \A j \in DOMAIN query'.types : BaseTypeFromStr(query'.types[j]) \in BaseType
          /\ committed'.db \in Seq(ToSet(committed'.db))
      BY <2>1, <2>2, <2>3
    <3>2. \E m : CreateUpTo(m)'
      BY <2>17
    <3>. QED BY <3>1, <3>2 DEF CreateSoFar
  <2>. QED BY <2>1, <2>2, <2>18
<1>. QED BY <1>1, <1>2, <1>3

LEMMA CreateReturns ==
    ASSUME Base, Commits, CreateSoFar, pc = "create", Return
    PROVE  SqlStep /\ Ends
<1>1. /\ work = <<>> /\ UNCHANGED storageVars /\ query' = query /\ status = "up"
      /\ pc' = "idle" /\ result' = "RESULT_OK" /\ output' = <<>>
  BY DEF Return, Reply
<1>2. Contents' = Contents
  BY <1>1, Unseen
<1>3. /\ committed' = Observed'
      /\ committed'.db = Contents' /\ committed'.request = query'
      /\ committed'.result = result' /\ committed'.answer = output'
  BY <1>1, Shows
<1>4. /\ query \in Queries /\ query.type = "CREATE"
      /\ Len(query.types) <= Len(query.columns)
      /\ \A j \in DOMAIN query.types : BaseTypeFromStr(query.types[j]) \in BaseType
      /\ committed.db \in Seq(ToSet(committed.db))
  BY DEF CreateSoFar
<1>5. PICK k : CreateUpTo(k)
  BY DEF CreateSoFar
<1>6. /\ query.columns \in Seq(ColumnName) /\ query.types \in Seq(ToSet(query.types))
      /\ k \in Nat /\ Len(query.columns) \in Nat /\ Len(query.types) \in Nat
  BY <1>4, <1>5, InterpreterAssumption DEF CreateUpTo
<1>7. Len(query.columns) = k /\ Len(query.types) = k
  <2>1. Len(query.columns) - k = 0 /\ k <= Len(query.types)
    BY <1>1, <1>5 DEF CreateUpTo
  <2>. QED BY <1>4, <1>6, <2>1
<1>8. DOMAIN query.columns = 1 .. k
  BY <1>6, <1>7
<1>9. Contents = Append(committed.db, Made(query, k))
  BY <1>5 DEF CreateUpTo
<1>10. \A c, d \in 1 .. k : query.columns[c] = query.columns[d] => c = d
  <2> DEFINE n == Len(committed.db) + 1
  <2>1. n \in DOMAIN Contents /\ Contents[n] = Made(query, k)
    BY <1>4, <1>9
  <2>2. Contents[n].columns = MadeColumns(query, k)
    BY <2>1 DEF Made
  <2>3. DOMAIN Contents[n].columns = 1 .. k /\ \A c \in 1 .. k : Contents[n].columns[c].name = query.columns[c]
    BY <2>2 DEF MadeColumns
  <2>. HIDE DEF n
  <2>. QED BY <2>1, <2>3 DEF Base, NamesDiffer
<1>11. Sql!Acceptable(query)
  <2>1. Sql!ColumnsListed(query) = {query.columns[c] : c \in 1 .. k}
    BY <1>8 DEF Sql!ColumnsListed
  <2>2. Sql!Cardinality(Sql!ColumnsListed(query)) = k
    <3>1. Enumerates(query.columns, k, Sql!ColumnsListed(query))
      BY <1>10, <2>1, Zenon DEF Enumerates
    <3>2. Cardinality(Sql!ColumnsListed(query)) = k
      BY <1>6, <3>1, CountEnumerated
    <3>. QED BY <3>2, SameCardinality
  <2>3. \A j \in DOMAIN query.types : Sql!BaseTypeFromStr(query.types[j]) \in Sql!BaseType
    BY <1>4, SameBaseType, SameTypes
  <2>. QED BY <1>4, <1>7, <2>2, <2>3 DEF Sql!Acceptable
<1>12. Sql!Create(query)
  <2>1. MadeColumns(query, k) = [c \in DOMAIN query.columns |->
              [name |-> query.columns[c], type |-> Sql!BaseTypeFromStr(query.types[c])]]
    BY <1>8, SameBaseType DEF MadeColumns
  <2>. QED BY <1>2, <1>3, <1>9, <2>1 DEF Sql!Create, Made
<1>13. Sql!Accept(query)
  BY <1>1, <1>3, <1>4, <1>11, <1>12 DEF Sql!Accept
<1>. QED BY <1>1, <1>3, <1>4, <1>13 DEF SqlStep, Sql!Next, Ends

----------------------------------------------------------------------------
(* The rows a query is about.                                              *)

LEMMA NoFilters ==
    ASSUME NEW tab, NEW row
    PROVE  Sql!Satisfies(tab, row, <<>>)
<1>1. <<>> \in Seq(ToSet(<<>>)) /\ DOMAIN <<>> = {}
  OBVIOUS
<1>2. \E g : Judges(g, tab, row, <<>>)
  BY <1>1, SatisfyTurns
<1>3. PICK g : Judges(g, tab, row, <<>>)
  BY <1>2
<1>4. g[0] = [holds |-> TRUE, relation |-> "NONE"]
  BY <1>3 DEF Judges
<1>5. Sql!Satisfies(tab, row, <<>>) = g[Len(<<>>)].holds
  BY <1>3 DEF Judges
<1>6. Len(<<>>) = 0
  OBVIOUS
<1>7. Sql!Satisfies(tab, row, <<>>) = g[0].holds
  BY <1>5, <1>6, Zenon
<1>8. g[0].holds
  BY <1>4
<1>. QED BY <1>7, <1>8, Zenon

\* What the filters of q find: all rows if it has none.
RowsFound(t, q) ==
    IF q.filters = <<>> THEN RowIds(t) ELSE FilterInterpret(t, q.filters).rows

\* rows are the numbers of the rows that satisfy q's WHERE clause.
FindsRows(t, q, rows) ==
    /\ rows \in Seq(Slots(tables[t].row_count))
    /\ Distinct(rows)
    /\ NoOr(q.filters) => Ascending(rows)
    /\ \A r \in 1 .. tables[t].row_count :
          r - 1 \in ToSet(rows) <=> Sql!Satisfies(Contents[t], Contents[t].rows[r], q.filters)

LEMMA QueryFilters ==
    ASSUME AtRest, NEW q \in Queries, NEW t, About(q, t),
           q.type \in {"SELECT", "DELETE", "UPDATE"}, HandledRight(q)
    PROVE  /\ Known(q.filters)
           /\ FilterInterpret(t, q.filters)
                 \in Found(tables[t].row_count, NoOr(q.filters), UnknownOperator(q.filters))
           /\ q.filters # <<>> =>
                 /\ FilterInterpret(t, q.filters).res # "SIGSEGV"
                 /\ FilterInterpret(t, q.filters).res = "RESULT_OK" <=>
                       \A i \in DOMAIN q.filters : Sql!FilterValid(Contents[t], q.filters[i])
<1>1. /\ q.filters \in Seq(ToSet(q.filters))
      /\ \A i \in DOMAIN q.filters : q.filters[i].next_relation \in {"NONE", "AND", "OR"}
  BY InterpreterAssumption
<1>2. KnownOperators(q)
  BY DEF HandledRight, About
<1>3. Known(q.filters)
  BY <1>1, <1>2 DEF Known, KnownOperators
<1>4. t \in DOMAIN tables /\ Quiet
  BY RestIsQuiet DEF About
<1>5. tables[t].row_count \in Nat
  BY <1>4, TableFacts DEF Quiet
<1>6. FilterInterpret(t, q.filters)
                 \in Found(tables[t].row_count, NoOr(q.filters), UnknownOperator(q.filters))
  BY <1>1, <1>5, FilterFacts
<1>7. /\ FilterInterpret(t, q.filters).res # "SIGSEGV"
      /\ FilterInterpret(t, q.filters).res = "RESULT_OK" <=>
             \A i \in DOMAIN q.filters : Sql!FilterValid(Contents[t], q.filters[i])
  BY <1>3, <1>4, FiltersRefused
<1>. QED BY <1>3, <1>6, <1>7

LEMMA QueryRows ==
    ASSUME AtRest, NEW q \in Queries, NEW t, About(q, t),
           q.type \in {"SELECT", "DELETE", "UPDATE"}, HandledRight(q),
           q.filters = <<>> \/ FilterInterpret(t, q.filters).res = "RESULT_OK"
    PROVE  FindsRows(t, q, RowsFound(t, q))
<1> DEFINE n == tables[t].row_count
<1>1. Quiet /\ t \in DOMAIN tables /\ n \in Nat
  BY RestIsQuiet, TableFacts DEF About, Quiet
<1>2. CASE q.filters = <<>>
  <2>1. RowsFound(t, q) = RowIds(t)
    BY <1>2 DEF RowsFound
  <2>2. RowIds(t) \in Seq(Slots(n)) /\ Ascending(RowIds(t)) /\ Distinct(RowIds(t))
        /\ ToSet(RowIds(t)) = Slots(n)
    BY <1>1, RowIdsFacts, RowIdsSet
  <2>3. \A r \in 1 .. n : r - 1 \in ToSet(RowIds(t))
    BY <1>1, <2>2, RowBelow
  <2>4. \A r \in 1 .. n : Sql!Satisfies(Contents[t], Contents[t].rows[r], q.filters)
    BY <1>2, NoFilters
  <2>. QED BY <2>1, <2>2, <2>3, <2>4 DEF FindsRows
<1>3. CASE q.filters # <<>>
  <2> DEFINE found == FilterInterpret(t, q.filters)
  <2>1. RowsFound(t, q) = found.rows /\ found.res = "RESULT_OK"
    BY <1>3 DEF RowsFound
  <2>2. Known(q.filters) /\ found \in Found(n, NoOr(q.filters), UnknownOperator(q.filters))
    BY QueryFilters
  <2>3. /\ found.rows \in Seq(Slots(n)) /\ Distinct(found.rows)
        /\ NoOr(q.filters) => Ascending(found.rows)
    <3>. HIDE DEF found
    <3>. QED BY <2>2 DEF Found
  <2>4. \A r \in 1 .. n :
           r - 1 \in ToSet(found.rows) <=>
               Sql!Satisfies(Contents[t], Contents[t].rows[r], q.filters)
    BY <1>1, <1>3, <2>1, <2>2, FiltersFind
  <2>. HIDE DEF found
  <2>. QED BY <2>1, <2>3, <2>4 DEF FindsRows
<1>. QED BY <1>2, <1>3

\* Row r of table t satisfies a WHERE clause.
Meets(db, t, filters, r) == Sql!Satisfies(db[t], db[t].rows[r], filters)

----------------------------------------------------------------------------
(* DELETE.                                                                 *)

LEMMA SetTwice ==
    ASSUME NEW old, NEW t \in DOMAIN old, IsTable(old[t]), NEW a, NEW mid, SetsRows(old, mid, t, a),
           NEW b, NEW new, SetsRows(mid, new, t, b)
    PROVE  SetsRows(old, new, t, b)
BY DEF SetsRows, IsTable

LEMMA NothingSet ==
    ASSUME NEW old, old = [u \in DOMAIN old |-> old[u]], NEW t \in DOMAIN old, IsTable(old[t]),
           NEW rows, rows = old[t].rows
    PROVE  SetsRows(old, old, t, rows)
<1>1. [old[t] EXCEPT !.rows = rows] = old[t]
  BY DEF IsTable
<1>. QED BY <1>1 DEF SetsRows

\* The order without its p-th member.
Skips(order, order2, p, m) ==
    order2 = [k \in 1 .. (m - 1) |-> IF k < p THEN order[k] ELSE order[k + 1]]

ListsWithout(order, m, S, x) == Lists(order, m - 1, S \ {x})

LEMMA OrderWithout ==
    ASSUME NEW m \in Nat, NEW order, NEW S \in SUBSET Int, Lists(order, m, S),
           NEW p \in 1 .. m, NEW x, order[p] = x,
           NEW order2, Skips(order, order2, p, m)
    PROVE  ListsWithout(order2, m, S, x)
<1>1. \A i \in 1 .. m : order[i] \in Int
  BY DEF Lists
<1>2. ASSUME NEW i \in 1 .. (m - 1)
      PROVE  /\ i < p => order2[i] = order[i] /\ i \in 1 .. m
             /\ ~(i < p) => order2[i] = order[i + 1] /\ i + 1 \in 1 .. m /\ p < i + 1
  BY DEF Skips
<1>3. ASSUME NEW i \in 1 .. (m - 1), NEW j \in 1 .. (m - 1), i < j
      PROVE  order2[i] < order2[j]
  <2>1. CASE j < p
    <3>1. i < p
      BY <1>3, <2>1
    <3>. QED BY <1>2, <1>3, <2>1, <3>1 DEF Lists
  <2>2. CASE ~(j < p) /\ i < p
    <3>1. i < j + 1
      BY <1>3
    <3>. QED BY <1>2, <2>2, <3>1 DEF Lists
  <2>3. CASE ~(i < p)
    <3>1. ~(j < p) /\ i + 1 < j + 1
      BY <1>3, <2>3
    <3>. QED BY <1>2, <2>3, <3>1 DEF Lists
  <2>. QED BY <2>1, <2>2, <2>3
<1>4. ASSUME NEW y \in S \ {x}
      PROVE  \E k \in 1 .. (m - 1) : order2[k] = y
  <2>1. PICK k \in 1 .. m : order[k] = y
    BY DEF Lists
  <2>2. k # p
    BY <1>4, <2>1
  <2>3. CASE k < p
    <3>1. k \in 1 .. (m - 1)
      BY <2>3
    <3>. QED BY <1>2, <2>1, <2>3, <3>1
  <2>4. CASE k > p
    <3>1. k - 1 \in 1 .. (m - 1) /\ ~(k - 1 < p) /\ (k - 1) + 1 = k
      BY <2>4
    <3>. QED BY <1>2, <2>1, <3>1
  <2>. QED BY <2>2, <2>3, <2>4
<1>5. ASSUME NEW k \in 1 .. (m - 1)
      PROVE  order2[k] \in S \ {x}
  <2>1. ASSUME NEW i \in 1 .. m, i # p PROVE order[i] \in S /\ order[i] # x
    <3>1. i < p \/ p < i
      BY <2>1
    <3>2. order[i] < order[p] \/ order[p] < order[i]
      BY <3>1 DEF Lists
    <3>. QED BY <1>1, <3>2 DEF Lists
  <2>2. k < p => k # p
    OBVIOUS
  <2>3. p < k + 1 => k + 1 # p
    OBVIOUS
  <2>. QED BY <1>2, <2>1, <2>2, <2>3
<1>6. S \ {x} = {order2[k] : k \in 1 .. (m - 1)}
  <2>1. S \ {x} \subseteq {order2[k] : k \in 1 .. (m - 1)}
    BY <1>4
  <2>2. {order2[k] : k \in 1 .. (m - 1)} \subseteq S \ {x}
    <3>. SUFFICES ASSUME NEW k \in 1 .. (m - 1) PROVE order2[k] \in S \ {x}
      OBVIOUS
    <3>. QED BY <1>5
  <2>. QED BY <2>1, <2>2, Zenon
<1>. QED BY <1>3, <1>6 DEF Lists, ListsWithout

LEMMA SeenRows ==
    ASSUME Quiet, NEW t \in DOMAIN tables
    PROVE  /\ Contents = [u \in DOMAIN Contents |-> Contents[u]]
           /\ Contents[t].rows \in Seq(ToSet(Contents[t].rows))
           /\ Len(Contents[t].rows) = tables[t].row_count
           /\ tables[t].row_count \in Nat
<1> DEFINE n == tables[t].row_count
           R == Contents[t].rows
<1>1. Contents = [u \in DOMAIN Contents |-> Contents[u]]
  BY DEF Contents, Quiet
<1>2. n \in Nat
  BY TableFacts DEF Quiet
<1>3. R = [r \in 1 .. n |-> [c \in Columns(t) |-> ValueAt(t, r - 1, c)]]
  BY SeenTable
<1>4. DOMAIN R = 1 .. n /\ R = [r \in 1 .. n |-> R[r]]
  <2>. SUFFICES ASSUME NEW S, NEW F, S = R, F = [r \in 1 .. n |-> [c \in Columns(t) |-> ValueAt(t, r - 1, c)]]
                PROVE  DOMAIN S = 1 .. n /\ S = [r \in 1 .. n |-> S[r]]
    OBVIOUS
  <2>. HIDE DEF n, R
  <2>. QED BY <1>3
<1>. HIDE DEF R, n
<1>5. R \in Seq(ToSet(R)) /\ Len(R) = n
  <2>1. \A r \in 1 .. n : R[r] \in ToSet(R)
    BY <1>4 DEF ToSet
  <2>2. R \in [1 .. n -> ToSet(R)]
    BY <1>4, <2>1
  <2>. QED BY <1>2, <1>4, <2>2
<1>. QED BY <1>1, <1>2, <1>5 DEF R, n

\* The rows to delete from the one the cursor is at on still stand where they
\* stood, `gone' places earlier.
RestInPlace(order, n, m, todo, gone) ==
    todo # <<>> =>
        \A x \in Head(todo) + 1 .. n : x - gone \in 1 .. m /\ order[x - gone] = x

\* Of the n rows of table t in old, those are left that are not to be deleted,
\* and those that are still to do.
Left(old, t, filters, todo, n) ==
    {r \in 1 .. n : ~Meets(old, t, filters, r) \/ r - 1 \in ToSet(todo)}

\* new has the m of them that are left.
LeftIn(old, new, t, filters, todo, gone, n, m, order) ==
    /\ Lists(order, m, Left(old, t, filters, todo, n))
    /\ SetsRows(old, new, t, [k \in 1 .. m |-> old[t].rows[order[k]]])
    /\ RestInPlace(order, n, m, todo, gone)

ToDelete(old, t, filters, todo, gone, n) ==
    /\ todo \in Seq(Slots(n)) /\ Ascending(todo)
    /\ \A i \in DOMAIN todo : Meets(old, t, filters, todo[i] + 1)
    /\ filters = <<>> => \A i \in DOMAIN todo : todo[i] = gone + i - 1

DeletedSoFar(old, new, t, filters, todo, gone, n, m) ==
    /\ ToDelete(old, t, filters, todo, gone, n)
    /\ m \in Nat
    /\ \E order : LeftIn(old, new, t, filters, todo, gone, n, m, order)

LEMMA NoneDeleted ==
    ASSUME NEW old, old = [u \in DOMAIN old |-> old[u]], NEW t \in DOMAIN old, IsTable(old[t]),
           NEW n, n = Len(old[t].rows), old[t].rows \in Seq(ToSet(old[t].rows)),
           NEW filters, NEW todo, ToDelete(old, t, filters, todo, 0, n),
           \A r \in 1 .. n : r - 1 \in ToSet(todo) <=> Meets(old, t, filters, r)
    PROVE  DeletedSoFar(old, old, t, filters, todo, 0, n, n)
<1> DEFINE order == [k \in 1 .. n |-> k]
           R == old[t].rows
<1>1. n \in Nat /\ R \in Seq(ToSet(R)) /\ Len(R) = n
  OBVIOUS
<1>2. Left(old, t, filters, todo, n) = 1 .. n
  BY DEF Left
<1>3. Lists(order, n, Left(old, t, filters, todo, n))
  BY <1>1, <1>2 DEF Lists
<1>4. [k \in 1 .. n |-> R[order[k]]] = R
  <2>. HIDE DEF R
  <2>. QED BY <1>1
<1>5. SetsRows(old, old, t, [k \in 1 .. n |-> R[order[k]]])
  BY <1>4, NothingSet
<1>6. ASSUME todo # <<>>, NEW x \in Head(todo) + 1 .. n
      PROVE  x - 0 \in 1 .. n /\ order[x - 0] = x
  <2>1. Head(todo) \in Slots(n)
    BY <1>6, HeadTail DEF ToDelete
  <2>2. Head(todo) \in Nat
    BY <1>1, <2>1 DEF Slots
  <2>3. x \in 1 .. n /\ x - 0 = x
    BY <1>1, <1>6, <2>2
  <2>. QED BY <2>3
<1>. HIDE DEF order, R
<1>7. RestInPlace(order, n, n, todo, 0)
  BY <1>6 DEF RestInPlace
<1>8. LeftIn(old, old, t, filters, todo, 0, n, n, order)
  BY <1>3, <1>5, <1>7 DEF LeftIn, R
<1>. QED BY <1>1, <1>8 DEF DeletedSoFar

Staying(old, t, filters, n) == {r \in 1 .. n : ~Meets(old, t, filters, r)}

LEMMA AllDeleted ==
    ASSUME NEW old, NEW t \in DOMAIN old, IsTable(old[t]), NEW n \in Nat, NEW m, NEW new,
           NEW filters, NEW gone, DeletedSoFar(old, new, t, filters, <<>>, gone, n, m)
    PROVE  SetsRows(old, new, t, Sql!Kept(old[t].rows, Staying(old, t, filters, n)))
<1> DEFINE S == Left(old, t, filters, <<>>, n)
           list == old[t].rows
<1>1. PICK order : LeftIn(old, new, t, filters, <<>>, gone, n, m, order)
  BY DEF DeletedSoFar
<1>2. S = Staying(old, t, filters, n)
  BY DEF Left, ToSet, Staying
<1>3. m \in Nat /\ S \in SUBSET (1 .. n)
  BY DEF DeletedSoFar, Left
<1>4. Lists(order, m, S) /\ SetsRows(old, new, t, [k \in 1 .. m |-> list[order[k]]])
  BY <1>1 DEF LeftIn
<1>. HIDE DEF S, list
<1>5. Sql!Kept(list, S) = [k \in 1 .. m |-> list[order[k]]]
  <2>1. S \in SUBSET Nat
    BY <1>3
  <2>2. KeepsThose(list, S, m, order)
    BY <1>3, <1>4, <2>1, ListedIsKept
  <2>. QED BY <2>2 DEF KeepsThose
<1>. QED BY <1>2, <1>4, <1>5 DEF list

LEMMA HeadInPlace ==
    ASSUME NEW old, NEW t, NEW n \in Nat, NEW m, NEW new, NEW filters, NEW gone \in Nat, NEW todo,
           todo # <<>>, DeletedSoFar(old, new, t, filters, todo, gone, n, m)
    PROVE  /\ Head(todo) \in Nat /\ Head(todo) + 1 \in 1 .. n
           /\ (Head(todo) + 1) - gone \in 1 .. m
           /\ Head(todo) - gone \in 0 .. m - 1
<1>1. /\ todo \in Seq(Slots(n)) /\ m \in Nat
      /\ \E order : RestInPlace(order, n, m, todo, gone)
  BY DEF DeletedSoFar, ToDelete, LeftIn
<1>2. Head(todo) \in Slots(n)
  BY <1>1, HeadTail
<1>3. Head(todo) \in Nat /\ Head(todo) + 1 \in Head(todo) + 1 .. n /\ Head(todo) + 1 \in 1 .. n
  BY <1>2 DEF Slots
<1>4. (Head(todo) + 1) - gone \in 1 .. m
  BY <1>1, <1>3 DEF RestInPlace
<1>5. ASSUME NEW h \in Nat, (h + 1) - gone \in 1 .. m PROVE h - gone \in 0 .. m - 1
  BY <1>1, <1>5
<1>. QED BY <1>3, <1>4, <1>5

LEMMA HeadAndTail ==
    ASSUME NEW V, NEW l \in Seq(V), l # <<>>
    PROVE  \A x : x \in ToSet(l) <=> x = Head(l) \/ x \in ToSet(Tail(l))
<1>1. /\ Len(l) \in Nat \ {0} /\ Head(l) = l[1]
      /\ DOMAIN l = 1 .. Len(l) /\ DOMAIN Tail(l) = 1 .. Len(l) - 1
      /\ \A i \in 1 .. Len(l) - 1 : Tail(l)[i] = l[i + 1]
  BY HeadTail
<1> DEFINE tail == Tail(l)
<1>. HIDE DEF tail
<1>2. ASSUME NEW i \in DOMAIN l, i # 1 PROVE \E j \in DOMAIN tail : tail[j] = l[i]
  <2>1. i - 1 \in 1 .. Len(l) - 1 /\ (i - 1) + 1 = i
    BY <1>1, <1>2
  <2>. QED BY <1>1, <2>1 DEF tail
<1>3. ASSUME NEW j \in DOMAIN tail PROVE \E i \in DOMAIN l : l[i] = tail[j]
  <2>1. j + 1 \in DOMAIN l /\ tail[j] = l[j + 1]
    BY <1>1 DEF tail
  <2>. QED BY <2>1
<1>4. 1 \in DOMAIN l
  BY <1>1
<1>5. ASSUME NEW x, x \in ToSet(l), x # l[1] PROVE x \in ToSet(tail)
  BY <1>2, <1>5 DEF ToSet
<1>6. ASSUME NEW x \in ToSet(tail) PROVE x \in ToSet(l)
  BY <1>3 DEF ToSet
<1>7. l[1] \in ToSet(l)
  BY <1>4 DEF ToSet
<1>8. Head(l) = l[1]
  BY <1>1
<1>. QED BY <1>5, <1>6, <1>7, <1>8 DEF tail

\* One row less to delete.
TodoTail(old, t, n, filters, gone, todo) ==
    /\ ToDelete(old, t, filters, Tail(todo), gone + 1, n)
    /\ Left(old, t, filters, Tail(todo), n) = Left(old, t, filters, todo, n) \ {Head(todo) + 1}
    /\ Tail(todo) # <<>> => Head(Tail(todo)) \in Nat /\ Head(todo) < Head(Tail(todo))

LEMMA TailTodo ==
    ASSUME NEW old, NEW t, NEW n \in Nat, NEW filters, NEW gone \in Nat, NEW todo,
           todo # <<>>, ToDelete(old, t, filters, todo, gone, n)
    PROVE  TodoTail(old, t, n, filters, gone, todo)
<1> DEFINE h == Head(todo)
           tail == Tail(todo)
<1>1. /\ h \in Slots(n) /\ tail \in Seq(Slots(n)) /\ Len(todo) \in Nat \ {0}
      /\ h = todo[1] /\ DOMAIN todo = 1 .. Len(todo) /\ DOMAIN tail = 1 .. Len(todo) - 1
      /\ \A i \in 1 .. Len(todo) - 1 : tail[i] = todo[i + 1]
  BY HeadTail DEF ToDelete
<1>2. Ascending(tail) /\ \A i \in 1 .. Len(todo) - 1 : tail[i] >= todo[1] + 1
  <2>1. Slots(n) \in SUBSET Int
    BY DEF Slots
  <2>. QED BY <2>1, TailAscends DEF ToDelete
<1>3. h \in Nat /\ \A i \in DOMAIN tail : tail[i] \in Nat
  <2>1. \A x \in Slots(n) : x \in Nat
    BY DEF Slots
  <2>. QED BY <1>1, <2>1
<1>. HIDE DEF h, tail
<1>4. \A i \in DOMAIN tail : h < tail[i]
  BY <1>1, <1>2, <1>3
<1>5. ToDelete(old, t, filters, tail, gone + 1, n)
  <2>1. ASSUME NEW i \in DOMAIN tail
        PROVE  i + 1 \in DOMAIN todo /\ tail[i] = todo[i + 1] /\ gone + (i + 1) - 1 = (gone + 1) + i - 1
    BY <1>1
  <2>. QED BY <1>1, <1>2, <2>1 DEF ToDelete
<1>6. Meets(old, t, filters, h + 1)
  <2>1. 1 \in DOMAIN todo
    BY <1>1
  <2>. QED BY <1>1, <2>1 DEF ToDelete
<1>7. \A x : x \in ToSet(todo) <=> x = h \/ x \in ToSet(tail)
  BY HeadAndTail DEF ToDelete, h, tail
<1>8. h \notin ToSet(tail)
  BY <1>3, <1>4 DEF ToSet
<1>9. ASSUME NEW r \in 1 .. n
      PROVE  r \in Left(old, t, filters, tail, n) <=> r \in Left(old, t, filters, todo, n) /\ r # h + 1
  <2>1. r - 1 = h <=> r = h + 1
    BY <1>3
  <2>. QED BY <1>6, <1>7, <1>8, <2>1 DEF Left
<1>10. Left(old, t, filters, tail, n) = Left(old, t, filters, todo, n) \ {h + 1}
  BY <1>9 DEF Left
<1>11. tail # <<>> => Head(tail) \in Nat /\ h < Head(tail)
  <2>1. tail # <<>> => Head(tail) = tail[1] /\ 1 \in DOMAIN tail
    BY <1>1
  <2>. QED BY <1>3, <1>4, <2>1
<1>. QED BY <1>5, <1>10, <1>11 DEF h, tail, TodoTail

LEMMA HeadStands ==
    ASSUME NEW order, NEW n, NEW m, NEW todo, todo # <<>>, NEW gone,
           RestInPlace(order, n, m, todo, gone), NEW x, x = Head(todo) + 1, x \in x .. n, NEW p, p = x - gone
    PROVE  order[p] = x
<1>1. \A y \in x .. n : order[y - gone] = y
  BY DEF RestInPlace
<1>2. order[x - gone] = x
  BY <1>1
<1>. QED BY <1>2

RowTakenOut(old, new, t, p) == new = [old EXCEPT ![t].rows = RowStore!RemoveAt(@, p)]

LEMMA OneMoreDeleted ==
    ASSUME NEW old, NEW t \in DOMAIN old, IsTable(old[t]),
           NEW n \in Nat, n = Len(old[t].rows), old[t].rows \in Seq(ToSet(old[t].rows)),
           NEW filters, NEW gone \in Nat, NEW todo, todo # <<>>, NEW m, NEW new,
           DeletedSoFar(old, new, t, filters, todo, gone, n, m),
           NEW p, p = (Head(todo) + 1) - gone,
           NEW new2, RowTakenOut(new, new2, t, p)
    PROVE  DeletedSoFar(old, new2, t, filters, Tail(todo), gone + 1, n, m - 1)
<1> DEFINE h == Head(todo)
           tail == Tail(todo)
           S == Left(old, t, filters, todo, n)
           R == old[t].rows
<1>1. m \in Nat /\ ToDelete(old, t, filters, todo, gone, n)
  BY DEF DeletedSoFar
<1>2. PICK order : LeftIn(old, new, t, filters, todo, gone, n, m, order)
  BY DEF DeletedSoFar
<1>3. Lists(order, m, S) /\ RestInPlace(order, n, m, todo, gone)
      /\ SetsRows(old, new, t, [k \in 1 .. m |-> R[order[k]]])
  BY <1>2 DEF LeftIn
<1>4. h \in Nat /\ h + 1 \in 1 .. n /\ p \in 1 .. m /\ m \in Nat \ {0} /\ m - 1 \in Nat
  <2>1. h \in Nat /\ h + 1 \in 1 .. n /\ p \in 1 .. m
    BY HeadInPlace
  <2>. QED BY <1>1, <2>1
<1>5. order[p] = h + 1
  <2>1. PICK x : x = h + 1
    OBVIOUS
  <2>2. h + 1 \in Int /\ h + 1 <= n
    BY <1>4
  <2>. HIDE DEF h
  <2>3. x \in x .. n
    BY <2>1, <2>2
  <2>4. p = x - gone /\ x = Head(todo) + 1
    BY <2>1, Zenon DEF h
  <2>5. order[p] = x
    BY <1>3, <2>3, <2>4, HeadStands
  <2>. QED BY <2>1, <2>5
<1>6. /\ ToDelete(old, t, filters, tail, gone + 1, n)
      /\ Left(old, t, filters, tail, n) = S \ {h + 1}
      /\ tail # <<>> => Head(tail) \in Nat /\ h < Head(tail)
  <2>. HIDE DEF ToDelete, Left
  <2>1. TodoTail(old, t, n, filters, gone, todo)
    BY <1>1, TailTodo
  <2>. QED BY <2>1 DEF TodoTail
<1>7. S \in SUBSET (1 .. n) /\ S \in SUBSET Int
  BY DEF Left
<1> DEFINE order2 == [k \in 1 .. (m - 1) |-> IF k < p THEN order[k] ELSE order[k + 1]]
           seq == [k \in 1 .. m |-> R[order[k]]]
           f == [k \in 1 .. (m - 1) |-> R[order2[k]]]
<1>8. Lists(order2, m - 1, S \ {h + 1})
  <2> DEFINE x == h + 1
  <2>1. order[p] = x /\ Lists(order, m, S) /\ m \in Nat /\ p \in 1 .. m /\ S \in SUBSET Int
    BY <1>1, <1>3, <1>4, <1>5, <1>7
  <2>2. Skips(order, order2, p, m)
    BY DEF Skips
  <2>. HIDE DEF S, h, x, order2
  <2>3. ListsWithout(order2, m, S, x)
    BY <2>1, <2>2, OrderWithout
  <2>. QED BY <2>3 DEF x, ListsWithout
<1>. HIDE DEF S
<1>9. \A k \in 1 .. m : order[k] \in 1 .. n
  BY <1>3, <1>7 DEF Lists
<1>10. f = RowStore!RemoveAt(seq, p)
  <2>1. R \in Seq(ToSet(R)) /\ DOMAIN R = 1 .. n
    OBVIOUS
  <2>. HIDE DEF R
  <2>2. seq \in Seq(ToSet(R)) /\ Len(seq) = m
    <3>1. \A k \in 1 .. m : R[order[k]] \in ToSet(R)
      BY <1>9, <2>1 DEF ToSet
    <3>. QED BY <1>1, <3>1
  <2>3. FunctionOn(f, Len(seq) - 1)
    BY <2>2 DEF FunctionOn
  <2>4. ASSUME NEW i \in 1 .. m - 1
        PROVE  f[i] = IF i < p THEN seq[i] ELSE seq[i + 1]
    <3>1. i \in 1 .. m /\ i + 1 \in 1 .. m
      BY <1>4
    <3>. QED BY <3>1
  <2>5. p \in 1 .. Len(seq)
    BY <1>4, <2>2
  <2>. HIDE DEF f, seq
  <2>. QED BY <2>2, <2>3, <2>4, <2>5, IsRemoveAt
<1>. HIDE DEF R, seq, f, order2, h, tail
<1>11. new[t].rows = seq /\ t \in DOMAIN new
  <2>1. SetsRows(old, new, t, seq)
    BY <1>3 DEF seq
  <2>2. Becomes(old, new, t, old[t].name, old[t].columns, seq)
    BY <2>1, RowsSet
  <2>. QED BY <2>2 DEF Becomes, OthersSame
<1>12. SetsRows(new, new2, t, f)
  BY <1>10, <1>11 DEF SetsRows, RowTakenOut
<1>13. SetsRows(old, new2, t, f)
  <2>1. SetsRows(old, new, t, seq)
    BY <1>3 DEF seq
  <2>. QED BY <1>12, <2>1, SetTwice
<1>14. ASSUME tail # <<>>, NEW x \in Head(tail) + 1 .. n
       PROVE  x - (gone + 1) \in 1 .. (m - 1) /\ order2[x - (gone + 1)] = x
  <2> DEFINE k == x - (gone + 1)
  <2>1. x \in h + 1 .. n /\ x \in Int /\ x > h + 1
    BY <1>4, <1>6, <1>14
  <2>2. x - gone \in 1 .. m /\ order[x - gone] = x
    BY <1>3, <2>1 DEF RestInPlace, h
  <2>3. p = (h + 1) - gone
    BY DEF h
  <2>4. k \in 1 .. (m - 1) /\ ~(k < p) /\ k + 1 = x - gone
    BY <1>4, <2>1, <2>2, <2>3
  <2>. HIDE DEF k
  <2>5. order2[k] = order[k + 1]
    BY <2>4 DEF order2
  <2>6. order2[k] = x /\ k \in 1 .. (m - 1)
    BY <2>2, <2>4, <2>5
  <2>. QED BY <2>6 DEF k
<1>15. RestInPlace(order2, n, m - 1, tail, gone + 1)
  BY <1>14 DEF RestInPlace
<1>16. LeftIn(old, new2, t, filters, tail, gone + 1, n, m - 1, order2)
  BY <1>6, <1>8, <1>13, <1>15 DEF LeftIn, f, R
<1>. QED BY <1>4, <1>6, <1>16 DEF DeletedSoFar, tail

\* The rows DELETE has not come to yet are left, and those that are to stay.
DeleteSoFar(t) ==
    /\ Doing("DELETE", t)
    /\ NoOr(query.filters)
    /\ committed.db[t].rows \in Seq(ToSet(committed.db[t].rows))
    /\ DeletedSoFar(committed.db, Contents, t, query.filters, work, deleted,
                    Len(committed.db[t].rows), tables[t].row_count)

LEMMA DeleteAcceptable ==
    ASSUME AtRest, NEW q, q.type = "DELETE", NEW t, About(q, t)
    PROVE  Sql!Acceptable(q) <=> \A i \in DOMAIN q.filters : Sql!FilterValid(Contents[t], q.filters[i])
BY AboutTable DEF Sql!Acceptable, About

LEMMA RowIdAt ==
    ASSUME NEW t, tables[t].row_count \in Nat
    PROVE  \A i \in DOMAIN RowIds(t) : RowIds(t)[i] = 0 + i - 1
BY DEF RowIds

LEMMA DeleteStarts ==
    ASSUME AtRest, Commits, NEW q \in Queries, q.type = "DELETE", query' = q, NEW t, About(q, t),
           HandledRight(q), q.filters = <<>> \/ FilterInterpret(t, q.filters).res = "RESULT_OK",
           NEW rows, rows = RowsFound(t, q), NEW held, EnterLoop("delete", rows, held),
           UNCHANGED storageVars
    PROVE  SqlStep /\ pc' = "delete" /\ DeleteSoFar(t)'
<1> DEFINE n == tables[t].row_count
<1>1. Quiet /\ t \in DOMAIN tables /\ n \in Nat /\ TypeInv /\ status = "up"
  BY RestIsQuiet, TableFacts DEF About, Quiet
<1>2. pc' = "delete" /\ work' = rows /\ deleted' = 0
  BY DEF EnterLoop
<1>3. committed' = committed /\ SqlStep
  BY <1>2, Hidden
<1>4. FindsRows(t, q, rows)
  BY QueryRows
<1>5. NoOr(q.filters)
  <2>1. CASE q.filters = <<>>
    BY <2>1 DEF NoOr
  <2>2. CASE FilterInterpret(t, q.filters).res = "RESULT_OK"
    BY <2>2 DEF HandledRight, About, NoOr
  <2>. QED BY <2>1, <2>2
<1>6. Sql!Acceptable(q)
  <2>1. CASE q.filters = <<>>
    BY <2>1, DeleteAcceptable
  <2>2. CASE q.filters # <<>>
    BY <2>2, QueryFilters, DeleteAcceptable
  <2>. QED BY <2>1, <2>2
<1>7. /\ tables' = tables /\ Contents' = Contents /\ DOMAIN tables' = DOMAIN tables
      /\ \A u \in DOMAIN tables : SameShape(u)
  BY Unseen DEF storageVars, SameShape, Columns, TypeOf
<1>8. Doing("DELETE", t)'
  BY <1>3, <1>6, <1>7, DoingBegins
<1>9. /\ Contents = [u \in DOMAIN Contents |-> Contents[u]]
      /\ Contents[t].rows \in Seq(ToSet(Contents[t].rows)) /\ Len(Contents[t].rows) = n
  BY <1>1, SeenRows
<1>10. t \in DOMAIN Contents /\ IsTable(Contents[t])
  BY <1>1, SeenColumns
<1>11. ToDelete(Contents, t, q.filters, rows, 0, n)
  <2>1. rows \in Seq(Slots(n)) /\ Ascending(rows)
    BY <1>4, <1>5 DEF FindsRows
  <2>2. ASSUME NEW i \in DOMAIN rows
        PROVE  Meets(Contents, t, q.filters, rows[i] + 1)
    <3>1. rows[i] \in Slots(n) /\ rows[i] \in ToSet(rows)
      BY <2>1 DEF ToSet
    <3>2. rows[i] + 1 \in 1 .. n /\ (rows[i] + 1) - 1 = rows[i]
      BY <1>1, <3>1 DEF Slots
    <3>. QED BY <1>4, <3>1, <3>2 DEF FindsRows, Meets
  <2>3. ASSUME q.filters = <<>>
        PROVE  \A i \in DOMAIN rows : rows[i] = 0 + i - 1
    BY <1>1, <2>3, RowIdAt DEF RowsFound
  <2>. QED BY <2>1, <2>2, <2>3 DEF ToDelete
<1>12. \A r \in 1 .. n : r - 1 \in ToSet(rows) <=> Meets(Contents, t, q.filters, r)
  BY <1>4 DEF FindsRows, Meets
<1>13. DeletedSoFar(Contents, Contents, t, q.filters, rows, 0, n, n)
  BY <1>9, <1>10, <1>11, <1>12, NoneDeleted
<1>14. committed'.db = Contents
  BY <1>3 DEF AtRest, Observed
<1>15. tables'[t].row_count = n
  BY <1>7
<1>. HIDE DEF n
<1>16. DeleteSoFar(t)'
  BY <1>2, <1>5, <1>7, <1>8, <1>9, <1>13, <1>14, <1>15 DEF DeleteSoFar
<1>. QED BY <1>2, <1>3, <1>16

LEMMA DeleteBegins ==
    ASSUME AtRest, Commits, NEW q \in Queries, HandledRight(q), BeginDelete(q)
    PROVE  SqlStep /\ (Ends \/ Stops \/ (pc' = "delete" /\ \E t : DeleteSoFar(t)'))
<1>. SUFFICES ASSUME NEW t, t = TableNamed(q.table)
              PROVE  SqlStep /\ (Ends \/ Stops \/ (pc' = "delete" /\ DeleteSoFar(t)'))
  OBVIOUS
<1> DEFINE found == FilterInterpret(t, q.filters)
<1>1. q.type = "DELETE" /\ query' = q /\ About(q, t) /\ UNCHANGED storageVars
  <2>1. q.type = "DELETE" /\ query' = q /\ TablesNamed(q.table) # {} /\ UNCHANGED storageVars
    BY DEF BeginDelete, Begin
  <2>2. t \in DOMAIN tables
    BY <2>1, NamedTable DEF AtRest, Base, IInv
  <2>. QED BY <2>1, <2>2 DEF About
<1>2. \/ q.filters = <<>> /\ EnterLoop("delete", RowIds(t), 0)
      \/ q.filters # <<>> /\ found.res = "RESULT_OK" /\ EnterLoop("delete", found.rows, found.held)
      \/ Abort("segfault")
      \/ q.filters # <<>> /\ found.res # "RESULT_OK" /\ Reply(found.res, <<>>, found.held)
  BY DEF BeginDelete
<1>3. CASE q.filters = <<>> /\ EnterLoop("delete", RowIds(t), 0)
  <2>1. RowsFound(t, q) = RowIds(t)
    BY <1>3 DEF RowsFound
  <2>. QED BY <1>1, <1>3, <2>1, DeleteStarts
<1>4. CASE q.filters # <<>> /\ found.res = "RESULT_OK" /\ EnterLoop("delete", found.rows, found.held)
  <2>1. RowsFound(t, q) = found.rows
    BY <1>4 DEF RowsFound
  <2>. QED BY <1>1, <1>4, <2>1, DeleteStarts
<1>5. CASE Abort("segfault")
  <2>1. pc' = "segfault"
    BY <1>5 DEF Abort
  <2>. QED BY <2>1, Hidden DEF Stops
<1>6. CASE q.filters # <<>> /\ found.res # "RESULT_OK" /\ Reply(found.res, <<>>, found.held)
  <2>1. ~Sql!Acceptable(q)
    BY <1>1, <1>6, QueryFilters, DeleteAcceptable
  <2>2. Contents' = Contents
    BY <1>1, Unseen
  <2>. QED BY <1>1, <1>6, <2>1, <2>2, Refused DEF AtRest, Ends
<1>. QED BY <1>2, <1>3, <1>4, <1>5, <1>6

LEMMA ModSmall ==
    ASSUME NEW x \in Nat, NEW m \in Nat, x < m
    PROVE  x % m = x
OBVIOUS

LEMMA DeleteGoesOn ==
    ASSUME ~AllocMayFail, MaxRows <= Mod64, Base, Base', Commits, NEW t, DeleteSoFar(t), DeleteRow
    PROVE  SqlStep /\ pc' = "delete" /\ DeleteSoFar(t)'
<1> DEFINE old == committed.db
           n == Len(old[t].rows)
           m == tables[t].row_count
           h == Head(work)
           filters == query.filters
<1>1. /\ pc = "delete" /\ status = "up" /\ work # <<>>
      /\ TableRowDelete(Target, DeleteIndex)
      /\ DeleteIndex < m => pc' = "delete" /\ query' = query /\ work' = Tail(work) /\ deleted' = deleted + 1
  BY DEF DeleteRow, Looping, NextTurn, DeleteSoFar, Doing
<1>2. /\ Doing("DELETE", t) /\ NoOr(filters) /\ old[t].rows \in Seq(ToSet(old[t].rows))
      /\ DeletedSoFar(old, Contents, t, filters, work, deleted, n, m)
  BY DEF DeleteSoFar
<1>3. t = Target /\ t \in DOMAIN tables /\ t \in DOMAIN old /\ IsTable(old[t])
  BY <1>2 DEF Doing
<1>4. /\ SoundStore /\ SoundStore' /\ ~Filling /\ deleted \in Nat /\ m \in 0 .. MaxRows
      /\ n \in Nat
  <2>1. SoundStore /\ SoundStore' /\ ~Filling /\ deleted \in Nat
    BY <1>1 DEF Base, IInv, Inserting, Asking
  <2>2. m \in 0 .. MaxRows
    BY <1>3 DEF Base, Few
  <2>3. n \in Nat
    BY <1>2, LenProperties
  <2>. QED BY <2>1, <2>2, <2>3
<1>5. h \in Nat /\ (h + 1) - deleted \in 1 .. m /\ h - deleted \in 0 .. m - 1
  BY <1>1, <1>2, <1>4, HeadInPlace
<1>6. DeleteIndex = h - deleted
  <2>1. CASE filters = <<>>
    <3>1. work \in Seq(Slots(n)) /\ \A i \in DOMAIN work : work[i] = deleted + i - 1
      BY <1>2, <2>1 DEF DeletedSoFar, ToDelete
    <3>2. 1 \in DOMAIN work /\ h = work[1]
      BY <1>1, <3>1, HeadTail
    <3>3. h = deleted + (1 - 1)
      BY <3>1, <3>2
    <3>4. h - deleted = 0
      BY <1>4, <1>5, <3>3
    <3>. QED BY <2>1, <3>4 DEF DeleteIndex
  <2>2. CASE filters # <<>>
    <3>1. Mod64 \in Nat /\ MaxRows \in Nat
      BY FilterAssumption, StorageAssumption
    <3>2. PICK d \in Nat : d = h - deleted /\ d < Mod64
      <4>. HIDE DEF h, m
      <4>1. h - deleted \in 0 .. m - 1 /\ m \in Nat /\ m <= Mod64
        BY <1>4, <1>5, <3>1
      <4>. QED BY <3>1, <4>1
    <3>3. d % Mod64 = d
      BY <3>1, <3>2, ModSmall
    <3>. QED BY <2>2, <3>2, <3>3 DEF DeleteIndex
  <2>. QED BY <2>1, <2>2
<1>. HIDE DEF h
<1>7. /\ DeleteIndex \in Nat /\ DeleteIndex < m /\ DeleteIndex + 1 = (h + 1) - deleted
  BY <1>4, <1>5, <1>6
<1>8. /\ pc' = "delete" /\ query' = query /\ work' = Tail(work) /\ deleted' = deleted + 1
      /\ TableRowDelete(t, DeleteIndex)
  BY <1>1, <1>3, <1>7
<1>9. committed' = committed /\ SqlStep
  BY <1>8, Hidden
<1>10. PICK index \in Nat : index = DeleteIndex
  BY <1>7
<1>11. /\ RowStore!RemoveRow(t, index + 1)
       /\ status' = "up" /\ DOMAIN tables' = DOMAIN tables
       /\ \A u \in DOMAIN tables : SameShape(u)
       /\ tables'[t].row_count = m - 1
  BY <1>1, <1>3, <1>4, <1>7, <1>8, <1>10, DeleteRemoves
<1>12. RowTakenOut(Contents, Contents', t, (h + 1) - deleted)
  BY <1>7, <1>10, <1>11 DEF RowStore!RemoveRow, RowTakenOut
<1>13. Doing("DELETE", t)'
  BY <1>2, <1>8, <1>9, <1>11, DoingGoesOn
<1>. HIDE DEF old, n, m
<1>14. DeletedSoFar(old, Contents', t, filters, Tail(work), deleted + 1, n, m - 1)
  BY <1>1, <1>2, <1>3, <1>4, <1>12, OneMoreDeleted DEF n, h
<1>15. DeletedSoFar(old, Contents', t, filters, work', deleted', n, tables'[t].row_count)
  BY <1>8, <1>11, <1>14
<1>16. old = committed'.db
  BY <1>9 DEF old
<1>17. DeleteSoFar(t)'
  BY <1>2, <1>8, <1>13, <1>15, <1>16 DEF DeleteSoFar, n
<1>. QED BY <1>8, <1>9, <1>17

LEMMA DeleteReturns ==
    ASSUME Base, Commits, NEW t, DeleteSoFar(t), pc = "delete", Return
    PROVE  SqlStep /\ Ends
<1>1. /\ work = <<>> /\ UNCHANGED storageVars /\ query' = query
      /\ pc' = "idle" /\ result' = "RESULT_OK" /\ output' = <<>>
  BY DEF Return, Reply
<1>2. Contents' = Contents
  BY <1>1, Unseen
<1>3. /\ committed' = Observed'
      /\ committed'.db = Contents' /\ committed'.request = query'
      /\ committed'.result = result' /\ committed'.answer = output'
  BY <1>1, Shows
<1> DEFINE old == committed.db
           rows == old[t].rows
           n == Len(rows)
           staying == Staying(old, t, query.filters, n)
<1>4. /\ t = Sql!TableCalled(query.table) /\ query.type = "DELETE" /\ query \in Queries
      /\ Sql!Acceptable(query) /\ t \in DOMAIN old /\ IsTable(old[t])
      /\ rows \in Seq(ToSet(rows))
      /\ DeletedSoFar(old, Contents, t, query.filters, <<>>, deleted, n, tables[t].row_count)
  BY <1>1 DEF DeleteSoFar, Doing
<1>5. n \in Nat /\ DOMAIN rows = 1 .. n
  BY <1>4, LenProperties
<1>6. SetsRows(old, Contents, t, Sql!Kept(rows, staying))
  <2>. HIDE DEF n
  <2>. QED BY <1>4, <1>5, AllDeleted
<1>7. staying = {r \in DOMAIN rows : ~Sql!Satisfies(old[t], rows[r], query.filters)}
  BY <1>5 DEF Meets, Staying
<1>8. Sql!Delete(query)
  <2> DEFINE satisfying == {r \in DOMAIN rows : ~Sql!Satisfies(old[t], rows[r], query.filters)}
  <2>1. Sql!Delete(query) <=>
           committed'.db = [committed.db EXCEPT ![t].rows = Sql!Kept(rows, satisfying)]
    BY <1>4, Zenon DEF Sql!Delete
  <2>2. committed'.db = [committed.db EXCEPT ![t].rows = Sql!Kept(rows, staying)]
    BY <1>2, <1>3, <1>6 DEF SetsRows
  <2>. QED BY <1>7, <2>1, <2>2, Zenon
<1>9. Sql!Accept(query)
  BY <1>1, <1>3, <1>4, <1>8 DEF Sql!Accept
<1>. QED BY <1>1, <1>3, <1>4, <1>9 DEF SqlStep, Sql!Next, Ends

LEMMA DividedBack ==
    ASSUME NEW p \in Nat, NEW m \in Nat \ {0}, NEW j \in Nat, j < m
    PROVE  (p * m + j) \div m = p /\ (p * m + j) % m = j
<1> DEFINE a == p * m + j
<1>1. p * m \in Nat /\ a \in Nat
  OBVIOUS
<1>2. PICK q, r : q = a \div m /\ r = a % m
  OBVIOUS
<1>3. q \in Nat /\ r \in 0 .. m - 1 /\ a = m * q + r
  BY <1>1, <1>2, Division
<1>4. p * m + j = m * q + r
  BY <1>3
<1>. HIDE DEF a
<1>5. ASSUME q < p PROVE FALSE
  <2>1. PICK d \in Nat : p = q + 1 + d
    BY <1>3, <1>5
  <2>2. p * m = m * q + m + d * m /\ d * m \in Nat /\ m * q \in Nat
    BY <1>3, <2>1
  <2>. QED BY <1>3, <1>4, <2>2
<1>6. ASSUME q > p PROVE FALSE
  <2>1. PICK d \in Nat : q = p + 1 + d
    BY <1>3, <1>6
  <2>2. m * q = p * m + m + d * m /\ d * m \in Nat
    BY <2>1
  <2>. QED BY <1>1, <1>3, <1>4, <2>2
<1>7. q = p
  BY <1>3, <1>5, <1>6
<1>8. m * q = p * m
  BY <1>7
<1>9. r = j
  BY <1>1, <1>3, <1>4, <1>8
<1>. QED BY <1>2, <1>7, <1>9 DEF a

----------------------------------------------------------------------------
(* UPDATE.                                                                 *)

\* The value of row r in the i-th column listed is still to be set.
Pending(todo, r, i) == [row |-> r - 1, nth |-> i] \in ToSet(todo)

\* The value the i-th column listed is set to.
NewValue(old, t, columns, values, i) == SlotValue(old[t].columns[columns[i]].type, values[i])

\* A value of row r, column c: the new one, if it has been set.
CellSoFar(old, t, filters, columns, values, todo, r, c, value) ==
    /\ \A i \in DOMAIN columns :
          columns[i] = c /\ Meets(old, t, filters, r) /\ ~Pending(todo, r, i)
              => value = NewValue(old, t, columns, values, i)
    /\ (\A i \in DOMAIN columns :
            columns[i] = c => ~Meets(old, t, filters, r) \/ Pending(todo, r, i))
              => value = old[t].rows[r][c]

IsGrid(rows, n, C) == rows = [r \in 1 .. n |-> [c \in C |-> rows[r][c]]]

RowsSoFar(old, t, filters, columns, values, todo, n, rows) ==
    /\ IsGrid(rows, n, DOMAIN old[t].columns)
    /\ \A r \in 1 .. n : \A c \in DOMAIN old[t].columns :
          CellSoFar(old, t, filters, columns, values, todo, r, c, rows[r][c])

ToUpdate(old, t, filters, columns, todo, n) ==
    /\ todo \in Seq([row : Slots(n), nth : DOMAIN columns]) /\ Distinct(todo)
    /\ \A r \in 1 .. n : \A i \in DOMAIN columns :
          Pending(todo, r, i) => Meets(old, t, filters, r)

UpdatedSoFar(old, new, t, filters, columns, values, todo, n) ==
    /\ ToUpdate(old, t, filters, columns, todo, n)
    /\ \E rows : /\ SetsRows(old, new, t, rows)
                 /\ RowsSoFar(old, t, filters, columns, values, todo, n, rows)

\* The x-th cell is that of the i-th of m columns in the k-th row.
IsCell(x, m, k, i) == ((x - 1) \div m) + 1 = k /\ ((x - 1) % m) + 1 = i

LEMMA CellIndex ==
    ASSUME NEW l \in Nat, NEW m \in Nat \ {0}, NEW k \in 1 .. l, NEW i \in 1 .. m
    PROVE  \E x \in 1 .. l * m : IsCell(x, m, k, i)
<1>1. PICK p \in Nat : k = p + 1
  <2>1. k - 1 \in Nat /\ k = (k - 1) + 1
    OBVIOUS
  <2>. QED BY <2>1
<1>2. PICK j \in Nat : i = j + 1
  <2>1. i - 1 \in Nat /\ i = (i - 1) + 1
    OBVIOUS
  <2>. QED BY <2>1
<1>3. j < m
  BY <1>2
<1>4. PICK d \in Nat : l = (p + 1) + d
  <2>1. l - (p + 1) \in Nat /\ l = (p + 1) + (l - (p + 1))
    BY <1>1
  <2>. QED BY <2>1
<1>5. /\ l * m = p * m + m + d * m
      /\ p * m \in Nat /\ d * m \in Nat
  BY <1>4
<1>6. (p * m + j) \div m = p /\ (p * m + j) % m = j
  BY <1>3, DividedBack
<1>7. PICK pm \in Nat : pm = p * m
  BY <1>5
<1>8. PICK dm \in Nat : dm = d * m
  BY <1>5
<1>9. l * m = pm + m + dm /\ (pm + j) \div m = p /\ (pm + j) % m = j
  BY <1>5, <1>6, <1>7, <1>8
<1>10. PICK x \in Nat : x = pm + j + 1
  OBVIOUS
<1>11. x - 1 = pm + j
  BY <1>10
<1>12. x \in 1 .. pm + m + dm
  BY <1>3, <1>10
<1>. QED BY <1>1, <1>2, <1>9, <1>11, <1>12 DEF IsCell

LEMMA CellsListed ==
    ASSUME NEW n, NEW rows \in Seq(Slots(n)), NEW V, NEW columns \in Seq(V),
           NEW k \in DOMAIN rows, NEW i \in DOMAIN columns
    PROVE  [row |-> rows[k], nth |-> i] \in ToSet(CellsOf(rows, columns))
<1> DEFINE l == Len(rows)
           m == Len(columns)
           cells == CellsOf(rows, columns)
<1>1. l \in Nat /\ m \in Nat \ {0} /\ k \in 1 .. l /\ i \in 1 .. m
  OBVIOUS
<1>2. /\ DOMAIN cells = 1 .. l * m
      /\ \A x \in 1 .. l * m :
            cells[x] = [row |-> rows[((x - 1) \div m) + 1], nth |-> ((x - 1) % m) + 1]
  BY DEF CellsOf
<1>. HIDE DEF l, m, cells
<1>3. PICK x \in 1 .. l * m : IsCell(x, m, k, i)
  BY <1>1, CellIndex
<1>4. cells[x] = [row |-> rows[k], nth |-> i] /\ x \in DOMAIN cells
  BY <1>2, <1>3 DEF IsCell
<1>. QED BY <1>4 DEF ToSet, cells

HeadIsDone(todo, n, r0, i0) ==
    \A r \in 1 .. n : \A i :
        Pending(Tail(todo), r, i) <=> Pending(todo, r, i) /\ ~(r = r0 /\ i = i0)

LEMMA PendingTail ==
    ASSUME NEW n \in Nat, NEW columns, NEW todo \in Seq([row : Slots(n), nth : DOMAIN columns]),
           Distinct(todo), todo # <<>>, NEW r0, r0 = Head(todo).row + 1, NEW i0, i0 = Head(todo).nth
    PROVE  HeadIsDone(todo, n, r0, i0)
<1>. SUFFICES ASSUME NEW h, h = Head(todo), NEW r \in 1 .. n, NEW i
              PROVE  Pending(Tail(todo), r, i) <=> Pending(todo, r, i) /\ ~(r = r0 /\ i = i0)
  BY DEF HeadIsDone
<1> DEFINE tail == Tail(todo)
           cell == [row |-> r - 1, nth |-> i]
<1>1. \A x : x \in ToSet(todo) <=> x = h \/ x \in ToSet(tail)
  BY HeadAndTail
<1>2. h \notin ToSet(tail)
  <2>1. /\ Len(todo) \in Nat \ {0} /\ h = todo[1] /\ DOMAIN todo = 1 .. Len(todo)
        /\ DOMAIN tail = 1 .. Len(todo) - 1
        /\ \A j \in 1 .. Len(todo) - 1 : tail[j] = todo[j + 1]
    BY HeadTail
  <2>2. ASSUME NEW j \in DOMAIN tail, tail[j] = h PROVE FALSE
    <3>1. j + 1 \in DOMAIN todo /\ 1 \in DOMAIN todo /\ todo[j + 1] = todo[1] /\ j + 1 # 1
      BY <2>1, <2>2
    <3>. QED BY <3>1 DEF Distinct
  <2>. HIDE DEF tail
  <2>. QED BY <2>2 DEF ToSet
<1>3. h \in [row : Slots(n), nth : DOMAIN columns]
  BY HeadTail
<1>4. h.row \in Nat /\ h = [row |-> h.row, nth |-> h.nth]
  BY <1>3 DEF Slots
<1>5. r = h.row + 1 <=> r - 1 = h.row
  BY <1>4
<1>6. cell = h <=> r - 1 = h.row /\ i = h.nth
  BY <1>4
<1>. HIDE DEF cell, tail
<1>7. cell \in ToSet(tail) <=> cell \in ToSet(todo) /\ cell # h
  BY <1>1, <1>2
<1>. QED BY <1>5, <1>6, <1>7 DEF Pending, cell, tail

LEMMA NoneUpdated ==
    ASSUME NEW old, old = [u \in DOMAIN old |-> old[u]], NEW t \in DOMAIN old, IsTable(old[t]),
           NEW n \in Nat, IsGrid(old[t].rows, n, DOMAIN old[t].columns),
           NEW filters, NEW columns, NEW values, NEW todo,
           ToUpdate(old, t, filters, columns, todo, n),
           \A r \in 1 .. n : \A i \in DOMAIN columns :
               Meets(old, t, filters, r) => Pending(todo, r, i)
    PROVE  UpdatedSoFar(old, old, t, filters, columns, values, todo, n)
<1>1. SetsRows(old, old, t, old[t].rows)
  BY NothingSet
<1>2. RowsSoFar(old, t, filters, columns, values, todo, n, old[t].rows)
  BY DEF RowsSoFar, CellSoFar
<1>. QED BY <1>1, <1>2 DEF UpdatedSoFar

\* The value v is put into row r, column c.
CellPut(old, new, t, r, c, v) == new = [old EXCEPT ![t].rows[r][c] = v]

ValuePut(rows, rows2, r, c, v) == rows2 = [rows EXCEPT ![r][c] = v]

LEMMA CellPutRows ==
    ASSUME NEW old, NEW new, NEW t, NEW r, NEW c, NEW v, CellPut(old, new, t, r, c, v),
           NEW rows, rows = old[t].rows, NEW rows2, ValuePut(rows, rows2, r, c, v)
    PROVE  SetsRows(old, new, t, rows2)
BY DEF CellPut, SetsRows, ValuePut

OneValuePut(rows, rows2, n, C, r0, c0, v) ==
    \A r \in 1 .. n : \A c \in C :
        rows2[r][c] = IF r = r0 /\ c = c0 THEN v ELSE rows[r][c]

LEMMA GridPut ==
    ASSUME NEW rows, NEW n, NEW C, IsGrid(rows, n, C), NEW r0 \in 1 .. n, NEW c0 \in C, NEW v,
           NEW rows2, ValuePut(rows, rows2, r0, c0, v)
    PROVE  IsGrid(rows2, n, C) /\ OneValuePut(rows, rows2, n, C, r0, c0, v)
<1>0. rows2 = [rows EXCEPT ![r0][c0] = v]
  BY DEF ValuePut
<1>1. DOMAIN rows = 1 .. n /\ \A r \in 1 .. n : DOMAIN rows[r] = C
  BY DEF IsGrid
<1>2. rows2 = [r \in 1 .. n |-> IF r = r0 THEN [rows[r0] EXCEPT ![c0] = v] ELSE rows[r]]
  BY <1>0, <1>1
<1>3. \A r \in 1 .. n : rows2[r] = IF r = r0 THEN [rows[r0] EXCEPT ![c0] = v] ELSE rows[r]
  BY <1>2
<1>4. \A r \in 1 .. n : rows[r] = [c \in C |-> rows[r][c]]
  BY DEF IsGrid
<1>5. [rows[r0] EXCEPT ![c0] = v] = [c \in C |-> IF c = c0 THEN v ELSE rows[r0][c]]
  BY <1>1
<1>6. ASSUME NEW r \in 1 .. n, NEW c \in C
      PROVE  rows2[r][c] = IF r = r0 /\ c = c0 THEN v ELSE rows[r][c]
  BY <1>3, <1>5
<1>7. ASSUME NEW r \in 1 .. n
      PROVE  rows2[r] = [c \in C |-> rows2[r][c]]
  BY <1>3, <1>4, <1>5
<1>8. rows2 = [r \in 1 .. n |-> rows2[r]]
  BY <1>2
<1>9. IsGrid(rows2, n, C)
  BY <1>7, <1>8 DEF IsGrid
<1>. QED BY <1>6, <1>9 DEF OneValuePut

LEMMA OneMoreUpdated ==
    ASSUME NEW old, NEW t \in DOMAIN old, IsTable(old[t]), NEW n \in Nat,
           NEW filters, NEW columns \in Seq(DOMAIN old[t].columns), Distinct(columns), NEW values,
           NEW todo, todo # <<>>, NEW new,
           UpdatedSoFar(old, new, t, filters, columns, values, todo, n),
           NEW r0, r0 = Head(todo).row + 1, NEW i0, i0 = Head(todo).nth, NEW c0, c0 = columns[i0],
           NEW v, v = NewValue(old, t, columns, values, i0),
           NEW new2, CellPut(new, new2, t, r0, c0, v)
    PROVE  UpdatedSoFar(old, new2, t, filters, columns, values, Tail(todo), n)
<1> DEFINE C == DOMAIN old[t].columns
           tail == Tail(todo)
           h == Head(todo)
           Cells == [row : Slots(n), nth : DOMAIN columns]
<1>1. ToUpdate(old, t, filters, columns, todo, n)
  BY DEF UpdatedSoFar
<1>2. PICK rows : /\ SetsRows(old, new, t, rows)
                  /\ RowsSoFar(old, t, filters, columns, values, todo, n, rows)
  BY DEF UpdatedSoFar
<1>3. todo \in Seq(Cells) /\ Distinct(todo)
  BY <1>1 DEF ToUpdate
<1>4. h \in Cells /\ tail \in Seq(Cells) /\ Distinct(tail)
  BY <1>3, HeadTail, TailDistinct
<1>5. r0 \in 1 .. n /\ i0 \in DOMAIN columns /\ c0 \in C
  <2>1. h.row \in Slots(n) /\ i0 \in DOMAIN columns
    BY <1>4
  <2>2. r0 \in 1 .. n
    BY <2>1 DEF Slots
  <2>3. c0 \in C
    BY <2>1, ElementOfSeq
  <2>. QED BY <2>1, <2>2, <2>3
<1>6. \A r \in 1 .. n : \A i : Pending(tail, r, i) <=> Pending(todo, r, i) /\ ~(r = r0 /\ i = i0)
  <2>. HIDE DEF h, tail
  <2>1. HeadIsDone(todo, n, r0, i0)
    BY <1>3, PendingTail
  <2>. QED BY <2>1 DEF HeadIsDone, tail
<1>7. Pending(todo, r0, i0)
  <2>1. h.row \in Nat /\ h = [row |-> h.row, nth |-> h.nth]
    BY <1>4 DEF Slots
  <2>2. r0 - 1 = h.row
    BY <2>1
  <2>3. h \in ToSet(todo)
    BY <1>3, HeadAndTail
  <2>. QED BY <2>1, <2>2, <2>3 DEF Pending
<1>8. Meets(old, t, filters, r0)
  BY <1>1, <1>5, <1>7 DEF ToUpdate
<1> DEFINE rows2 == [rows EXCEPT ![r0][c0] = v]
<1>9. /\ IsGrid(rows2, n, C)
      /\ \A r \in 1 .. n : \A c \in C :
            rows2[r][c] = IF r = r0 /\ c = c0 THEN v ELSE rows[r][c]
  <2>1. IsGrid(rows, n, C)
    BY <1>2 DEF RowsSoFar
  <2>2. ValuePut(rows, rows2, r0, c0, v)
    BY DEF ValuePut
  <2>. HIDE DEF rows2, C
  <2>3. IsGrid(rows2, n, C) /\ OneValuePut(rows, rows2, n, C, r0, c0, v)
    BY <1>5, <2>1, <2>2, GridPut
  <2>. QED BY <2>3 DEF OneValuePut
<1>10. SetsRows(old, new2, t, rows2)
  <2>1. new[t].rows = rows
    BY <1>2, RowsSet DEF Becomes
  <2>2. ValuePut(rows, rows2, r0, c0, v)
    BY DEF ValuePut
  <2>. HIDE DEF rows2
  <2>3. SetsRows(new, new2, t, rows2)
    BY <2>1, <2>2, CellPutRows
  <2>. QED BY <1>2, <2>3, SetTwice
<1>. HIDE DEF rows2, C, tail, h, Cells
<1>11. ToUpdate(old, t, filters, columns, tail, n)
  <2>1. \A r \in 1 .. n : \A i \in DOMAIN columns :
           Pending(tail, r, i) => Meets(old, t, filters, r)
    BY <1>1, <1>6 DEF ToUpdate
  <2>. QED BY <1>4, <2>1 DEF ToUpdate, Cells
<1>12. ASSUME NEW r \in 1 .. n, NEW c \in C
       PROVE  CellSoFar(old, t, filters, columns, values, tail, r, c, rows2[r][c])
  <2>0. CellSoFar(old, t, filters, columns, values, todo, r, c, rows[r][c])
    BY <1>2 DEF RowsSoFar, C
  <2>1. CASE r = r0 /\ c = c0
    <3>1. rows2[r][c] = v
      BY <1>9, <2>1
    <3>2. ASSUME NEW i \in DOMAIN columns, columns[i] = c PROVE i = i0
      BY <1>5, <2>1, <3>2 DEF Distinct
    <3>3. ~Pending(tail, r, i0) /\ columns[i0] = c
      BY <1>6, <2>1
    <3>. QED BY <1>5, <1>8, <2>1, <3>1, <3>2, <3>3 DEF CellSoFar
  <2>2. CASE ~(r = r0 /\ c = c0)
    <3>1. rows2[r][c] = rows[r][c]
      BY <1>9, <2>2
    <3>2. ASSUME NEW i \in DOMAIN columns, columns[i] = c
          PROVE  Pending(tail, r, i) <=> Pending(todo, r, i)
      BY <1>6, <2>2, <3>2
    <3>. QED BY <2>0, <3>1, <3>2 DEF CellSoFar
  <2>. QED BY <2>1, <2>2
<1>13. RowsSoFar(old, t, filters, columns, values, tail, n, rows2)
  BY <1>9, <1>12 DEF RowsSoFar, C
<1>. QED BY <1>10, <1>11, <1>13 DEF UpdatedSoFar, tail

\* names are the names of these columns.
NameColumns(old, t, columns, names) ==
    /\ DOMAIN names = DOMAIN columns
    /\ \A i \in DOMAIN columns : /\ columns[i] \in DOMAIN old[t].columns
                                 /\ names[i] = old[t].columns[columns[i]].name

\* What BazaSql makes of a row that is updated, and of all rows.
RowSet(tab, names, values, row) ==
    [c \in DOMAIN row |->
        IF tab.columns[c].name \in {names[i] : i \in DOMAIN names}
        THEN Sql!SlotValue(tab.columns[c].type,
                 values[CHOOSE i \in DOMAIN names : names[i] = tab.columns[c].name])
        ELSE row[c]]

RowsUpdated(old, t, filters, names, values) ==
    [r \in DOMAIN old[t].rows |->
        IF Meets(old, t, filters, r) THEN RowSet(old[t], names, values, old[t].rows[r])
                                     ELSE old[t].rows[r]]

LEMMA AllUpdated ==
    ASSUME NEW old, NEW t \in DOMAIN old, NamesDiffer(old), NEW n \in Nat,
           IsGrid(old[t].rows, n, DOMAIN old[t].columns),
           NEW columns, NEW names, NameColumns(old, t, columns, names),
           NEW filters, NEW values, NEW new,
           UpdatedSoFar(old, new, t, filters, columns, values, <<>>, n)
    PROVE  SetsRows(old, new, t, RowsUpdated(old, t, filters, names, values))
<1> DEFINE C == DOMAIN old[t].columns
           R == old[t].rows
           name(c) == old[t].columns[c].name
           type(c) == old[t].columns[c].type
<1>1. PICK rows : /\ SetsRows(old, new, t, rows)
                  /\ RowsSoFar(old, t, filters, columns, values, <<>>, n, rows)
  BY DEF UpdatedSoFar
<1>2. /\ rows = [r \in 1 .. n |-> [c \in C |-> rows[r][c]]]
      /\ R = [r \in 1 .. n |-> [c \in C |-> R[r][c]]]
  BY <1>1 DEF RowsSoFar, IsGrid
<1>3. /\ DOMAIN rows = 1 .. n /\ DOMAIN R = 1 .. n
      /\ \A r \in 1 .. n : rows[r] = [c \in C |-> rows[r][c]]
      /\ \A r \in 1 .. n : R[r] = [c \in C |-> R[r][c]] /\ DOMAIN R[r] = C
  <2>. HIDE DEF C, R
  <2>. QED BY <1>2
<1>4. \A r, i : ~Pending(<<>>, r, i)
  BY DEF Pending, ToSet
<1>5. /\ DOMAIN names = DOMAIN columns
      /\ \A i \in DOMAIN columns : columns[i] \in C /\ names[i] = name(columns[i])
  BY DEF NameColumns
<1>6. \A c, d \in C : name(c) = name(d) => c = d
  BY DEF NamesDiffer
<1>7. ASSUME NEW r \in 1 .. n, NEW c \in C
      PROVE  CellSoFar(old, t, filters, columns, values, <<>>, r, c, rows[r][c])
  BY <1>1 DEF RowsSoFar
<1> DEFINE Named(c) == {names[i] : i \in DOMAIN names}
           final(r) == [c \in DOMAIN R[r] |->
                           IF name(c) \in {names[i] : i \in DOMAIN names}
                           THEN Sql!SlotValue(type(c),
                                    values[CHOOSE i \in DOMAIN names : names[i] = name(c)])
                           ELSE R[r][c]]
<1>8. ASSUME NEW r \in 1 .. n, ~Meets(old, t, filters, r)
      PROVE  rows[r] = R[r]
  <2>1. ASSUME NEW c \in C PROVE rows[r][c] = R[r][c]
    BY <1>7, <1>8 DEF CellSoFar
  <2>. HIDE DEF C, R
  <2>. QED BY <1>3, <2>1
<1>9. ASSUME NEW r \in 1 .. n, Meets(old, t, filters, r)
      PROVE  rows[r] = final(r)
  <2>1. ASSUME NEW c \in C
        PROVE  rows[r][c] = IF name(c) \in {names[i] : i \in DOMAIN names}
                            THEN Sql!SlotValue(type(c),
                                     values[CHOOSE i \in DOMAIN names : names[i] = name(c)])
                            ELSE R[r][c]
    <3>1. CASE name(c) \in {names[i] : i \in DOMAIN names}
      <4>1. PICK k : k \in DOMAIN names /\ names[k] = name(c)
        BY <3>1
      <4>2. PICK j : j = CHOOSE i \in DOMAIN names : names[i] = name(c)
        OBVIOUS
      <4>3. j \in DOMAIN names /\ names[j] = name(c)
        BY <4>1, <4>2, Zenon
      <4>4. j \in DOMAIN columns /\ columns[j] = c
        BY <1>5, <1>6, <4>3
      <4>5. rows[r][c] = NewValue(old, t, columns, values, j)
        BY <1>4, <1>7, <1>9, <4>4 DEF CellSoFar
      <4>6. NewValue(old, t, columns, values, j) = Sql!SlotValue(type(c), values[j])
        BY <4>4, SameSlotValue DEF NewValue
      <4>. QED BY <3>1, <4>2, <4>5, <4>6
    <3>2. CASE name(c) \notin {names[i] : i \in DOMAIN names}
      <4>1. ASSUME NEW i \in DOMAIN columns, columns[i] = c PROVE FALSE
        BY <1>5, <3>2, <4>1
      <4>. QED BY <1>7, <3>2, <4>1 DEF CellSoFar
    <3>. QED BY <3>1, <3>2
  <2>. HIDE DEF C, R, name, type
  <2>. QED BY <1>3, <2>1
<1>10. \A r \in 1 .. n : final(r) = RowSet(old[t], names, values, R[r])
  BY DEF RowSet
<1>11. rows = RowsUpdated(old, t, filters, names, values)
  <2>1. ASSUME NEW r \in 1 .. n
        PROVE  rows[r] = IF Meets(old, t, filters, r) THEN RowSet(old[t], names, values, R[r]) ELSE R[r]
    <3>. HIDE DEF final, R
    <3>. QED BY <1>8, <1>9, <1>10
  <2>2. rows = [r \in 1 .. n |-> rows[r]]
    BY <1>2
  <2>. HIDE DEF final
  <2>. QED BY <1>3, <2>1, <2>2 DEF RowsUpdated
<1>. QED BY <1>1, <1>11

LEMMA CellsAreOfRows ==
    ASSUME NEW V, NEW rows \in Seq(V), NEW W, NEW columns \in Seq(W),
           NEW x \in ToSet(CellsOf(rows, columns))
    PROVE  x.row \in ToSet(rows)
<1> DEFINE l == Len(rows)
           m == Len(columns)
<1>1. l \in Nat /\ m \in Nat /\ DOMAIN rows = 1 .. l
  OBVIOUS
<1>2. /\ DOMAIN CellsOf(rows, columns) = 1 .. l * m
      /\ \A k \in 1 .. l * m : CellsOf(rows, columns)[k].row = rows[((k - 1) \div m) + 1]
  BY DEF CellsOf
<1>. HIDE DEF l, m
<1>3. PICK k \in 1 .. l * m : x.row = rows[((k - 1) \div m) + 1]
  BY <1>2 DEF ToSet
<1>4. PICK d : d = (k - 1) \div m
  OBVIOUS
<1>5. d \in 0 .. l - 1
  <2>1. l * m \in Nat /\ m # 0
    BY <1>1
  <2>2. k - 1 \in Nat /\ k - 1 < l * m
    BY <2>1
  <2>. QED BY <1>1, <1>4, <2>1, <2>2, DivisionBelow
<1>6. d + 1 \in DOMAIN rows /\ x.row = rows[d + 1]
  BY <1>1, <1>3, <1>4, <1>5
<1>. QED BY <1>6 DEF ToSet

\* The cells still to be set are those of the listed columns in the rows found;
\* all others hold what they are to hold.
UpdateSoFar(t) ==
    /\ Doing("UPDATE", t)
    /\ NamesDiffer(committed.db)
    /\ Len(committed.db[t].rows) \in Nat
    /\ IsGrid(committed.db[t].rows, Len(committed.db[t].rows), DOMAIN committed.db[t].columns)
    /\ NameColumns(committed.db, t, UpdateColumns, query.columns)
    /\ UpdatedSoFar(committed.db, Contents, t, query.filters, UpdateColumns, query.values,
                    work, Len(committed.db[t].rows))

LEMMA UpdateAcceptable ==
    ASSUME AtRest, NEW q, q.type = "UPDATE", NEW t, About(q, t)
    PROVE  Sql!Acceptable(q) <=>
              /\ Sql!ValuesValid(Contents[t], q.columns, q.values)
              /\ \A i \in DOMAIN q.filters : Sql!FilterValid(Contents[t], q.filters[i])
BY AboutTable DEF Sql!Acceptable, About

\* The columns and the values of an UPDATE that is handled right.
LEMMA UpdateLists ==
    ASSUME AtRest, NEW q \in Queries, q.type = "UPDATE", NEW t, About(q, t), HandledRight(q),
           NEW columns, columns = TableColumnGetList(t, q.columns),
           NEW check, check = ValidateValueTypes(t, columns, q.values), check # "SIGSEGV"
    PROVE  /\ columns \in Seq(Columns(t))
           /\ q.columns = NamesOf(t, columns)
           /\ check \in {"RESULT_OK", "RESULT_ERR"}
           /\ check = "RESULT_OK" <=> Sql!ValuesValid(Contents[t], q.columns, q.values)
<1>1. Quiet /\ t \in DOMAIN tables /\ TypeInv
  BY RestIsQuiet DEF About, Quiet
<1>2. columns \in Seq(Columns(t))
  BY <1>1, ColumnListFacts
<1>3. q.values \in Seq(Str)
  BY InterpreterAssumption
<1>4. q.columns = NamesOf(t, columns) /\ Len(q.values) <= Len(q.columns)
  BY DEF HandledRight, About
<1>5. Len(q.columns) = Len(columns)
  <2>1. DOMAIN columns = 1 .. Len(columns) /\ Len(columns) \in Nat
    BY <1>2
  <2>2. Len(NamesOf(t, columns)) = Len(columns)
    BY <2>1 DEF NamesOf
  <2>. QED BY <1>4, <2>2
<1>6. /\ check \in {"RESULT_OK", "RESULT_ERR"}
      /\ check = "RESULT_OK" <=> Sql!ValuesValid(Contents[t], NamesOf(t, columns), q.values)
  <2>1. Len(q.values) <= Len(columns)
    BY <1>4, <1>5
  <2>. HIDE DEF ValidateValueTypes
  <2>. SUFFICES ASSUME NEW values, values = q.values, NEW names, names = NamesOf(t, columns)
                PROVE  /\ check \in {"RESULT_OK", "RESULT_ERR"}
                       /\ check = "RESULT_OK" <=> Sql!ValuesValid(Contents[t], names, values)
    OBVIOUS
  <2>2. values \in Seq(Str) /\ Len(values) <= Len(columns)
    BY <1>3, <2>1
  <2>3. check = ValidateValueTypes(t, columns, values)
    OBVIOUS
  <2>. QED BY <1>1, <1>2, <2>2, <2>3, ValuesAgree
<1>. QED BY <1>2, <1>4, <1>6

LEMMA NamesSeen ==
    ASSUME TypeInv, status = "up", NEW t \in DOMAIN tables, NEW columns \in Seq(Columns(t))
    PROVE  NameColumns(Contents, t, columns, NamesOf(t, columns))
<1>1. /\ DOMAIN Contents[t].columns = Columns(t)
      /\ \A c \in Columns(t) : Contents[t].columns[c].name = tables[t].columns[c].name
  BY SeenColumns
<1>2. \A i \in DOMAIN columns : columns[i] \in Columns(t)
  BY ElementOfSeq
<1>. QED BY <1>1, <1>2 DEF NameColumns, NamesOf

LEMMA UpdateStarts ==
    ASSUME AtRest, Commits, NEW q \in Queries, q.type = "UPDATE", query' = q, NEW t, About(q, t),
           HandledRight(q), q.filters = <<>> \/ FilterInterpret(t, q.filters).res = "RESULT_OK",
           NEW columns, columns = TableColumnGetList(t, q.columns),
           ValidateValueTypes(t, columns, q.values) = "RESULT_OK",
           NEW rows, rows = RowsFound(t, q), NEW held,
           EnterLoop("update", CellsOf(rows, columns), held), UNCHANGED storageVars
    PROVE  SqlStep /\ pc' = "update" /\ UpdateSoFar(t)'
<1> DEFINE n == tables[t].row_count
           C == DOMAIN Contents[t].columns
           cells == CellsOf(rows, columns)
<1>1. Quiet /\ t \in DOMAIN tables /\ n \in Nat /\ TypeInv /\ status = "up"
  BY RestIsQuiet, TableFacts DEF About, Quiet
<1>2. pc' = "update" /\ work' = cells
  BY DEF EnterLoop
<1>3. committed' = committed /\ SqlStep
  BY <1>2, Hidden
<1>4. FindsRows(t, q, rows)
  BY QueryRows
<1>5. /\ columns \in Seq(Columns(t)) /\ q.columns = NamesOf(t, columns)
      /\ Sql!ValuesValid(Contents[t], q.columns, q.values)
  BY UpdateLists
<1>6. Sql!Acceptable(q)
  <2>1. \A i \in DOMAIN q.filters : Sql!FilterValid(Contents[t], q.filters[i])
    <3>1. CASE q.filters = <<>>
      BY <3>1
    <3>2. CASE q.filters # <<>>
      BY <3>2, QueryFilters
    <3>. QED BY <3>1, <3>2
  <2>2. \/ Sql!Acceptable(q)
        \/ ~Sql!ValuesValid(Contents[t], q.columns, q.values)
        \/ ~\A i \in DOMAIN q.filters : Sql!FilterValid(Contents[t], q.filters[i])
    BY UpdateAcceptable
  <2>. QED BY <1>5, <2>1, <2>2
<1>7. /\ tables' = tables /\ Contents' = Contents /\ DOMAIN tables' = DOMAIN tables
      /\ \A u \in DOMAIN tables : SameShape(u)
  BY Unseen DEF storageVars, SameShape, Columns, TypeOf
<1>8. Doing("UPDATE", t)'
  BY <1>3, <1>6, <1>7, DoingBegins
<1>9. /\ Contents = [u \in DOMAIN Contents |-> Contents[u]] /\ Len(Contents[t].rows) = n
  BY <1>1, SeenRows
<1>10. /\ t \in DOMAIN Contents /\ IsTable(Contents[t]) /\ C = Columns(t)
       /\ \A c \in Columns(t) : Contents[t].columns[c].name = tables[t].columns[c].name
  BY <1>1, SeenColumns
<1>11. IsGrid(Contents[t].rows, n, C)
  <2>1. Contents[t].rows = [r \in 1 .. n |-> [c \in Columns(t) |-> ValueAt(t, r - 1, c)]]
    BY <1>1, SeenTable
  <2>. SUFFICES ASSUME NEW R, R = [r \in 1 .. n |-> [c \in C |-> ValueAt(t, r - 1, c)]]
                PROVE  R = [r \in 1 .. n |-> [c \in C |-> R[r][c]]]
    BY <1>10, <2>1 DEF IsGrid
  <2>. HIDE DEF n, C
  <2>. QED OBVIOUS
<1>12. NameColumns(Contents, t, columns, q.columns)
  <2>1. NameColumns(Contents, t, columns, NamesOf(t, columns))
    BY <1>1, <1>5, NamesSeen
  <2>. QED BY <1>5, <2>1, Zenon
<1>13. /\ rows \in Seq(Slots(n)) /\ Distinct(rows)
       /\ \A r \in 1 .. n : r - 1 \in ToSet(rows) <=> Meets(Contents, t, q.filters, r)
  BY <1>4 DEF FindsRows, Meets
<1>14. cells \in Seq([row : Slots(n), nth : DOMAIN columns]) /\ Distinct(cells)
  BY <1>1, <1>5, <1>13, CellsFacts
<1>15. ASSUME NEW r \in 1 .. n, NEW i \in DOMAIN columns
       PROVE  Pending(cells, r, i) <=> Meets(Contents, t, q.filters, r)
  <2>1. ASSUME Pending(cells, r, i) PROVE r - 1 \in ToSet(rows)
    <3>1. [row |-> r - 1, nth |-> i] \in ToSet(CellsOf(rows, columns))
      BY <2>1 DEF Pending
    <3>2. [row |-> r - 1, nth |-> i].row \in ToSet(rows)
      BY <1>5, <1>13, <3>1, CellsAreOfRows
    <3>. QED BY <3>2
  <2>2. ASSUME r - 1 \in ToSet(rows) PROVE Pending(cells, r, i)
    <3>1. PICK k \in DOMAIN rows : rows[k] = r - 1
      BY <2>2 DEF ToSet
    <3>2. [row |-> rows[k], nth |-> i] \in ToSet(CellsOf(rows, columns))
      BY <1>5, <1>13, CellsListed
    <3>. QED BY <3>1, <3>2 DEF Pending
  <2>. QED BY <1>13, <2>1, <2>2
<1>. HIDE DEF cells, n, C
<1>16. ToUpdate(Contents, t, q.filters, columns, cells, n)
  BY <1>14, <1>15 DEF ToUpdate
<1>17. UpdatedSoFar(Contents, Contents, t, q.filters, columns, q.values, cells, n)
  BY <1>1, <1>9, <1>10, <1>11, <1>15, <1>16, NoneUpdated DEF n, C
<1>18. committed'.db = Contents
  BY <1>3 DEF AtRest, Observed
<1>19. UpdateColumns' = columns
  BY Begun DEF About
<1>20. NamesDiffer(Contents)
  BY <1>1 DEF Quiet
<1>21. UpdateSoFar(t)'
  BY <1>1, <1>2, <1>7, <1>8, <1>9, <1>11, <1>12, <1>17, <1>18, <1>19, <1>20 DEF UpdateSoFar, C
<1>. QED BY <1>2, <1>3, <1>21

LEMMA ColumnListDistinct ==
    ASSUME TypeInv, NEW t \in DOMAIN tables, NEW list
    PROVE  Distinct(TableColumnGetList(t, list))
<1> DEFINE all == [c \in Columns(t) |-> c]
           listed == {c \in Columns(t) : list = NoList \/ Contains(list, tables[t].columns[c].name)}
           n == Len(tables[t].columns)
           V == Columns(t)
<1>1. n \in Nat /\ V = 1 .. n
  BY Lengths
<1>2. TableColumnGetList(t, list) = Picked(all, listed)
  BY DEF TableColumnGetList
<1>3. all = [c \in 1 .. n |-> c] /\ V \in SUBSET Int
  BY <1>1
<1>. HIDE DEF n, listed, V
<1>4. all \in Seq(V) /\ Ascending(all)
  <2>1. \A c \in 1 .. n : c \in V
    BY <1>1
  <2>. QED BY <1>1, <1>3, <2>1 DEF Ascending
<1>. HIDE DEF all
<1>5. Ascending(Picked(all, listed)) /\ Picked(all, listed) \in Seq(V)
  BY <1>3, <1>4, PickedAscends, PickedType
<1>6. Picked(all, listed) \in Seq(Int)
  BY <1>3, <1>5, SeqMonotonic
<1>. QED BY <1>2, <1>5, <1>6, AscendingIsDistinct

LEMMA UpdateBegins ==
    ASSUME AtRest, Commits, NEW q \in Queries, HandledRight(q), BeginUpdate(q)
    PROVE  SqlStep /\ (Ends \/ Stops \/ (pc' = "update" /\ \E t : UpdateSoFar(t)'))
<1>. SUFFICES ASSUME NEW t, t = TableNamed(q.table),
                     NEW columns, columns = TableColumnGetList(t, q.columns),
                     NEW found, found = IF q.filters = <<>>
                                        THEN [res |-> "RESULT_OK", held |-> 0, rows |-> RowIds(t)]
                                        ELSE FilterInterpret(t, q.filters),
                     NEW valid, valid = ValidateValueTypes(t, columns, q.values),
                     NEW check, check = IF found.res = "RESULT_OK" THEN valid ELSE found.res
              PROVE  SqlStep /\ (Ends \/ Stops \/ (pc' = "update" /\ UpdateSoFar(t)'))
  OBVIOUS
<1>1. q.type = "UPDATE" /\ query' = q /\ About(q, t) /\ UNCHANGED storageVars
  <2>1. q.type = "UPDATE" /\ query' = q /\ TablesNamed(q.table) # {} /\ UNCHANGED storageVars
    BY DEF BeginUpdate, Begin
  <2>2. t \in DOMAIN tables
    BY <2>1, NamedTable DEF AtRest, Base, IInv
  <2>. QED BY <2>1, <2>2 DEF About
<1>2. \/ check = "RESULT_OK" /\ EnterLoop("update", CellsOf(found.rows, columns), found.held + 1)
      \/ check = "SIGSEGV" /\ Abort("segfault")
      \/ check = "RESULT_ERR" /\ Reply("RESULT_VALUE_TYPE", <<>>, found.held)
      \/ check \notin {"RESULT_OK", "SIGSEGV", "RESULT_ERR"} /\ Reply(check, <<>>, found.held)
  BY DEF BeginUpdate
<1>3. /\ q.filters = <<>> => found.res = "RESULT_OK"
      /\ q.filters # <<>> => found = FilterInterpret(t, q.filters)
      /\ found.rows = RowsFound(t, q)
  BY DEF RowsFound
<1>4. CASE check = "RESULT_OK" /\ EnterLoop("update", CellsOf(found.rows, columns),
                                            found.held + 1)
  <2>1. found.res = "RESULT_OK" /\ valid = "RESULT_OK"
    BY <1>4
  <2>2. q.filters = <<>> \/ FilterInterpret(t, q.filters).res = "RESULT_OK"
    BY <1>3, <2>1
  <2>3. ValidateValueTypes(t, columns, q.values) = "RESULT_OK"
    BY <2>1
  <2>. HIDE DEF ValidateValueTypes
  <2>4. PICK rows : rows = RowsFound(t, q) /\ rows = found.rows
    BY <1>3
  <2>5. EnterLoop("update", CellsOf(rows, columns), found.held + 1)
    BY <1>4, <2>4
  <2>. QED BY <1>1, <2>2, <2>3, <2>4, <2>5, UpdateStarts
<1>5. CASE check = "SIGSEGV" /\ Abort("segfault")
  <2>1. pc' = "segfault"
    BY <1>5 DEF Abort
  <2>. QED BY <2>1, Hidden DEF Stops
<1>6. ASSUME check \notin {"RESULT_OK", "SIGSEGV"}, NEW res, res # "RESULT_OK", NEW held,
             Reply(res, <<>>, held)
      PROVE  SqlStep /\ Ends
  <2>1. CASE found.res # "RESULT_OK"
    <3>1. q.filters # <<>> /\ FilterInterpret(t, q.filters).res # "RESULT_OK"
      BY <1>3, <2>1
    <3>2. ~\A i \in DOMAIN q.filters : Sql!FilterValid(Contents[t], q.filters[i])
      BY <1>1, <3>1, QueryFilters
    <3>. QED BY <1>1, <3>2, UpdateAcceptable, <1>6, Unseen, Refused DEF AtRest, Ends
  <2>2. CASE found.res = "RESULT_OK"
    <3>1. valid \notin {"RESULT_OK", "SIGSEGV"}
      BY <1>6, <2>2
    <3>2. ~Sql!ValuesValid(Contents[t], q.columns, q.values)
      BY <1>1, <3>1, UpdateLists
    <3>. QED BY <1>1, <3>2, UpdateAcceptable, <1>6, Unseen, Refused DEF AtRest, Ends
  <2>. QED BY <2>1, <2>2
<1>7. CASE check = "RESULT_ERR" /\ Reply("RESULT_VALUE_TYPE", <<>>, found.held)
  BY <1>6, <1>7
<1>8. CASE check \notin {"RESULT_OK", "SIGSEGV", "RESULT_ERR"} /\ Reply(check, <<>>, found.held)
  BY <1>6, <1>8
<1>. QED BY <1>2, <1>4, <1>5, <1>7, <1>8

LEMMA UpdateGoesOn ==
    ASSUME ~AllocMayFail, Base, Base', Commits, NEW t, UpdateSoFar(t), UpdateValue
    PROVE  SqlStep /\ pc' = "update" /\ UpdateSoFar(t)'
<1>. SUFFICES ASSUME NEW k, k = Head(work).nth, NEW r, r = Head(work).row,
                     NEW columns, columns = UpdateColumns, NEW c, c = columns[k],
                     NEW old, old = committed.db, NEW n, n = Len(old[t].rows),
                     NEW value, value = SlotValue(TypeOf(t, c), query.values[k])
              PROVE  SqlStep /\ pc' = "update" /\ UpdateSoFar(t)'
  OBVIOUS
<1>1. /\ Doing("UPDATE", t) /\ NamesDiffer(old) /\ n \in Nat
      /\ IsGrid(old[t].rows, n, DOMAIN old[t].columns)
      /\ NameColumns(old, t, columns, query.columns)
      /\ UpdatedSoFar(old, Contents, t, query.filters, columns, query.values, work, n)
  BY DEF UpdateSoFar
<1>2. /\ t = Target /\ t \in DOMAIN tables /\ t \in DOMAIN old /\ IsTable(old[t])
      /\ DOMAIN old[t].columns = Columns(t) /\ \A d \in Columns(t) : old[t].columns[d].type = TypeOf(t, d)
      /\ query \in Queries /\ query.type = "UPDATE"
  BY <1>1 DEF Doing
<1>3. /\ pc = "update" /\ status = "up" /\ work # <<>>
      /\ pc' = "update" /\ query' = query /\ work' = Tail(work)
      /\ ReplaceCell(t, c, r, value)
  BY <1>2 DEF UpdateValue, Looping, NextTurn
<1>4. /\ TypeInv /\ SoundStore /\ SoundStore' /\ ~Filling
      /\ work \in Seq([row : Slots(RowCount), nth : DOMAIN columns])
      /\ Len(columns) <= Len(query.values)
  BY <1>3 DEF Base, IInv, Inserting, Updating
<1>5. k \in DOMAIN columns /\ r \in Slots(tables[t].row_count)
  <2>1. Head(work) \in [row : Slots(RowCount), nth : DOMAIN columns]
    BY <1>3, <1>4, HeadTail
  <2>. QED BY <1>2, <2>1 DEF RowCount
<1>6. columns \in Seq(Columns(t)) /\ Distinct(columns)
  BY <1>2, <1>4, ColumnListFacts, ColumnListDistinct DEF UpdateColumns
<1>7. c \in Columns(t)
  BY <1>5, <1>6, ElementOfSeq
<1>8. value \in ValuesFor(t, c)
  <2>1. query.values \in Seq(Str)
    BY <1>2, InterpreterAssumption
  <2>2. k \in 1 .. Len(query.values)
    <3>1. k \in 1 .. Len(columns) /\ Len(columns) \in Nat /\ Len(query.values) \in Nat
      BY <1>5, <1>6, <2>1
    <3>. QED BY <1>4, <3>1
  <2>3. query.values[k] \in Str
    BY <2>1, <2>2, ElementOfSeq
  <2>4. TypeOf(t, c) \in BaseType
    BY <1>2, <1>4, <1>7, ColumnFacts DEF ColumnType, TypeOf
  <2>. QED BY <2>3, <2>4, SlotValueType
<1>9. committed' = committed /\ SqlStep
  BY <1>3, Hidden
<1>10. /\ ValueReplaced(t, r + 1, c, value)
       /\ status' = "up" /\ DOMAIN tables' = DOMAIN tables
       /\ \A u \in DOMAIN tables : SameShape(u)
  BY <1>2, <1>3, <1>4, <1>5, <1>7, <1>8, ReplaceSets
<1>11. Doing("UPDATE", t)'
  BY <1>1, <1>3, <1>9, <1>10, DoingGoesOn
<1>12. CellPut(Contents, Contents', t, r + 1, c, value)
  BY <1>10 DEF CellPut, ValueReplaced
<1>13. value = NewValue(old, t, columns, query.values, k)
  BY <1>2, <1>7 DEF NewValue
<1>14. UpdatedSoFar(old, Contents', t, query.filters, columns, query.values, Tail(work), n)
  <2>1. columns \in Seq(DOMAIN old[t].columns)
    BY <1>2, <1>6
  <2>2. PICK r0 : r0 = Head(work).row + 1 /\ r0 = r + 1
    OBVIOUS
  <2>3. CellPut(Contents, Contents', t, r0, c, value)
    BY <1>12, <2>2
  <2>. QED BY <1>1, <1>2, <1>3, <1>6, <1>13, <2>1, <2>2, <2>3, OneMoreUpdated
<1>15. UpdateColumns' = columns
  <2>1. Target' = t
    BY <1>11 DEF Doing
  <2>. QED BY <1>2, <1>3, <1>10, <2>1, SameUpdateColumns
<1>16. old = committed'.db
  BY <1>9
<1>17. UpdateSoFar(t)'
  BY <1>1, <1>3, <1>11, <1>14, <1>15, <1>16 DEF UpdateSoFar
<1>. QED BY <1>3, <1>9, <1>17

LEMMA UpdateReturns ==
    ASSUME Commits, NEW t, UpdateSoFar(t), pc = "update", Return
    PROVE  SqlStep /\ Ends
<1>1. /\ work = <<>> /\ UNCHANGED storageVars /\ query' = query
      /\ pc' = "idle" /\ result' = "RESULT_OK" /\ output' = <<>>
  BY DEF Return, Reply
<1>2. Contents' = Contents
  BY <1>1, Unseen
<1>3. /\ committed' = Observed'
      /\ committed'.db = Contents' /\ committed'.request = query'
      /\ committed'.result = result' /\ committed'.answer = output'
  BY <1>1, Shows
<1>. SUFFICES ASSUME NEW old, old = committed.db, NEW n, n = Len(old[t].rows),
                     NEW columns, columns = UpdateColumns
              PROVE  SqlStep /\ Ends
  OBVIOUS
<1>4. /\ t = Sql!TableCalled(query.table) /\ query.type = "UPDATE" /\ query \in Queries
      /\ Sql!Acceptable(query) /\ t \in DOMAIN old
      /\ NamesDiffer(old) /\ n \in Nat /\ IsGrid(old[t].rows, n, DOMAIN old[t].columns)
      /\ NameColumns(old, t, columns, query.columns)
      /\ UpdatedSoFar(old, Contents, t, query.filters, columns, query.values, <<>>, n)
  BY <1>1 DEF UpdateSoFar, Doing
<1>5. SetsRows(old, Contents, t, RowsUpdated(old, t, query.filters, query.columns, query.values))
  BY <1>4, AllUpdated
<1>6. Sql!Update(query)
  <2>0. Sql!Update(query) <=>
           committed'.db = [committed.db EXCEPT ![Sql!TableCalled(query.table)].rows =
               RowsUpdated(committed.db, Sql!TableCalled(query.table),
                           query.filters, query.columns, query.values)]
    BY Zenon DEF Sql!Update, Sql!ColumnsListed, RowsUpdated, RowSet, Meets
  <2>1. Sql!Update(query) <=>
           committed'.db = [committed.db EXCEPT ![t].rows =
               RowsUpdated(committed.db, t, query.filters, query.columns, query.values)]
    BY <1>4, <2>0, Zenon
  <2>2. committed'.db = [committed.db EXCEPT ![t].rows =
               RowsUpdated(committed.db, t, query.filters, query.columns, query.values)]
    BY <1>2, <1>3, <1>5 DEF SetsRows
  <2>. QED BY <2>1, <2>2, Zenon
<1>7. Sql!Accept(query)
  BY <1>1, <1>3, <1>4, <1>6 DEF Sql!Accept
<1>. QED BY <1>1, <1>3, <1>4, <1>7 DEF SqlStep, Sql!Next, Ends


----------------------------------------------------------------------------
(* SELECT.                                                                 *)

\* The row BazaSql selects for row r, and the rows it may answer.
RowSelected(tab, names, r) ==
    [i \in DOMAIN names |-> tab.rows[r][Sql!ColumnCalled(tab, names[i])]]

SelectsRows(tab, names, matching, printed) ==
    \E order \in [1 .. Cardinality(matching) -> matching] :
        /\ \A i, j \in DOMAIN order : order[i] = order[j] => i = j
        /\ printed = [i \in DOMAIN order |-> RowSelected(tab, names, order[i])]

\* A printed value is the one BazaSql selects.
LEMMA ValueSelected ==
    ASSUME Quiet, NEW t \in DOMAIN tables, NEW c \in Columns(t),
           NEW s \in Slots(tables[t].row_count)
    PROVE  ValueAt(t, s, c)
              = Contents[t].rows[s + 1][Sql!ColumnCalled(Contents[t], tables[t].columns[c].name)]
<1>1. tables[t].row_count \in Nat
  BY TableFacts DEF Quiet
<1>2. s + 1 \in 1 .. tables[t].row_count /\ (s + 1) - 1 = s
  BY <1>1 DEF Slots
<1>3. Contents[t].rows = [r \in 1 .. tables[t].row_count |->
                             [d \in Columns(t) |-> ValueAt(t, r - 1, d)]]
  BY SeenTable
<1>4. Contents[t].rows[s + 1] = [d \in Columns(t) |-> ValueAt(t, s, d)]
  <2>. SUFFICES ASSUME NEW n, n = tables[t].row_count, NEW p, p = s + 1
                PROVE  Contents[t].rows[p] = [d \in Columns(t) |-> ValueAt(t, s, d)]
    OBVIOUS
  <2>1. p \in 1 .. n /\ p - 1 = s
    BY <1>2
  <2>2. Contents[t].rows[p] = [d \in Columns(t) |-> ValueAt(t, p - 1, d)]
    BY <1>3, <2>1
  <2>. QED BY <2>1, <2>2
<1>5. Sql!ColumnCalled(Contents[t], tables[t].columns[c].name) = c
  <2>1. c \in ColumnsNamed(tables[t], tables[t].columns[c].name)
    BY DEF ColumnsNamed, Columns
  <2>. QED BY <2>1, SameColumn
<1>. QED BY <1>4, <1>5

LEMMA PrintedRows ==
    ASSUME Quiet, NEW t \in DOMAIN tables, NEW columns \in Seq(Columns(t)),
           NEW rows \in Seq(Slots(tables[t].row_count)),
           NEW order, order = [i \in 1 .. Len(rows) |-> rows[i] + 1],
           NEW names, names = NamesOf(t, columns)
    PROVE  Printed(t, columns, rows)
              = [i \in DOMAIN order |-> RowSelected(Contents[t], names, order[i])]
<1>1. DOMAIN rows = 1 .. Len(rows) /\ \A i \in DOMAIN rows : rows[i] \in Slots(tables[t].row_count)
  BY ElementOfSeq
<1>2. DOMAIN order = DOMAIN rows /\ \A i \in DOMAIN rows : order[i] = rows[i] + 1
  BY <1>1
<1>3. /\ DOMAIN names = DOMAIN columns
      /\ \A k \in DOMAIN columns : names[k] = tables[t].columns[columns[k]].name
      /\ \A k \in DOMAIN columns : columns[k] \in Columns(t)
  BY ElementOfSeq DEF NamesOf
<1>4. ASSUME NEW i \in DOMAIN rows, NEW k \in DOMAIN columns
      PROVE  ValueAt(t, rows[i], columns[k])
                = Contents[t].rows[order[i]][Sql!ColumnCalled(Contents[t], names[k])]
  <2>1. PICK s \in Slots(tables[t].row_count) : s = rows[i]
    BY <1>1
  <2>2. PICK c \in Columns(t) : c = columns[k]
    BY <1>3
  <2>3. ValueAt(t, s, c)
           = Contents[t].rows[s + 1][Sql!ColumnCalled(Contents[t], tables[t].columns[c].name)]
    BY ValueSelected
  <2>4. order[i] = s + 1 /\ names[k] = tables[t].columns[c].name
    BY <1>2, <1>3, <2>1, <2>2
  <2>. QED BY <2>1, <2>2, <2>3, <2>4, Zenon
<1>5. ASSUME NEW i \in DOMAIN rows
      PROVE  [k \in DOMAIN columns |-> ValueAt(t, rows[i], columns[k])]
                = RowSelected(Contents[t], names, order[i])
  BY <1>3, <1>4, Zenon DEF RowSelected
<1>6. Printed(t, columns, rows)
         = [i \in DOMAIN rows |-> [k \in DOMAIN columns |-> ValueAt(t, rows[i], columns[k])]]
  BY DEF Printed
<1>. QED BY <1>2, <1>5, <1>6, Zenon

LEMMA SelectAnswers ==
    ASSUME Quiet, NEW t \in DOMAIN tables, NEW columns \in Seq(Columns(t)),
           NEW q, NEW rows, FindsRows(t, q, rows),
           NEW names, names = NamesOf(t, columns),
           NEW matching,
           matching = {r \in DOMAIN Contents[t].rows : Meets(Contents, t, q.filters, r)}
    PROVE  SelectsRows(Contents[t], names, matching, Printed(t, columns, rows))
<1> DEFINE n == tables[t].row_count
<1>. SUFFICES ASSUME NEW order, order = [i \in 1 .. Len(rows) |-> rows[i] + 1]
              PROVE  SelectsRows(Contents[t], names, matching, Printed(t, columns, rows))
  OBVIOUS
<1>1. /\ rows \in Seq(Slots(n)) /\ Distinct(rows)
      /\ \A r \in 1 .. n : r - 1 \in ToSet(rows) <=> Meets(Contents, t, q.filters, r)
  BY DEF FindsRows, Meets
<1>2. n \in Nat
  BY TableFacts DEF Quiet
<1>3. DOMAIN Contents[t].rows = 1 .. n
  <2>1. Contents[t].rows = [r \in 1 .. n |-> [c \in Columns(t) |-> ValueAt(t, r - 1, c)]]
    BY SeenTable
  <2>. HIDE DEF n
  <2>. QED BY <2>1
<1>4. /\ Len(rows) \in Nat /\ DOMAIN rows = 1 .. Len(rows)
      /\ \A i \in 1 .. Len(rows) : rows[i] \in Slots(n)
  BY <1>1, ElementOfSeq
<1>5. /\ DOMAIN order = 1 .. Len(rows)
      /\ \A i \in 1 .. Len(rows) : order[i] = rows[i] + 1
  OBVIOUS
<1>6. \A i, j \in 1 .. Len(rows) : order[i] = order[j] => i = j
  <2>. SUFFICES ASSUME NEW i \in 1 .. Len(rows), NEW j \in 1 .. Len(rows), order[i] = order[j]
                PROVE  i = j
    OBVIOUS
  <2>1. rows[i] = rows[j]
    BY <1>4, <1>5 DEF Slots
  <2>. QED BY <1>1, <1>4, <2>1 DEF Distinct
<1>7. matching = {order[i] : i \in 1 .. Len(rows)}
  <2>1. ASSUME NEW r \in matching PROVE \E i \in 1 .. Len(rows) : order[i] = r
    <3>1. r \in 1 .. n /\ r - 1 \in ToSet(rows)
      BY <1>1, <1>3
    <3>2. PICK i \in 1 .. Len(rows) : rows[i] = r - 1
      BY <1>4, <3>1 DEF ToSet
    <3>. QED BY <1>2, <1>5, <3>1, <3>2
  <2>2. ASSUME NEW i \in 1 .. Len(rows) PROVE order[i] \in matching
    <3>1. rows[i] \in Slots(n) /\ rows[i] \in ToSet(rows)
      BY <1>4 DEF ToSet
    <3>2. order[i] \in 1 .. n /\ order[i] - 1 = rows[i]
      BY <1>2, <1>5, <3>1 DEF Slots
    <3>3. order[i] - 1 \in ToSet(rows)
      BY <3>1, <3>2
    <3>. QED BY <1>1, <1>3, <3>2, <3>3
  <2>. QED BY <2>1, <2>2
<1>8. Cardinality(matching) = Len(rows)
  <2>. SUFFICES ASSUME NEW k \in Nat, k = Len(rows)
                PROVE  Cardinality(matching) = k
    BY <1>4, Zenon
  <2>1. Enumerates(order, k, matching)
    BY <1>6, <1>7, Zenon DEF Enumerates
  <2>. QED BY <2>1, CountEnumerated
<1>9. order \in [1 .. Cardinality(matching) -> matching]
  BY <1>5, <1>7, <1>8
<1>10. Printed(t, columns, rows)
          = [i \in DOMAIN order |-> RowSelected(Contents[t], names, order[i])]
  BY <1>1, PrintedRows
<1>. QED BY <1>5, <1>6, <1>9, <1>10 DEF SelectsRows

LEMMA SelectAcceptable ==
    ASSUME AtRest, NEW q, q.type = "SELECT", NEW t, About(q, t)
    PROVE  Sql!Acceptable(q) <=>
              /\ q.columns = NoList \/ Sql!ColumnsListed(q) \subseteq Sql!Names(Contents[t])
              /\ \A i \in DOMAIN q.filters : Sql!FilterValid(Contents[t], q.filters[i])
BY AboutTable DEF Sql!Acceptable, About

\* The columns SELECT prints are those BazaSql selects.
NamesSelected(tab, q) ==
    IF q.columns = NoList THEN [c \in DOMAIN tab.columns |-> tab.columns[c].name] ELSE q.columns

LEMMA SelectNames ==
    ASSUME AtRest, NEW q \in Queries, q.type = "SELECT", NEW t, About(q, t), HandledRight(q),
           NEW columns, columns = Shown(t, q)
    PROVE  /\ columns \in Seq(Columns(t))
           /\ NamesSelected(Contents[t], q) = NamesOf(t, columns)
           /\ q.columns = NoList \/ Sql!ColumnsListed(q) \subseteq Sql!Names(Contents[t])
<1>1. Quiet /\ t \in DOMAIN tables /\ TypeInv /\ status = "up"
  BY RestIsQuiet DEF About, Quiet
<1>2. columns \in Seq(Columns(t)) /\ TableColumnGetList(t, NoList) = [c \in Columns(t) |-> c]
  BY <1>1, ColumnListFacts DEF Shown
<1>3. /\ DOMAIN Contents[t].columns = Columns(t)
      /\ \A c \in Columns(t) : Contents[t].columns[c].name = tables[t].columns[c].name
  BY <1>1, SeenColumns
<1>4. CASE q.columns = NoList
  <2>1. columns = [c \in Columns(t) |-> c]
    <3>1. columns = TableColumnGetList(t, NoList)
      BY <1>4 DEF Shown
    <3>. QED BY <1>2, <3>1
  <2>2. NamesOf(t, columns) = [c \in Columns(t) |-> tables[t].columns[c].name]
    BY <2>1 DEF NamesOf
  <2>3. NamesSelected(Contents[t], q) = [c \in Columns(t) |-> tables[t].columns[c].name]
    BY <1>3, <1>4 DEF NamesSelected
  <2>. QED BY <1>2, <1>4, <2>2, <2>3
<1>5. CASE q.columns # NoList
  <2>1. q.columns = NamesOf(t, columns)
    <3>1. q.columns \in {NoList, NamesOf(t, Shown(t, q))}
      BY DEF HandledRight, About
    <3>. QED BY <1>5, <3>1
  <2>2. NameColumns(Contents, t, columns, NamesOf(t, columns))
    BY <1>1, <1>2, NamesSeen
  <2>3. Sql!ColumnsListed(q) \subseteq Sql!Names(Contents[t])
    BY <2>1, <2>2 DEF NameColumns, Sql!ColumnsListed, Sql!Names
  <2>4. NamesSelected(Contents[t], q) = NamesOf(t, columns)
    BY <1>5, <2>1 DEF NamesSelected
  <2>. QED BY <1>2, <2>3, <2>4
<1>. QED BY <1>4, <1>5

\* A SELECT that prints its rows.
LEMMA SelectShows ==
    ASSUME AtRest, Commits, NEW q \in Queries, q.type = "SELECT", query' = q, NEW t, About(q, t),
           HandledRight(q), q.filters = <<>> \/ FilterInterpret(t, q.filters).res = "RESULT_OK",
           NEW rows, rows = RowsFound(t, q), NEW columns, columns = Shown(t, q),
           NEW held, Reply("RESULT_OK", Printed(t, columns, rows), held), UNCHANGED storageVars
    PROVE  SqlStep /\ Ends
<1>1. Quiet /\ t \in DOMAIN tables
  BY RestIsQuiet DEF About
<1>2. pc' = "idle" /\ result' = "RESULT_OK" /\ output' = Printed(t, columns, rows)
  BY DEF Reply
<1>3. /\ committed' = Observed'
      /\ committed'.db = Contents' /\ committed'.request = query'
      /\ committed'.result = result' /\ committed'.answer = output'
  BY <1>2, Shows
<1>4. committed.db = Contents /\ Sql!TableCalled(q.table) = t
  BY AboutTable
<1>5. Contents' = Contents
  BY Unseen
<1>6. FindsRows(t, q, rows)
  BY QueryRows
<1>7. /\ columns \in Seq(Columns(t))
      /\ NamesSelected(Contents[t], q) = NamesOf(t, columns)
      /\ q.columns = NoList \/ Sql!ColumnsListed(q) \subseteq Sql!Names(Contents[t])
  BY SelectNames
<1>8. Sql!Acceptable(q)
  <2>1. \A i \in DOMAIN q.filters : Sql!FilterValid(Contents[t], q.filters[i])
    <3>1. CASE q.filters = <<>>
      BY <3>1
    <3>2. CASE q.filters # <<>>
      BY <3>2, QueryFilters
    <3>. QED BY <3>1, <3>2
  <2>. QED BY <1>7, <2>1, SelectAcceptable, Zenon
<1>. SUFFICES ASSUME NEW matching,
                     matching = {r \in DOMAIN Contents[t].rows : Meets(Contents, t, q.filters, r)},
                     NEW names, names = NamesOf(t, columns)
              PROVE  SqlStep /\ Ends
  OBVIOUS
<1>9. SelectsRows(Contents[t], names, matching, Printed(t, columns, rows))
  BY <1>1, <1>6, <1>7, SelectAnswers
<1>10. Sql!Selected(q)
  <2>0. Sql!Selected(q) <=>
           SelectsRows(committed.db[Sql!TableCalled(q.table)],
               NamesSelected(committed.db[Sql!TableCalled(q.table)], q),
               {r \in DOMAIN committed.db[Sql!TableCalled(q.table)].rows :
                   Meets(committed.db, Sql!TableCalled(q.table), q.filters, r)},
               committed'.answer)
    BY SameCardinality, Zenon DEF Sql!Selected, SelectsRows, RowSelected, NamesSelected, Meets
  <2>1. Sql!Selected(q) <=>
           SelectsRows(Contents[t], names, matching, committed'.answer)
    BY <1>4, <1>7, <2>0, Zenon
  <2>. QED BY <1>2, <1>3, <1>9, <2>1, Zenon
<1>11. committed'.db = committed.db
  BY <1>3, <1>4, <1>5
<1>12. Sql!Accept(q)
  BY <1>2, <1>3, <1>8, <1>10, <1>11 DEF Sql!Accept
<1>. QED BY <1>2, <1>3, <1>12 DEF SqlStep, Sql!Next, Ends

LEMMA SelectEnds ==
    ASSUME AtRest, Commits, NEW q \in Queries, HandledRight(q), Select(q)
    PROVE  SqlStep /\ (Ends \/ Stops)
<1>. SUFFICES ASSUME NEW t, t = TableNamed(q.table),
                     NEW found, found = FilterInterpret(t, q.filters)
              PROVE  SqlStep /\ (Ends \/ Stops)
  OBVIOUS
<1>1. q.type = "SELECT" /\ query' = q /\ About(q, t) /\ UNCHANGED storageVars
  <2>1. q.type = "SELECT" /\ query' = q /\ TablesNamed(q.table) # {} /\ UNCHANGED storageVars
    BY DEF Select, Begin
  <2>2. t \in DOMAIN tables
    BY <2>1, NamedTable DEF AtRest, Base, IInv
  <2>. QED BY <2>1, <2>2 DEF About
<1>2. \/ Abort("segfault")
      \/ /\ q.filters = <<>>
         /\ Reply("RESULT_OK", Printed(t, TableColumnGetList(t, NoList), RowIds(t)), 0)
      \/ /\ q.filters # <<>> /\ found.res = "RESULT_OK"
         /\ Reply("RESULT_OK", Printed(t, TableColumnGetList(t, q.columns), found.rows),
                  HeldWithoutRows(found.held))
      \/ q.filters # <<>> /\ found.res # "RESULT_OK" /\ Reply(found.res, <<>>, found.held)
  BY Zenon DEF Select
<1>3. CASE Abort("segfault")
  <2>1. pc' = "segfault"
    BY <1>3 DEF Abort
  <2>. QED BY <2>1, Hidden DEF Stops
<1>4. CASE /\ q.filters = <<>>
           /\ Reply("RESULT_OK", Printed(t, TableColumnGetList(t, NoList), RowIds(t)), 0)
  <2>1. RowsFound(t, q) = RowIds(t) /\ Shown(t, q) = TableColumnGetList(t, NoList)
    BY <1>4 DEF RowsFound, Shown
  <2>2. Reply("RESULT_OK", Printed(t, Shown(t, q), RowsFound(t, q)), 0)
    BY <1>4, <2>1, Zenon
  <2>. QED BY <1>1, <1>4, <2>2, SelectShows
<1>5. CASE /\ q.filters # <<>> /\ found.res = "RESULT_OK"
           /\ Reply("RESULT_OK", Printed(t, TableColumnGetList(t, q.columns), found.rows),
                    HeldWithoutRows(found.held))
  <2>1. RowsFound(t, q) = found.rows /\ Shown(t, q) = TableColumnGetList(t, q.columns)
    BY <1>5 DEF RowsFound, Shown
  <2>2. Reply("RESULT_OK", Printed(t, Shown(t, q), RowsFound(t, q)), HeldWithoutRows(found.held))
    BY <1>5, <2>1, Zenon
  <2>. QED BY <1>1, <1>5, <2>2, SelectShows
<1>6. CASE q.filters # <<>> /\ found.res # "RESULT_OK" /\ Reply(found.res, <<>>, found.held)
  <2>1. ~Sql!Acceptable(q)
    BY <1>1, <1>6, QueryFilters, SelectAcceptable
  <2>2. Contents' = Contents
    BY <1>1, Unseen
  <2>. QED BY <1>1, <1>6, <2>1, <2>2, Refused DEF AtRest, Ends
<1>. QED BY <1>2, <1>3, <1>4, <1>5, <1>6

----------------------------------------------------------------------------
(* The refinement.                                                         *)

\* Between queries nothing is done that has not been seen; while a query runs,
\* its work so far is what its statement means.
SoFar ==
    /\ pc = "idle" => committed = Observed
    /\ pc = "create" => CreateSoFar
    /\ pc = "insert" => \E t : InsertSoFar(t)
    /\ pc = "delete" => \E t : DeleteSoFar(t)
    /\ pc = "update" => \E t : UpdateSoFar(t)

LEMMA EndsSoFar ==
    ASSUME Ends \/ Stops
    PROVE  SoFar'
BY DEF Ends, Stops, SoFar

LEMMA BeginsRight ==
    ASSUME ~AllocMayFail, AtRest, Base', Commits, NEW q \in Queries, HandledRight(q), Begins(q)
    PROVE  SqlStep /\ SoFar'
<1>1. CASE TableNotFound(q)
  <2>1. SqlStep /\ Ends
    BY <1>1, NotFoundRefuses DEF Ends
  <2>. QED BY <2>1, EndsSoFar
<1>2. CASE BeginCreate(q)
  <2>1. SqlStep /\ pc' = "create" /\ CreateSoFar'
    BY <1>2, CreateBegins
  <2>. QED BY <2>1 DEF SoFar
<1>3. CASE BeginInsert(q)
  <2>1. SqlStep /\ (Ends \/ Stops \/ (pc' = "insert" /\ \E t : InsertSoFar(t)'))
    BY <1>3, InsertBegins
  <2>2. ASSUME pc' = "insert", \E t : InsertSoFar(t)' PROVE SoFar'
    BY <2>2 DEF SoFar
  <2>. QED BY <2>1, <2>2, EndsSoFar
<1>4. CASE BeginDelete(q)
  <2>1. SqlStep /\ (Ends \/ Stops \/ (pc' = "delete" /\ \E t : DeleteSoFar(t)'))
    BY <1>4, DeleteBegins
  <2>2. ASSUME pc' = "delete", \E t : DeleteSoFar(t)' PROVE SoFar'
    BY <2>2 DEF SoFar
  <2>. QED BY <2>1, <2>2, EndsSoFar
<1>5. CASE BeginUpdate(q)
  <2>1. SqlStep /\ (Ends \/ Stops \/ (pc' = "update" /\ \E t : UpdateSoFar(t)'))
    BY <1>5, UpdateBegins
  <2>2. ASSUME pc' = "update", \E t : UpdateSoFar(t)' PROVE SoFar'
    BY <2>2 DEF SoFar
  <2>. QED BY <2>1, <2>2, EndsSoFar
<1>6. CASE Select(q)
  BY <1>6, SelectEnds, EndsSoFar
<1>. QED BY <1>1, <1>2, <1>3, <1>4, <1>5, <1>6 DEF Begins

LEMMA StepsRight ==
    ASSUME ~AllocMayFail, MaxRows <= Mod64, Base, Base', Commits, SoFar, Step
    PROVE  SqlStep /\ SoFar'
<1>1. CASE CreateColumn
  <2>1. CreateSoFar
    BY <1>1 DEF CreateColumn, Looping, SoFar
  <2>2. SqlStep /\ (Stops \/ (pc' = "create" /\ CreateSoFar'))
    BY <1>1, <2>1, CreateGoesOn
  <2>3. ASSUME pc' = "create", CreateSoFar' PROVE SoFar'
    BY <2>3 DEF SoFar
  <2>. QED BY <2>2, <2>3, EndsSoFar
<1>2. CASE InsertValue
  <2>1. PICK t : InsertSoFar(t)
    BY <1>2 DEF InsertValue, Looping, SoFar
  <2>2. SqlStep /\ pc' = "insert" /\ InsertSoFar(t)'
    BY <1>2, <2>1, InsertGoesOn
  <2>. QED BY <2>2 DEF SoFar
<1>3. CASE DeleteRow
  <2>1. PICK t : DeleteSoFar(t)
    BY <1>3 DEF DeleteRow, Looping, SoFar
  <2>2. SqlStep /\ pc' = "delete" /\ DeleteSoFar(t)'
    BY <1>3, <2>1, DeleteGoesOn
  <2>. QED BY <2>2 DEF SoFar
<1>4. CASE UpdateValue
  <2>1. PICK t : UpdateSoFar(t)
    BY <1>4 DEF UpdateValue, Looping, SoFar
  <2>2. SqlStep /\ pc' = "update" /\ UpdateSoFar(t)'
    BY <1>4, <2>1, UpdateGoesOn
  <2>. QED BY <2>2 DEF SoFar
<1>5. CASE Return
  <2>1. pc \in {"create", "insert", "delete", "update"}
    BY <1>5 DEF Return, Loops
  <2>2. ASSUME pc = "create" PROVE SqlStep /\ Ends
    BY <1>5, <2>2, CreateReturns DEF SoFar
  <2>3. ASSUME pc = "insert" PROVE SqlStep /\ Ends
    BY <1>5, <2>3, InsertReturns DEF SoFar
  <2>4. ASSUME pc = "delete" PROVE SqlStep /\ Ends
    BY <1>5, <2>4, DeleteReturns DEF SoFar
  <2>5. ASSUME pc = "update" PROVE SqlStep /\ Ends
    BY <1>5, <2>5, UpdateReturns DEF SoFar
  <2>. QED BY <2>1, <2>2, <2>3, <2>4, <2>5, EndsSoFar
<1>. QED BY <1>1, <1>2, <1>3, <1>4, <1>5 DEF Step

\* What is so far stays so when nothing happens.
LEMMA StutterShape ==
    ASSUME UNCHANGED storageVars
    PROVE  DOMAIN tables' = DOMAIN tables /\ \A u \in DOMAIN tables : SameShape(u)
BY DEF storageVars, SameShape, Columns, TypeOf

LEMMA StuttersRight ==
    ASSUME SoFar, UNCHANGED <<vars, committed>>
    PROVE  SqlStep /\ SoFar'
<1>1. /\ UNCHANGED storageVars /\ UNCHANGED <<query, pc, work, deleted, lists, result, output>>
      /\ committed' = committed /\ tables' = tables /\ fill' = fill
  BY DEF vars, storageVars, interpreterVars
<1>2. Contents' = Contents
  BY <1>1, Unseen
<1>3. ASSUME NEW type, NEW t, Doing(type, t) PROVE Doing(type, t)'
  BY <1>1, <1>3, StutterShape, DoingGoesOn
<1>4. ASSUME pc = "idle", committed = Observed PROVE (committed = Observed)'
  BY <1>1, <1>2, <1>4 DEF Observed
<1>5. ASSUME CreateSoFar PROVE CreateSoFar'
  BY <1>1, <1>2, <1>5 DEF CreateSoFar, CreateUpTo
<1>6. ASSUME NEW t, InsertSoFar(t) PROVE InsertSoFar(t)'
  <2>1. Columns(t)' = Columns(t) /\ \A c : TypeOf(t, c)' = TypeOf(t, c)
    BY <1>1 DEF Columns, TypeOf
  <2>2. \A r, c : ValueAt(t, r, c)' = ValueAt(t, r, c)
    BY <1>1, <2>1 DEF ValueAt, IsString, Cell, storageVars
  <2>3. \A c : ValueAt(t, fill.row, c)' = ValueAt(t, fill.row, c)
    BY <1>1, <2>2 DEF ValueAt, IsString, Cell, storageVars
  <2>. QED BY <1>1, <1>2, <1>3, <1>6, <2>1, <2>3 DEF InsertSoFar
<1>7. ASSUME NEW t, DeleteSoFar(t) PROVE DeleteSoFar(t)'
  BY <1>1, <1>2, <1>3, <1>7 DEF DeleteSoFar
<1>8. ASSUME NEW t, UpdateSoFar(t) PROVE UpdateSoFar(t)'
  <2>1. Target' = Target
    BY <1>1, <1>8, SameTarget DEF UpdateSoFar, Doing
  <2>2. UpdateColumns' = UpdateColumns
    BY <1>1, <2>1 DEF UpdateColumns, TableColumnGetList, Columns
  <2>. QED BY <1>1, <1>2, <1>3, <1>8, <2>2 DEF UpdateSoFar
<1>9. SqlStep
  BY <1>1 DEF SqlStep
<1>. QED BY <1>1, <1>4, <1>5, <1>6, <1>7, <1>8, <1>9 DEF SoFar

LEMMA HandledStep ==
    ASSUME ~AllocMayFail, MaxRows <= Mod64, Base, SoFar, [HandledNext]_<<vars, committed>>
    PROVE  SqlStep /\ Base' /\ SoFar'
<1>1. [Next]_vars
  BY DEF HandledNext, Next, vars
<1>2. Base'
  BY <1>1, BaseStep
<1>3. CASE UNCHANGED <<vars, committed>>
  BY <1>2, <1>3, StuttersRight
<1>4. ASSUME Idle, Commits, NEW q \in Queries, HandledRight(q), Begins(q)
      PROVE  SqlStep /\ SoFar'
  <2>1. AtRest
    BY <1>4 DEF AtRest, SoFar, Idle
  <2>. QED BY <1>2, <1>4, <2>1, BeginsRight
<1>5. ASSUME Step, Commits PROVE SqlStep /\ SoFar'
  BY <1>2, <1>5, StepsRight
<1>6. ASSUME Shutdown, Commits PROVE SqlStep /\ SoFar'
  <2>1. AtRest
    BY <1>6 DEF AtRest, SoFar, Idle, Shutdown
  <2>2. SqlStep /\ Ends
    BY <1>2, <1>6, <2>1, ShutdownCloses DEF Ends
  <2>. QED BY <2>2, EndsSoFar
<1>. QED BY <1>2, <1>3, <1>4, <1>5, <1>6 DEF HandledNext

LEMMA HandledInit == HInit => Base /\ SoFar /\ Sql!Init
<1>. SUFFICES ASSUME HInit PROVE Base /\ SoFar /\ Sql!Init
  OBVIOUS
<1>1. Init /\ committed = Observed
  BY DEF HInit
<1>2. IInv /\ StorageInit
  BY <1>1, InitIInv
<1>3. SoundStore
  BY <1>2, InvInit, RowsInit, SoundInv
<1>4. Contents = <<>> /\ tables = <<>>
  BY <1>2, StoreInit DEF StorageInit, RowStore!Init
<1>5. NamesDiffer(Contents) /\ Few
  BY <1>4 DEF NamesDiffer, Few
<1>6. Base
  BY <1>2, <1>3, <1>5 DEF Base
<1>7. SoFar
  BY <1>1 DEF SoFar, Init
<1>8. Sql!Init
  BY <1>1, <1>4 DEF Observed, Init, Sql!Init
<1>. QED BY <1>6, <1>7, <1>8

\* Every query that keeps clear of the known faults has done, when it returns,
\* what its statement means on tables of rows, at once and all of it, or was
\* refused and has left the tables as they were, whatever the queries, the
\* tables and the texts, and however many steps the interpreter took for it:
\* while memory lasts and no table outgrows the delete counter.
THEOREM HandledQueriesAreRight ==
    ASSUME ~AllocMayFail, MaxRows <= Mod64
    PROVE  HandledSpec => ImplementsSql
<1>1. /\ Base /\ SoFar /\ [HandledNext]_<<vars, committed>>
      => SqlStep /\ Base' /\ SoFar'
  BY HandledStep
<1>. QED BY <1>1, HandledInit, PTL DEF HandledSpec, ImplementsSql, Sql!Spec, SqlStep
============================================================================
