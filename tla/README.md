# Baza in TLA+

Baza is a small SQL database in C: one process, one thread, everything in
memory, nothing persisted. It imports two CSV files, reads statements from
`queries.sql`, and runs each one: the parser turns its text into a
`struct Query`, the interpreter executes that against the storage backend
through the API of `storage.h`. This directory holds the specifications of these
parts, from the lexer to the storage backend, and of the program that `main`
makes of them, the configurations that model-check them with TLC, and the
theorems about the backend, the interpreter, the matcher, the lexer and the
parser that TLAPS proves.

## 1. The system

| Component | State | Operations | What makes it correct |
|---|---|---|---|
| Storage backend: `storage.c`, `storage_internal.c`, `storage.h` | `DB.tables`, a linked list of tables; a table's `row_count`, `row_capacity` and linked list of columns; a column's array of slots; the strings string slots point at; the counters `TABLE_ID` and `COLUMN_ID` | `db_table_new`, `db_table_get`, `table_column_new`, `table_column_get`, `table_column_get_list`, `table_column_get_row`, `table_row_add`, `table_row_delete`, `table_row_print`, `table_find`, `storage_init`, `storage_deinit` | capacity is what is allocated; each row owns its strings, nothing else does, nothing leaks; it stores what it was given |
| Interpreter: `interpreter.c` | none between queries; in a query: copies of table and column metadata, lists of row numbers, `delete_count` | `interpret_query` for SELECT, CREATE, INSERT, DELETE, UPDATE | a statement does what it means or nothing; its plan stays valid while it changes the table it was made from; it returns |
| LIKE matcher: `filter_func_like` | two pointers | one call | stays in both strings, ends, matches what the pattern means |
| Integer lists: `util/intlist.c` | a linked list of row numbers | push, contains, union, intersection | sets of rows, each once |
| Lexer, string lists, conversions: `util/str.c` | two pointers into a text; a linked list of strings | `strlist_from_split_quoted`; `str_to_int`, contains, split, merge | ends, stays in the text, loses and invents no field |
| Parser: `parser.c` | a cursor over tokens, the query being built | `query_parse` and one function per statement | reads what was written, makes nothing up, gives the interpreter only queries it is prepared for, ends, follows no null token |
| Command line: `cli-main.c` | the files; the list of statements to run | `csv_read`, `fs_read_queries`, `do_query`, `main` | tables are what the files say; each statement of the script runs once, in order |
| Result codes, output: `util/result.c`, `basetype_value_to_str` | none | formatting | - |

Components interact by calls only. The interpreter gets `TableMeta` and
`ColumnMeta` **by value**, so they are snapshots that go stale when it changes
the table; it gets row data as raw pointers into a column's array. The storage
backend hands ownership of `matches` and of column lists to the interpreter. The parser
owns the query it returns, and shares its memory with an error message
(`QueryParseResult`). The interpreter trusts the parser for lists of equal
length, and `csv_read` makes queries of its own without the parser.

Nothing runs concurrently and nothing is persisted, so there are no
interleavings of threads and no recovery. What is hard in this code:

- one statement is a sequence of storage calls, each of which changes what the
  statement's plan (row numbers, a copied `row_count`, a list of columns) was
  computed from;
- a row exists from `table_row_add` on, and has its values only when
  `insert_values` has gone through all of its columns;
- ownership of strings moves by copying pointers (`icolumn_row_set_nocopy`),
  leaves stale copies behind, and is ended in three places (`icolumn_row_delete`,
  `insert_values` with `replace`, `icolumn_free`);
- growth by `realloc` whose failure is ignored;
- a statement that fails in the middle;
- lists walked in step, null function pointers, null tokens;
- loops that end only if the data says so (the matcher, the lexer, the parser);
- lists that white space cuts anywhere, brackets and commas that stick to words;
- a program that is to go on after a refused statement, and is not after a
  refused row;
- 32- and 64-bit integers converted without a check.

`PROJECT.json` lists each of these under `hazards`, at its line.

## 2. The modules

| Module | What it is |
|---|---|
| `BazaTypes` | `BaseType`, and texts (`Str`) as opaque values |
| `BazaPositions` | what stands at a set of positions of a list, in order: used by reference definitions |
| `BazaStorage` | the backend: one operator per call of `storage.h`, and the most general client that keeps that API's rules |
| `BazaRowStore` | what the backend promises: a list of tables of rows of values |
| `BazaFilter` | pure parts: conversions, filter functions, union and intersection of row lists |
| `BazaInterpreter` | the interpreter, driving the operators of `BazaStorage` |
| `BazaSql` | what statements mean: each carried out at once or refused |
| `BazaSqlRefinement` | how `BazaInterpreter` implements `BazaSql` (a history variable), and for which queries |
| `BazaLike` | the LIKE matcher, one loop turn per step |
| `BazaLexer` | the lexer, one loop turn per step, and what the fields of a text are |
| `BazaSyntax` | tokens, queries as records, and a reference grammar: what may be written for a query |
| `BazaParser` | the parser, one loop turn per step |
| `BazaProgram` | `main` and `csv_read`, driving a `BazaParser` and a `BazaInterpreter` |
| `MCBazaStorage`, `MCBazaInterpreter`, `MCBazaSql`, `MCBazaParser`, `MCBazaProgram` | the instances TLC checks |
| `BazaStorageProofs` | theorems about `BazaStorage`, the refinement of `BazaRowStore` among them |
| `BazaFoldProofs` | lemmas about loops written as folds, for lists of any length |
| `BazaInterpreterProofs`, `BazaSqlProofs`, `BazaLikeProofs`, `BazaLexerProofs`, `BazaParserProofs`, `BazaProgramProofs` | theorems about the modules they are named after; `BazaSqlProofs` about `BazaSqlRefinement` |

### BazaStorage

`tables` is `DB.tables` in list order. A table is a record with the fields of
`struct Table` and `TableMeta`; `columns` is a sequence of records with the
fields of `ColumnMeta` and `data`, a function from `0 .. row_capacity - 1`. A
string slot holds an address, and `heap` maps each address to the string there
or to `Free`; memory from `malloc` or `realloc` that nobody wrote is `Junk`, so
an uninitialised pointer that is freed, and an uninitialised integer that is
read, show. `Crash` is what a double free, a free of junk and a write outside
a column's array become. The addresses `strdup` may return are all those free
at that moment, so that a freed address may be handed out again at once.

`fill` is the position of the client in the row it is filling: `table_row_add`
and `insert_values` are separate calls, and between them the row is
incomplete. `NextFill`, `FillCell` and `ReplaceCell` are one turn of
`insert_values`. The values are written by the interpreter through the pointer
of `table_column_get_row`; the model puts them with the backend because they
decide who owns which string.

The code's odd spots are kept: `table_column_get_row` lets `nth = row_count`
through (`RowPointer`), `icolumn_row_delete` leaves the last slot stale
(`ShiftDown`), growth happens when the count *reaches* the capacity
(`TableRowAdd`), `itable_realloc` ignores failures (`LoseData`), a column id
is spent on a column that could not be allocated, `db_table_new` does not look
whether the name exists.

### BazaInterpreter

`pc` is `"idle"` between statements, the loop that runs (`"create"`,
`"insert"`, `"delete"`, `"update"`), `"segfault"` after a null pointer was
followed, or `"fatal"` after `FATAL`. A statement's first step does everything
up to its loop (lookup, column lists, filters, validation), which only reads
the database (CREATE also makes the table there); with nothing else running,
that is one step without loss. Each turn of the loop is a step. `work` is what
the loop has left: values for INSERT, row numbers for DELETE, cells for
UPDATE, column positions for CREATE. `lists` counts the lists allocated and
not freed, those that `filter_interpret` makes and frees on its way included
(`held`), to find leaks on the ways out. `deleted` is `delete_count`; the
subtraction from it wraps at `Mod64`, as `uint64_t` does.

A text is known by what the program can tell of it: the number `strtoll`
reads (`Decimal`), whether there is one (`NotANumber`), its order under
`strcmp` (`Rank`), what it matches (`Like`). `strtoll` reports a text without
digits by `EINVAL` in some C libraries and not in others (`str_to_int` relies
on it): `StrictLibc` chooses. The two findings about statements use `FALSE`, as
glibc behaves; the other runs use `TRUE`, under which values and filters are also
refused (`InterpreterSql` and `Program` pass with `FALSE` as well, on 541 697 and
47 949 states; `Interpreter` has too many for a run), and the theorems hold for both. Reading an `int64_t` through an `int32_t *`, as
int32 filters do, takes the low half: `Signed`, assuming little-endian.

`Begins(q)` is a call of `interpret_query`; `BazaInterpreter` lets it be any of
`Queries` at any time, `BazaProgram` calls it with the query it has.

### BazaLexer

`start` and `end` are the two pointers, `phase` the loop they are in: the outer
one (`"token"`), the one to the closing quote (`"quoted"`), the one over a run of
delimiters (`"gap"`). A character is known by what the lexer can tell of it.
`Fields` is the reference: a delimiter separates when an even number of quotes
stands before it, and the fields are what is between separators, if it is
anything.

### BazaSyntax and BazaParser

A token is a sequence of symbols: a word is one symbol, and only `,`, `(` and `)`
are looked for inside a token. `tok` is the parser's cursor, as the tokens it
still leads to; `at` is the place in the code. The fixed words of a statement
are one step (nothing can change between them); each turn of the loops over
lists, columns, assignments, filters and clauses is another. A null token that
is followed ends in `"segfault"`, the `FATAL` of `try_parse_where` in `"fatal"`.

`Written(q)` is the set of texts a user may write for `q` by the examples in the
comments of `parser.c` and the README, with white space at any comma and inside
the brackets, and the clauses of a SELECT in both orders. It is a reference, not
a translation of anything.

### BazaProgram

`phase` is where `main` is: `"csv"`, `"script"` (about to open it), `"chunks"`
(`fs_read_queries`), `"run"`, `"parse"` and `"interpret"` in `do_query`, and how
it ended: `"exit 0"`, `"exit 1"`, `"dead"`. A file is read as lines of cells, a
cell being the sequence of its characters, since csv_read cuts one off; the
script is read as the chunks between semicolons, each of them the first character
that is neither a space nor a newline, which is all that `fs_read_queries` looks
at, and the tokens the lexer makes of it. The two need not agree: a tab is a
delimiter to the lexer and a character to `fs_read_queries`. The parser is an instance of `BazaParser` whose query the
interpreter is called with; statements and rows go through the whole
interpreter and backend, one storage call per step.

After a parse error, `do_query` interprets the error message as a query
(`cli-main.c:137`): its first bytes are no query type, so `interpret_query`
comes to `FATAL`. A statement that cannot be parsed ends the program.

### The abstract specifications

`BazaRowStore` has no capacities, slots, addresses or half-filled rows.
`BazaStorage` implements it under the mapping `Contents`, which leaves out the
row being filled and reads strings through the heap. `BazaSql` has no loops.
`BazaInterpreter` implements it under what was `Observed` when it was last idle,
and so does the whole of `BazaProgram`, imports included. It does for the queries
of `HandledRight`, which names, with its line, each fault of the code that makes
another query do something else than `BazaSql` says; a table that is not found, a
value or a filter that does not convert, an unknown column in WHERE, a refused
statement of any of these kinds is handled right.
Both abstract specifications are statements about the code rather than
translations of it, so their definitions carry no source lines in
`PROJECT.json`.

## 3. What is checked

| Run | Checks | Distinct states |
|---|---|---|
| `Storage` | `TypeOK`, `CapacityIsAllocated`, `RowsOwnTheirStrings`, `NoLostStrings`, `NoJunkRead`, `NoCrash`, `DeinitReleasesAll`, refinement `ImplementsRowStore` | 35 264 |
| `Interpreter` | `InterpreterTypeOK`, `IdsDesignate`, `DeletesStayInRange`, `InsertFillsTheRow`, `UpdatesTouchExistingCells`, `LostColumnIsNeverRead`, `OnlyRecklessQueriesSegfault`, `OnlyKnownLeaks`, refinement `ImplementsStorage`, liveness `QueriesReturn` | 182 113 |
| `InterpreterSql` | refinement `ImplementsSql` | 169 711 |
| `LikeMatcher` | `PointersInBounds`, `PrefixPatternsAreRight`, liveness `MatcherAnswers` | 409 976 |
| `Lexer` | `LexerTypeOK`, `TokensAreTheFields`, `QuotedTextsReadBack`, liveness `LexerAnswers` | 344 452 |
| `Parser` | `ParserTypeOK`, `WellFormedStatementsAreRead`, `QueriesSuitTheInterpreter`, `NothingInvented`, `OnlyUnfinishedStatementsSegfault`, liveness `ParserAnswers` | 61 906 |
| `Program` | `RunsTheScript`, `ImportedTablesAreTheFiles`, refinement `ImplementsSql`, liveness `ProgramEnds`, `SoundScriptsFinish` | 46 587 |

What they show:

- **Storage.** Whatever a client does within the rules of the API, capacities
  are right, strings are owned by exactly one slot of a live row, no memory is
  read before it is written, `storage_deinit` frees everything, and the
  backend is a faithful store of rows. *Bounds*: one table, two columns of any
  types, up to three rows with a first capacity of 1 (so the table grows
  twice, 1 to 2 to 4, and a delete is followed by inserts into stale slots),
  six addresses (as many as two string columns of three rows need, so strdup
  never runs out and freed addresses are reused), two strings, two integers.
  The properties relate slots to slots and never a value to a value, so two
  values of each kind are enough to tell a misplaced one.
- **Interpreter.** Queries that take every way through every handler
  (`EveryWay`): well formed, refused, crashing; and at each call that
  `AllocMayFail` covers a `malloc` or `realloc` that may fail. Two tables of the
  same name, so the second is shadowed. The interpreter never breaks a rule the
  backend's client must keep (`ImplementsStorage`), so what `Storage` shows and
  what is proved below holds of the whole program; the kinds of query that
  follow a null pointer are those listed in `Reckless` and no others; a query,
  accepted or refused, frees all its lists but on the five ways out that `Leaks`
  names. *Bounds*: the columns `k INT32` and `v STRING`, three
  rows, a first capacity of 2 (so the table grows once), integers of 3 and 4
  bits (so 5 does not fit a column, and the numbers wrap), three addresses (one
  string column of three rows).
- **InterpreterSql.** Statements of every kind (`AllQueries`), each asked in the
  states in which `HandledRight` says that it keeps clear of a known fault, on
  tables of up to three rows, so that a DELETE may hit each subset of the rows
  and shift the others. The queries of `WorkingQueries` (well formed ones, and
  ones that are to be refused) are handled right in every state. The two
  `Finding` runs of `ImplementsSql` ask what `HandledRight` excludes.
- **LikeMatcher.** Every string up to 4 and pattern up to 3 bytes over two
  letters, a byte above 127, `%` and `_`: enough for a `%` with a scan that
  skips, a character after it and one more that fails.
- **Lexer.** Every text up to 9 characters of an ordinary one, a delimiter and a
  quote: enough for two quoted texts of two characters with a delimiter between,
  for an unclosed quote after a token, and for runs of delimiters at either end.
- **Parser.** 13 queries, each in all of its layouts, and every text that a slip
  of the pen makes of one of those: cut short, a token dropped, two exchanged,
  one of 15 tokens put in or put in another's place. Lists have up to three items
  and WHERE clauses up to three filters, since the loops treat a first, a middle
  and a last item differently.
- **Program.** Two imports, the second with three rows; every script of up to two
  chunks out of 11 statements (one of them also behind a tab), five that cannot be
  parsed, a blank, a comment, a tab alone and a comment behind a tab;
  two scripts of six and ten chunks; and one disk for each way a file can be at
  odds with `csv_read` (missing, one line, no rows, no newline at its end, a blank
  line, an empty cell, a text where a number is due, fewer types than columns, a
  column twice). Left out are a file with an unknown type and one with a cell too
  many, on which `ImplementsSql` does not hold: see the known divergences.

Sets of addresses are declared symmetric in the runs without liveness: the
modules compare addresses for equality only. Deadlock is not checked because
every one of these systems stops: after `storage_deinit`, after a crash, or when
the matcher, the lexer or the parser has answered.

**Fairness.** `FairSpec` is weak fairness of the loops' steps; `LikeSpec`,
`LexerSpec`, `ParserSpec` and `ProgramSpec` are weak fairness of their next-state
relations: the program is one thread that waits for nothing, so a loop that can
take its next turn takes it, and the program its next step. In `FairSpec` none is
assumed of the arrival of statements. A parser caught in the loop of SELECT takes
steps for ever, which consume nothing: fairness does not hide it.

### Disagreements between the code and what is said of it

Each of these is a run that TLC ends with a counterexample.

| Run | What happens |
|---|---|
| `FindingOrDelete` | `DELETE ... WHERE a OR b` deletes wrong rows when a later row matches `a` and an earlier one `b`: `interpreter.c:502` shifts row numbers assuming that they ascend. The README of the program shows such a statement as working. |
| `FindingSetOutOfOrder` | `UPDATE T SET v = x, k = y` gives `k` the value `x` when `k` is the table's first column (`storage.c:124`, promised otherwise by `storage.h:105`). |
| `FindingPercent` | `%` takes characters only up to the first occurrence of the next one (`interpreter.c:103`; the comment at 94 says "zero or more characters"): `'aa' LIKE '%a'` is false, the scan having stopped at the first `a`. |
| `FindingGroupBy` | a SELECT that goes on with GROUP BY, as a comment foresees (`parser.c:318`), or with anything else, never comes back (`parser.c:610`). |
| `FindingUpdateComma` | `UPDATE T SET a = x, b = y` stores `x,` with its comma (`parser.c:883`). |

Known and modelled, without a run of their own:

- The program dies of any statement that cannot be parsed (`cli-main.c:137`), of
  one whose WHERE clause is wrong (`parser.c:507`), of an empty script
  (`cli-main.c:110`) and of a blank line in a CSV file. A tab is not white space to
  `fs_read_queries` (`cli-main.c:110`): after the last semicolon it is a statement
  without a token, whose null verb is followed, and a comment behind one is run as a
  statement, which is fatal.
- Null pointers (`Reckless` and `Unfinished` list them): INSERT with fewer values
  than columns (`interpreter.c:251`); `!=`, which is parsed but has no filter
  function (`interpreter.c:139`, `186`); fewer types than columns, which a CSV
  file can cause (`interpreter.c:384`); a list of columns none of which exists
  (`storage.h:106` promises NULL for an unknown one, `storage.c:124` drops it);
  a statement that ends after a column of a filter (`parser.c:279`), after the
  comma of a list (`parser.c:110`), before or inside the list of an INSERT (75, 105).
- What goes wrong in silence: more values than columns are accepted; a number out
  of int32's range is truncated (`interpreter.c:418`); what follows a complete
  statement is ignored, so that `DELETE FROM t WERE a = 1` deletes every row
  (`parser.c:809`); quotes stay on an item of a list that has its comma or bracket
  attached (`util/str.c:182`); an empty cell of a CSV file is dropped and the rest
  of its row moves left (`util/str.c:211`); the last character of a file without a
  final newline is cut off (`cli-main.c:61`); a statement below a comment belongs
  to the comment if that has no semicolon (`cli-main.c:113`).
- A refused CREATE leaves its table behind (`interpreter.c:372`), and every INSERT
  into that follows a null pointer. A SELECT of listed columns without WHERE prints
  all columns (`interpreter.c:313`).
- Leaks: the rows of earlier filters when a later one names an unknown column
  (`interpreter.c:165`), the rows of an UPDATE whose values are refused (560), the
  columns of a refused INSERT (469), the rows of a DELETE that runs out of the table
  (503); the rows found before a filter that no relation joins to them (229), which
  the parser does not make (`QueriesSuitTheInterpreter`); a second WHERE of a SELECT
  (`parser.c:614`).
- The matcher: a leftover byte above 127 counts as negative (`interpreter.c:128`),
  and any rest of the pattern that begins with `%` as matched: `'a' LIKE 'a%b'`,
  `'' LIKE '%a'`. After a `%`, `_` stands for itself (103).
- After a failed realloc `row_capacity` is not what is allocated
  (`storage_internal.h:36`); `table_column_get_row` does not return NULL one past
  the end (`storage.h:113`).

## 4. What is proved

TLAPS proves, for every value of the constants that satisfies the assumption of
the module (`StorageAssumption`, `FilterAssumption`, `InterpreterAssumption`,
`LikeAssumption`, `LexerAssumption`, `ParserAssumption`, `ProgramAssumption`):

| Theorem | Statement |
|---|---|
| `StorageTypes` | `StorageSpec => []TypeOK`, with allocations that may fail |
| `IdsAlwaysDesignate` | `StorageSpec => []IdsDesignate`, with allocations that may fail |
| `LostColumnsAreNeverRead` | `StorageSpec => []LostColumnIsNeverRead`, with allocations that may fail |
| `CapacityCorrect` | `StorageSpec => []CapacityIsAllocated`, if allocations succeed |
| `OwnershipCorrect` | `StorageSpec => []RowsOwnTheirStrings`, if allocations succeed |
| `NoLeak` | `StorageSpec => []NoLostStrings`, if allocations succeed |
| `RowsAreWritten` | `StorageSpec => []NoJunkRead`, if allocations succeed |
| `BackendIsRowStore` | `StorageSpec => ImplementsRowStore`, if allocations succeed |
| `MemorySafe` | `StorageSpec => []NoCrash`, if allocations succeed |
| `DeinitComplete` | `StorageSpec => []DeinitReleasesAll`, if allocations succeed |
| `InterpreterKeepsTheRules` | `Spec => ImplementsStorage`, with allocations that may fail |
| `InterpreterTypes` | `Spec => []InterpreterTypeOK` |
| `DeletesAreInRange` | `Spec => []DeletesStayInRange` |
| `InsertsFillTheirRows` | `Spec => []InsertFillsTheRow` |
| `UpdatesAreInRange` | `Spec => []UpdatesTouchExistingCells` |
| `SegfaultsAreReckless` | `Spec => []OnlyRecklessQueriesSegfault` |
| `OnlyKnownWaysLeak` | `Spec => []OnlyKnownLeaks` |
| `InterpreterIdsDesignate`, `InterpreterNeverReadsLostColumns` | `Spec => []IdsDesignate`, `Spec => []LostColumnIsNeverRead` |
| `QueriesAreMemorySafe` | `Spec => []` of `NoCrash`, `RowsOwnTheirStrings`, `NoLostStrings` and `NoJunkRead`, if allocations succeed |
| `QueriesWorkOnTheRowStore` | `Spec => ImplementsRowStore`, if allocations succeed |
| `MatcherStaysInBounds` | `LikeSpec => []PointersInBounds` |
| `PrefixesAreRight` | `LikeSpec => []PrefixPatternsAreRight` |
| `LexerStaysInText` | `LexerSpec => []LexerTypeOK` |
| `TokensAreFields` | `LexerSpec => []TokensAreTheFields` |
| `QuotesReadBack` | `LexerSpec => []QuotedTextsReadBack` |
| `ParserTypes` | `ParserSpec => []ParserTypeOK` |
| `OnlyUnfinishedSegfault` | `ParserSpec => []OnlyUnfinishedStatementsSegfault` |
| `QueriesAreSuitable` | `ParserSpec => []QueriesSuitTheInterpreter` |
| `ScriptIsRun` | `ProgramSpec => []RunsTheScript` |
| `HandledQueriesAreRight` | `HandledSpec => ImplementsSql`, if allocations succeed and `MaxRows <= Mod64` |

`InterpreterAssumption` asks of the queries no more than that their values,
columns and types are lists, that a created name can be a table's and the
interpreter's integers are the backend's; a query may name anything, have lists of
any lengths and filters with any relations, so the theorems about `Spec` are
about refused and reckless queries too.

"If allocations succeed" is the hypothesis `~AllocMayFail`; without it the
statements are false, a failed realloc being a null pointer away from a crash.

**Types and capacity.** `TypeOK` bounds rows by capacity only because `fill` and
`row_count` agree, so the invariant behind `StorageTypes` carries the shape of
every table (the length of each `data`, or none) through growth and shifting.
`CapacityIsAllocated` then needs only that growth happens *when* the count
reaches the capacity and doubles it, which leaves room again because a
capacity is at least 1.

**Ownership.** Neither ownership nor the absence of leaks is inductive by
itself. That deleting a row frees live strings needs that the row owns them;
that what remains is still owned needs that no two slots held the same address
*before* the shift, since shifting copies pointers; that nothing leaks needs that
each freed address was held by the deleted row alone. The inductive invariant is
`Inv == TypeInv /\ CapacityInv /\ HeapInv`, where `HeapInv` says both at once: the
slots of complete rows, and of the filled part of the row being filled,
correspond one to one to the addresses in use. Each call is then one lemma:
shifting permutes those slots, growing keeps them, an insert adds one slot and
one address, a replacement frees one address before it takes one. `NoCrash` and
`DeinitReleasesAll` are conjuncts of it.

**Rows are written before they are read.** `NoJunkRead` speaks of complete rows,
and a row becomes complete slot by slot; `RowsInv` says of every slot that a
complete row has, or that `fill` has passed, that it holds what its column is for.
`Inv` is needed beside it: the slot that a delete shifts from must be a slot of
the array.

**Identifiers and lost columns.** Ids are spent in order, so that every id in use
is smaller than the counter, and those of two columns differ. A column loses its
`data` only when a table grows, that is, in `TableRowAdd`, which is also what
begins a row: `fill` stands at or before every lost column, its next write to one
is a crash, and until then nothing but that row's filling may happen.

**The row store.** Each call either leaves `Contents` alone or is one step of
`BazaRowStore`. That the rows nobody touched keep their values is where the
invariants are needed: a row's strings are read through the heap, so a string
that is freed must be held by no slot that stays (`HeapInv`), a string that is
stored must take an address no row holds, and growing or shifting must move what
has been written (`RowsInv`, which also gives a new row's values their types). A
row being filled is invisible; its last value makes the step that appends it.

**The interpreter.** `InterpreterKeepsTheRules` says that each step of the
interpreter is a step the backend's most general client may take, so that every
theorem about `StorageSpec` is one about the interpreter; the last four of its
theorems are that step, taken. It rests on `IInv`, which has one conjunct for each
loop: the row being filled belongs to the INSERT that runs, and there are as many
values left as slots (`Inserting`); the cells of an UPDATE exist and are different
(`Updating`); the columns a CREATE has left still fit (`Creating`, `Bounded`). For
DELETE, `deleted` is subtracted from row numbers computed before the first row
went: that stays in range only if the numbers *ascend*, and `Deleting` says so for
filters without OR, with OR being the divergence `FindingOrDelete`. Lists ascend
because each list operation collects from an ascending list in its order, or
intersects two; `FilterFacts` carries that through the fold over the filters. That
no cell of an UPDATE is there twice needs less: the union of two lists pushes only
what is new.

**Leaks.** `OnlyKnownLeaks` needs the number of lists at every place: `HeldAfter`
says, turn by turn of the fold, that the filters hold one list of rows as long as
each was joined to the one before, whatever AND and OR made and freed on the way;
`LeaksInv` says of each loop that `lists` is what the last lines of its handler
free, unless a filter is joined to nothing. That a DELETE returns at line 503 only
under OR is `Deleting` again.

**What queries do.** `HandledQueriesAreRight` is the refinement of `BazaSql`: a
statement that takes the interpreter many storage calls is one step there. While
it runs nothing is seen of it, and the invariant `SoFar` says, for each loop, how
far what is stored is on its way from the tables the query found (`committed.db`,
left alone until it returns) to those `BazaSql` asks for. A CREATE has made its
first columns. An INSERT has written the values before the cursor, into a row
that `Contents` does not show; its last value makes the row appear. An UPDATE has
set the cells that are no longer in `work`, and no row that does not satisfy
the WHERE clause has a cell there. A DELETE is the hard one: the rows that stay
must be those that do not satisfy the WHERE clause, in their order, although the
numbers in `work` are those of rows that have since moved. `DeleteSoFar` names an order of
the old rows in which the table now stands; from the first row still to be deleted
on, every row stands exactly `deleted` places before where it stood (`RestInPlace`),
so that `work[1] - deleted` is that row, and what has been passed over is what
stays. When `work` is empty the order lists the staying rows and nothing else,
which is `Kept` (`ListedIsKept`). `MaxRows <= Mod64` is there because the index is
computed in 64 bits.

Which rows those are is the other half. `Satisfies` reads the WHERE clause for
one row, `FilterInterpret` for all rows at once, with lists that it intersects and
unites; `FiltersFind` shows, turn by turn of two folds, that a row number is in the list if
and only if the row satisfies the clause, and `FiltersRefused` that the two refuse the same
clauses. Names are looked up as the first match in the code and as the only one in
`BazaSql`: they agree because no two columns of a table have one name, which
`NamesDiffer` says of every state. The values of the rows are those of
`Contents`, so that all of it rests on the invariants of the row store.

**Loops as folds.** `BazaFilter` and `BazaInterpreter` write the loops over lists as
`FoldLeft`, which the library defines by a recursive function on sets of
positions. `BazaFoldProofs` proves that this function exists, so that a fold is the
last of a sequence of turns, and derives what such a sequence keeps. The library's
induction theorems take a predicate, which the provers cannot instantiate; the
lemma `UpTo` takes a set in its place and rests on the least number principle.

**Matcher and lexer.** A pointer moves only from a character that is not the
terminating NUL, in each loop and in each branch; the invariants add what the
place in the loops says of that character.

**What the matcher answers.** `Meaning` is read off a table, `Matched`, with a row
for each position of the pattern: the positions of the string from which what
is left of the pattern matches what is left of the string. As long as no `%`
comes before the end of the pattern, each step of the matcher keeps the
question: the pattern matches the string if and only if what is left of it
matches what is left of the string (`PrefixInv`). That is what fails for a `%` in
the middle (`FindingPercent`), where the matcher commits to one of several
positions, and for bytes above 127, with which the loop takes a leftover character
for the end of both texts.

**What the lexer cuts.** `Fields` counts the quotes before each delimiter, from
the beginning of the text; the lexer has only the loop it is in. `LexerInv` ties
the two: the inner loop is where the number of quotes is odd, no separator
stands between the two pointers, and the tokens are the fields that begin before
`start`. A step over a separator then adds the field between the pointers, if it
is not empty (`PushedField`). `QuotesReadBack` needs nothing more of the lexer: it
says what the fields of a quoted line are, by counting its quotes.

**The program.** `ScriptInv` says how far the loops have come in the script:
`chunks` is what is left of it behind some position, `queue` is what is wanted of
the chunks before that position, and from then on `ran \o queue` stays what was
wanted of all of it, through statements that are refused, and through the one that
ends the program. It rests on no property of the parser or the interpreter, only on
which variables they leave alone.

**Parser.** `QueriesSuitTheInterpreter` is about the query that is returned; the
invariant says of each place in the parser what has been built so far: the names
and the types of a CREATE, the columns and the values of an UPDATE grow together;
only the filter at the end is unfinished, and only at the places that finish it.
`ParserTypeOK` adds that the pieces `Split` makes of a token are tokens, which is a
fold again. For `OnlyUnfinishedStatementsSegfault` the query does not help: `CursorInv`
says which token of the statement the pointer leads to, and of each place that
follows a pointer without a look (`"verb"`, `"insert"`, `"list"`, `"filter"`) which
tokens lie behind it.

**Checked before they were proved**: the conjuncts of the inductive invariants, as
invariants of the runs of the module (`IInv` on the 182 113 states of `Interpreter`, `LexerInv` on the 344 452 of `Lexer`,
`PrefixInv` on the 409 976 of `LikeMatcher`).

**Only model-checked**: liveness, which is out of the prover's reach; the
refinement `ImplementsSql` of the program, imports included;
`ImportedTablesAreTheFiles`; `WellFormedStatementsAreRead` and `NothingInvented`, which
compare the parser with references (`Written`, `Words`) that are themselves built
from sorting, flattening or recursion over data.

## 5. What is not modelled, and why

- What `strtok`, `getline`, `mmap` and `fopen` do is external: a file is its
  lines, a script its chunks. Whether a script's size is a multiple of the page
  size, on which its final NUL depends (`cli-main.c:106`), is not modelled.
- Lexer and parser are composed by the form of a token only: `BazaProgram` reads
  scripts as tokens, so that quotes do not occur there.
- `query_free` and the tokens' memory: each is freed once, in `do_query` and at
  the end of `query_parse`, by functions without a condition on the data.
- Integer, string and column lists as linked nodes: they are sequences, with the
  null root of an empty one where it is followed.
- Failures of `malloc` other than those of tables, columns and their data:
  `strdup` and the list nodes are taken to succeed. The code does not check
  them either; they would all become null pointers.
- Names of tables and columns as memory: they are duplicated once and freed
  once, with the struct that holds them.
- The formatting of output (padding of columns, counting of glyphs), and result
  messages.
- `db_table_delete`, `table_column_delete` and `table_column_set_row`, which
  `storage.h` declares and nothing defines.
- ORDER BY: parsed, ignored by the interpreter.

## 6. Plan

Done, in this order: the backend with its abstract store; the interpreter over
it; what statements mean; the matcher; the proofs of types, capacity and
ownership; the parser with its reference grammar; the lexer; the program.

After them, the proofs about the lexer, the matcher, written rows, identifiers,
lost columns, the refinement of the row store; then about the interpreter, its
folds, and all of the parser but what it compares with its grammar.

Then what the lexer cuts, what the matcher answers for the patterns it answers
rightly, and that the program runs its script; and last that the interpreter
does what statements mean.

Left of the proofs: that `ProgramSpec` implements `StorageSpec` and `BazaSql`, for
which `IInv` and `SoFar` have to speak of the queries that the parser can return
rather than of `Queries`.

Left of the code: the lists as linked nodes, and the formatting of output.

## 7. Running

    tlc -workers 2 -config Storage.cfg MCBazaStorage
    tlc -workers 2 -config Interpreter.cfg MCBazaInterpreter
    tlc -workers 2 -config InterpreterSql.cfg MCBazaSql
    tlc -workers 2 -config LikeMatcher.cfg BazaLike
    tlc -workers 2 -config Lexer.cfg BazaLexer
    tlc -workers 2 -config Parser.cfg MCBazaParser
    tlc -workers 2 -config Program.cfg MCBazaProgram
    tlapm BazaStorageProofs.tla
    tlapm BazaFoldProofs.tla
    tlapm BazaInterpreterProofs.tla
    tlapm BazaSqlProofs.tla
    tlapm BazaLikeProofs.tla
    tlapm BazaLexerProofs.tla
    tlapm BazaParserProofs.tla
    tlapm BazaProgramProofs.tla

`PROJECT.json` also names, for each property, a faulty variant of one
definition (the operators commented *Faulty*) under which TLC finds the
property violated.
