----------------------------- MODULE BazaProgram ----------------------------
(***************************************************************************)
(* The program: src/cli-main.c.  It imports a CSV file for each table,     *)
(* reads a script, and for every statement of the script runs the parser   *)
(* (an instance of BazaParser) and the interpreter (BazaInterpreter).      *)
(*                                                                         *)
(* A line of a file is a sequence of cells, a cell the sequence of its     *)
(* characters.  A script is the sequence of chunks strtok finds between    *)
(* semicolons: [first : the character a chunk begins with once the spaces  *)
(* and newlines before it are skipped, "" if it ends there, tokens : what  *)
(* the lexer, for which a tab separates tokens too, finds in it].          *)
(***************************************************************************)
EXTENDS BazaSqlRefinement, BazaPositions

CONSTANTS
    CsvNames,     \* the tables to import, in order
    Disks,        \* [csv : one file for each name, script : the script]
    Missing,      \* no file
    Understood    \* chunks whose tokens are a statement as README.md writes it

\* strtok finds a sequence of chunks.
ASSUME ProgramAssumption ==
    \A d \in Disks : d.script # Missing => d.script \in Seq(ToSet(d.script))

VARIABLES
    disk,
    phase,        \* where main is
    file, line,   \* csv_read: which file, how many lines of it are read
    chunks,       \* fs_read_queries: the chunks left
    queue,        \* its list of statements
    ran,          \* history: the statements do_query has run
    input, tok, at, parsed, outcome   \* the parser

mainVars == <<disk, phase, file, line, chunks, queue, ran>>
parserVars == <<input, tok, at, parsed, outcome>>
databaseVars == <<vars, committed>>
programVars == <<mainVars, parserVars, databaseVars>>

Parser == INSTANCE BazaParser WITH
    query <- parsed, Symbol <- {}, Inputs <- {}, Statements <- {}

\* interpret_query is called, and its loop moves on.
Commit == committed' = IF pc' = "idle" THEN Observed' ELSE committed
Ask(q) == Begins(q) /\ Commit
Compute == Step /\ Commit /\ UNCHANGED <<mainVars, parserVars>>

----------------------------------------------------------------------------
(* csv_read.                                                               *)

Csv == disk.csv[CsvNames[file]]

\* Faulty: the last line loses a character even if a newline ends it.
CutLast(n) ==
    LET cells == Csv.lines[n]
    IN  IF n < Len(Csv.lines) \/ cells = <<>> THEN cells
        ELSE [cells EXCEPT ![Len(cells)] = Front(@)]

\* line[nread-1] = 0 takes the newline off, or the last character of a file
\* that does not end with a newline.
LineOf(n) ==
    LET cells == Csv.lines[n]
    IN  IF n < Len(Csv.lines) \/ Csv.newline \/ cells = <<>> THEN cells
        ELSE [cells EXCEPT ![Len(cells)] = Front(@)]

\* Splitting at commas finds no empty cells.
Cells(n) == LET Filled(cell) == cell # <<>> IN SelectSeq(LineOf(n), Filled)

Leave(how) == phase' = how /\ UNCHANGED <<parserVars, databaseVars>>

\* The first two lines make the table.
ReadHeader ==
    /\ phase = "csv" /\ line = 0
    /\ \/ /\ Csv = Missing
          /\ Leave("exit 1")
          /\ UNCHANGED line
       \/ /\ Csv # Missing
          /\ Len(Csv.lines) < 2
          /\ Leave("exit 1")
          /\ UNCHANGED line
       \/ /\ Csv # Missing
          /\ Len(Csv.lines) >= 2
          /\ Ask([type |-> "CREATE", table |-> CsvNames[file],
                  columns |-> Cells(1), types |-> Cells(2)])
          /\ line' = 2
          /\ UNCHANGED <<phase, parserVars>>
    /\ UNCHANGED <<disk, file, chunks, queue, ran>>

\* Each other line is a row.  The first refusal ends the program.
ReadLine ==
    /\ phase = "csv" /\ line >= 2 /\ pc = "idle"
    /\ \/ /\ result # "RESULT_OK"
          /\ Leave("exit 1")
          /\ UNCHANGED <<file, line>>
       \/ /\ result = "RESULT_OK" /\ line < Len(Csv.lines)
          /\ Ask([type |-> "INSERT", table |-> CsvNames[file], values |-> Cells(line + 1)])
          /\ line' = line + 1
          /\ UNCHANGED <<phase, file, parserVars>>
       \/ /\ result = "RESULT_OK" /\ line = Len(Csv.lines)
          /\ IF file < Len(CsvNames)
             THEN file' = file + 1 /\ line' = 0 /\ UNCHANGED phase
             ELSE phase' = "script" /\ UNCHANGED <<file, line>>
          /\ UNCHANGED <<parserVars, databaseVars>>
    /\ UNCHANGED <<disk, chunks, queue, ran>>

----------------------------------------------------------------------------
(* fs_read_queries.                                                        *)

\* What `while (*tok == ' ' || *tok == '\n')' stops at.  A tab it stops at too:
\* such a chunk is neither, though it have no token or begin with # after the tab.
IsBlank(chunk) == chunk.first = ""
IsComment(chunk) == chunk.first = "#"

\* A script that is missing is fatal; strtok finds nothing in one that is empty
\* or has only semicolons, and its null pointer is followed.
OpenScript ==
    /\ phase = "script"
    /\ IF disk.script \in {Missing, <<>>}
       THEN phase' = "dead" /\ UNCHANGED chunks
       ELSE phase' = "chunks" /\ chunks' = disk.script
    /\ UNCHANGED <<disk, file, line, queue, ran, parserVars, databaseVars>>

\* Faulty: a comment ends the script.
StopAtComment ==
    /\ phase = "chunks"
    /\ chunks' = IF IsComment(Head(chunks)) THEN <<>> ELSE Tail(chunks)
    /\ queue' = IF IsBlank(Head(chunks)) \/ IsComment(Head(chunks)) THEN queue
                ELSE Append(queue, Head(chunks))
    /\ phase' = IF chunks' = <<>> THEN "run" ELSE "chunks"
    /\ UNCHANGED <<disk, file, line, ran, parserVars, databaseVars>>

\* Chunks that are blank or comments to the code are passed over.
TakeChunk ==
    /\ phase = "chunks"
    /\ chunks' = Tail(chunks)
    /\ queue' = IF IsBlank(Head(chunks)) \/ IsComment(Head(chunks)) THEN queue
                ELSE Append(queue, Head(chunks))
    /\ phase' = IF chunks' = <<>> THEN "run" ELSE "chunks"
    /\ UNCHANGED <<disk, file, line, ran, parserVars, databaseVars>>

----------------------------------------------------------------------------
(* do_query and the loop of main.                                          *)

BeginStatement ==
    /\ phase = "run" /\ queue # <<>>
    /\ Parser!Parses(Head(queue).tokens)
    /\ phase' = "parse"
    /\ UNCHANGED <<disk, file, line, chunks, queue, ran, databaseVars>>

Parse ==
    /\ phase = "parse"
    /\ Parser!ParserNext
    /\ UNCHANGED <<mainVars, databaseVars>>

\* A parse error is printed, and then the message is interpreted as if it were
\* the query: its type is none of the five, which is fatal.
Interpret ==
    /\ phase = "parse" /\ at = "ended"
    /\ \/ /\ outcome = "RESULT_OK"
          /\ Ask(parsed)
          /\ phase' = "interpret"
       \/ /\ outcome = "RESULT_ERR_SQL_PARSE"
          /\ Abort("fatal")
          /\ phase' = "interpret"
          /\ UNCHANGED <<storageVars, query, committed>>
       \/ /\ outcome \in {"fatal", "segfault"}
          /\ phase' = "dead"
          /\ UNCHANGED databaseVars
    /\ UNCHANGED <<disk, file, line, chunks, queue, ran, parserVars>>

\* query_free, and on to the next statement.
Answered ==
    /\ phase = "interpret" /\ pc = "idle"
    /\ phase' = "run"
    /\ ran' = Append(ran, Head(queue))
    /\ queue' = Tail(queue)
    /\ UNCHANGED <<disk, file, line, chunks, parserVars, databaseVars>>

Quit ==
    /\ phase = "run" /\ queue = <<>>
    /\ Shutdown /\ Commit
    /\ phase' = "exit 0"
    /\ UNCHANGED <<disk, file, line, chunks, queue, ran, parserVars>>

----------------------------------------------------------------------------

ProgramInit ==
    /\ HInit
    /\ disk \in Disks
    /\ phase = "csv"
    /\ file = 1 /\ line = 0
    /\ chunks = <<>> /\ queue = <<>> /\ ran = <<>>
    /\ input = <<>> /\ tok = <<>>
    /\ at = "ended" /\ parsed = Parser!NoQuery /\ outcome = "PENDING"

ProgramNext ==
    \/ ReadHeader
    \/ ReadLine
    \/ Compute
    \/ OpenScript
    \/ TakeChunk
    \/ BeginStatement
    \/ Parse
    \/ Interpret
    \/ Answered
    \/ Quit

\* One thread, which waits for nothing.
ProgramSpec ==
    ProgramInit /\ [][ProgramNext]_programVars /\ WF_programVars(ProgramNext)

----------------------------------------------------------------------------
(* Properties.                                                             *)

\* A script with what the code takes for blanks and comments left out.
Wanted(script) ==
    Kept(script, {n \in DOMAIN script : ~IsBlank(script[n]) /\ ~IsComment(script[n])})

\* The statements of the script are run in order, each once, after every file has
\* been imported; a program that exits with 0 has run them all, however many of
\* them the interpreter refused.
RunsTheScript ==
    /\ ran # <<>> => IsPrefix(ran, Wanted(disk.script))
    /\ phase = "exit 0" => ran = Wanted(disk.script)

\* A file whose rows have a value for every column, and end with a newline.
Plain(csv) ==
    /\ csv.newline
    /\ \A n \in DOMAIN csv.lines :
          /\ Len(csv.lines[n]) = Len(csv.lines[1])
          /\ \A c \in DOMAIN csv.lines[n] : csv.lines[n][c] # <<>>

\* The table a plain file describes.
TableOf(name, csv) ==
    LET type(c) == BaseTypeFromStr(csv.lines[2][c])
    IN  [name |-> name,
         columns |-> [c \in DOMAIN csv.lines[1] |-> [name |-> csv.lines[1][c], type |-> type(c)]],
         rows |-> [r \in 1 .. Len(csv.lines) - 2 |->
                     [c \in DOMAIN csv.lines[1] |-> SlotValue(type(c), csv.lines[r + 2][c])]]]

\* When the imports are done the database is what the files say: a table for
\* each, its columns in order, and a row for every line after the second.
ImportedTablesAreTheFiles ==
    phase = "script" /\ (\A i \in DOMAIN CsvNames : Plain(disk.csv[CsvNames[i]])) =>
        Contents = [i \in DOMAIN CsvNames |-> TableOf(CsvNames[i], disk.csv[CsvNames[i]])]

Over == phase \in {"exit 0", "exit 1", "dead"} \/ pc \in {"segfault", "fatal"} \/ status = "crashed"

\* The program ends, unless a SELECT keeps the parser at a token no clause
\* starts with.
ProgramEnds == <>Over \/ <>[](phase = "parse" /\ Parser!Unknown)

\* A file that also has a type for every column, no column twice, and numbers
\* where the types call for them.
Sound(csv) ==
    /\ csv # Missing /\ Len(csv.lines) >= 2 /\ Plain(csv)
    /\ Cardinality(ToSet(csv.lines[1])) = Len(csv.lines[1])
    /\ \A c \in DOMAIN csv.lines[2] :
          /\ BaseTypeFromStr(csv.lines[2][c]) \in BaseType
          /\ IsIntegral(BaseTypeFromStr(csv.lines[2][c])) =>
                \A n \in 3 .. Len(csv.lines) : Converts(csv.lines[n][c])

\* With sound files, and statements it understands, the program runs the script
\* to its end and exits with 0, whatever the statements before have done to the
\* tables and however many of them the interpreter has refused.  A chunk with a
\* tab and nothing else, or with a tab before a comment, is not understood: the
\* first kills the program (cli-main.c:110), the second is fatal (113).
SoundScriptsFinish ==
    /\ \A i \in DOMAIN CsvNames : Sound(disk.csv[CsvNames[i]])
    /\ disk.script \notin {Missing, <<>>}
    /\ ToSet(Wanted(disk.script)) \subseteq Understood
    => <>(phase = "exit 0")

============================================================================
