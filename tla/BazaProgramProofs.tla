------------------------- MODULE BazaProgramProofs --------------------------
(***************************************************************************)
(* The program runs its script, whatever the files and the statements:     *)
(* proofs about BazaProgram for every value of its constants.              *)
(***************************************************************************)
EXTENDS BazaProgram, BazaInterpreterProofs

\* The statements among the first n chunks of a script.
WantedAmong(script, n) == {m \in 1 .. n : ~IsBlank(script[m]) /\ ~IsComment(script[m])}

\* How far the loops have come: chunks is what strtok has not found yet, the
\* queue what is wanted of the chunks it has; then ran is what do_query has run
\* of it.
ReadInv ==
    \E n \in 0 .. Len(disk.script) - 1 :
        /\ chunks = SubSeq(disk.script, n + 1, Len(disk.script))
        /\ queue = Kept(disk.script, WantedAmong(disk.script, n))

ScriptInv ==
    /\ disk \in Disks
    /\ phase \in {"csv", "script", "exit 1"} => queue = <<>> /\ ran = <<>>
    /\ phase = "chunks" => disk.script # Missing /\ ran = <<>> /\ ReadInv
    /\ phase \in {"run", "parse", "interpret"} =>
          /\ disk.script # Missing
          /\ ran \in Seq(ToSet(disk.script)) /\ queue \in Seq(ToSet(disk.script))
          /\ ran \o queue = Wanted(disk.script)
    /\ phase \in {"parse", "interpret"} => queue # <<>>
    /\ RunsTheScript

----------------------------------------------------------------------------
(* What is kept of a script.                                               *)

IsWanted(chunk) == ~IsBlank(chunk) /\ ~IsComment(chunk)

\* What is kept of the first n chunks is what was kept of those before the n-th,
\* and the n-th if it is wanted.
LEMMA KeptOfNone ==
    ASSUME NEW script
    PROVE  Kept(script, WantedAmong(script, 0)) = <<>>
<1>1. WantedAmong(script, 0) = {}
  BY DEF WantedAmong
<1>2. Cardinality(WantedAmong(script, 0)) = 0
  BY <1>1, FS_EmptySet
<1>. QED BY <1>2 DEF Kept

LEMMA KeptOfMore ==
    ASSUME NEW V, NEW script \in Seq(V), NEW n \in 1 .. Len(script)
    PROVE  Kept(script, WantedAmong(script, n)) =
           IF IsWanted(script[n]) THEN Append(Kept(script, WantedAmong(script, n - 1)), script[n])
                                  ELSE Kept(script, WantedAmong(script, n - 1))
<1> DEFINE before == WantedAmong(script, n - 1)
           upto == WantedAmong(script, n)
<1>1. CASE ~IsWanted(script[n])
  <2>1. upto = before
    BY <1>1 DEF WantedAmong, IsWanted
  <2>. QED BY <1>1, <2>1
<1>2. CASE IsWanted(script[n])
  <2>1. upto = before \cup {n}
    BY <1>2 DEF WantedAmong, IsWanted
  <2>2. /\ IsFiniteSet(before) /\ before \in SUBSET Int
        /\ Cardinality(before) \in Nat /\ \A m \in before : m < n
    <3>1. before \in SUBSET (1 .. n - 1)
      BY DEF WantedAmong
    <3>. HIDE DEF before
    <3>2. n \in Int /\ n - 1 \in Nat
      OBVIOUS
    <3>3. \A m \in before : m < n
      BY <3>1, <3>2
    <3>4. IsFiniteSet(before) /\ Cardinality(before) \in Nat /\ before \in SUBSET Int
      BY <3>1, <3>2, FinitePositions
    <3>. QED BY <3>3, <3>4
  <2> DEFINE c == Cardinality(before)
  <2>3. /\ Cardinality(upto) = c + 1 /\ Nth(upto, c + 1) = n
        /\ \A k \in 1 .. c : Nth(upto, k) = Nth(before, k)
    <3>. HIDE DEF before, upto
    <3>1. n \in Int
      OBVIOUS
    <3>2. /\ Cardinality(before \cup {n}) = Cardinality(before) + 1
          /\ Nth(before \cup {n}, Cardinality(before) + 1) = n
          /\ \A k \in 1 .. Cardinality(before) : Nth(before \cup {n}, k) = Nth(before, k)
      BY <2>2, <3>1, NthOfMore
    <3>. QED BY <2>1, <3>2
  <2>4. Kept(script, upto) = [k \in 1 .. c + 1 |-> IF k = c + 1 THEN script[n] ELSE Kept(script, before)[k]]
    <3>. HIDE DEF before, upto
    <3>. QED BY <2>2, <2>3 DEF Kept
  <2>5. Append(Kept(script, before), script[n])
        = [k \in 1 .. c + 1 |-> IF k = c + 1 THEN script[n] ELSE Kept(script, before)[k]]
    <3>1. Len(Kept(script, before)) = c
      BY <2>2 DEF Kept
    <3>. HIDE DEF before
    <3>. QED BY <2>2, <3>1 DEF Kept
  <2>. QED BY <1>2, <2>4, <2>5
<1>. QED BY <1>1, <1>2

\* What is kept are chunks of the script.
LEMMA KeptType ==
    ASSUME NEW V, NEW script \in Seq(V), NEW n \in 0 .. Len(script)
    PROVE  Kept(script, WantedAmong(script, n)) \in Seq(ToSet(script))
<1> DEFINE S == {m \in 0 .. Len(script) : Kept(script, WantedAmong(script, m)) \in Seq(ToSet(script))}
<1>1. 0 \in S
  <2>1. 0 \in 0 .. Len(script) /\ <<>> \in Seq(ToSet(script))
    OBVIOUS
  <2>. QED BY <2>1, KeptOfNone
<1>2. ASSUME NEW m \in 1 .. Len(script), m - 1 \in S PROVE m \in S
  <2> DEFINE before == Kept(script, WantedAmong(script, m - 1))
  <2>1. script[m] \in ToSet(script) /\ m \in 0 .. Len(script)
    BY DEF ToSet
  <2>2. before \in Seq(ToSet(script))
    BY <1>2
  <2>3. Kept(script, WantedAmong(script, m)) \in {before, Append(before, script[m])}
    BY KeptOfMore
  <2>4. Append(before, script[m]) \in Seq(ToSet(script))
    <3>. HIDE DEF before
    <3>. QED BY <2>1, <2>2
  <2>. HIDE DEF before
  <2>. QED BY <2>1, <2>2, <2>3, <2>4
<1>3. n \in S
  <2>1. n \in Nat /\ \A k \in 1 .. n : k \in 1 .. Len(script)
    OBVIOUS
  <2>2. Inductive(S, n)
    <3>. HIDE DEF S
    <3>. QED BY <1>1, <1>2, <2>1 DEF Inductive
  <2>. HIDE DEF S
  <2>. QED BY <2>1, <2>2, UpTo
<1>. QED BY <1>3

\* At the end, that is the script with what is passed over left out.
LEMMA KeptOfAll ==
    ASSUME NEW V, NEW script \in Seq(V)
    PROVE  Wanted(script) = Kept(script, WantedAmong(script, Len(script)))
<1>1. DOMAIN script = 1 .. Len(script)
  OBVIOUS
<1>2. WantedAmong(script, Len(script)) =
      {m \in DOMAIN script : ~IsBlank(script[m]) /\ ~IsComment(script[m])}
  BY <1>1, Zenon DEF WantedAmong
<1>. QED BY <1>2, Zenon DEF Wanted

LEMMA ScriptIsSeq ==
    ASSUME NEW d \in Disks, d.script # Missing
    PROVE  d.script \in Seq(ToSet(d.script)) /\ Len(d.script) \in Nat
<1>1. d.script \in Seq(ToSet(d.script))
  BY ProgramAssumption, Zenon
<1> DEFINE script == d.script
<1> HIDE DEF script
<1>2. script \in Seq(ToSet(script))
  BY <1>1 DEF script
<1>3. Len(script) \in Nat
  BY <1>2
<1>. QED BY <1>1, <1>3 DEF script

----------------------------------------------------------------------------
(* Lists that are taken from one end and put to another.                   *)

LEMMA PrefixOfWhole ==
    ASSUME NEW V, NEW left \in Seq(V), NEW right \in Seq(V)
    PROVE  IsPrefix(left, left \o right)
<1> DEFINE whole == left \o right
<1>1. /\ whole \in Seq(V) /\ Len(whole) = Len(left) + Len(right)
      /\ \A k \in 1 .. Len(left) : whole[k] = left[k]
      /\ Len(left) \in Nat /\ Len(right) \in Nat
  OBVIOUS
<1> HIDE DEF whole
<1>2. SubSeq(whole, 1, Len(left)) = left
  BY <1>1
<1>3. SubSeq(left, 1, Len(left)) = left
  OBVIOUS
<1>. QED BY <1>1, <1>2, <1>3 DEF whole, IsPrefix

LEMMA MovedHead ==
    ASSUME NEW V, NEW left \in Seq(V), NEW right \in Seq(V), right # <<>>
    PROVE  /\ Append(left, Head(right)) \in Seq(V) /\ Tail(right) \in Seq(V)
           /\ Append(left, Head(right)) \o Tail(right) = left \o right
<1>1. Head(right) \in V /\ Tail(right) \in Seq(V) /\ right = <<Head(right)>> \o Tail(right)
  OBVIOUS
<1>2. Append(left, Head(right)) \o Tail(right) = left \o (<<Head(right)>> \o Tail(right))
  <2> DEFINE h == Head(right)
             t == Tail(right)
  <2>1. h \in V /\ t \in Seq(V)
    BY <1>1
  <2>. HIDE DEF h, t
  <2>2. Append(left, h) \o t = left \o (<<h>> \o t)
    BY <2>1
  <2>. QED BY <2>2 DEF h, t
<1>. QED BY <1>1, <1>2

LEMMA RestOfScript ==
    ASSUME NEW V, NEW script \in Seq(V), NEW n \in 0 .. Len(script) - 1
    PROVE  LET rest == SubSeq(script, n + 1, Len(script))
           IN  /\ rest # <<>>
               /\ Head(rest) = script[n + 1]
               /\ Tail(rest) = SubSeq(script, n + 2, Len(script))
               /\ Tail(rest) = <<>> <=> n + 1 = Len(script)
<1> DEFINE rest == SubSeq(script, n + 1, Len(script))
           tail == SubSeq(script, n + 2, Len(script))
<1>1. Len(script) \in Nat /\ n \in Nat /\ n + 1 \in 1 .. Len(script)
  OBVIOUS
<1>2. /\ rest \in Seq(V) /\ Len(rest) = Len(script) - n
      /\ \A k \in 1 .. Len(script) - n : rest[k] = script[n + k]
  BY <1>1
<1>3. /\ tail \in Seq(V) /\ Len(tail) = Len(script) - n - 1
      /\ \A k \in 1 .. Len(script) - n - 1 : tail[k] = script[n + 1 + k]
  BY <1>1
<1> HIDE DEF rest, tail
<1>4. rest # <<>> /\ Head(rest) = script[n + 1]
  BY <1>1, <1>2
<1>5. Tail(rest) = tail
  <2>1. /\ Tail(rest) \in Seq(V) /\ Len(Tail(rest)) = Len(script) - n - 1
        /\ \A k \in 1 .. Len(script) - n - 1 : Tail(rest)[k] = rest[k + 1]
    BY <1>1, <1>2, <1>4
  <2>2. \A k \in 1 .. Len(script) - n - 1 : Tail(rest)[k] = tail[k]
    BY <1>1, <1>2, <1>3, <2>1
  <2>. QED BY <1>3, <2>1, <2>2
<1>6. tail = <<>> <=> n + 1 = Len(script)
  BY <1>1, <1>3
<1>. QED BY <1>4, <1>5, <1>6 DEF rest, tail
----------------------------------------------------------------------------
(* The steps.                                                              *)

LEMMA InitScript == ProgramInit => ScriptInv
  BY DEF ProgramInit, ScriptInv, RunsTheScript

\* The parser and the interpreter do not touch what main keeps.
LEMMA SameMain == ScriptInv /\ UNCHANGED mainVars => ScriptInv'
  BY DEF mainVars, ScriptInv, ReadInv, RunsTheScript

\* The imports are over before the script is read.
LEMMA ImportsComeFirst ==
    ASSUME ScriptInv, ReadHeader \/ ReadLine
    PROVE  ScriptInv'
<1>1. /\ phase = "csv" /\ phase' \in {"csv", "exit 1", "script"}
      /\ UNCHANGED <<disk, chunks, queue, ran>>
  BY DEF ReadHeader, ReadLine, Leave
<1>. QED BY <1>1 DEF ScriptInv, RunsTheScript

LEMMA OpenedScript ==
    ASSUME ScriptInv, OpenScript
    PROVE  ScriptInv'
<1>1. phase = "script" /\ queue = <<>> /\ ran = <<>> /\ disk \in Disks
  BY DEF OpenScript, ScriptInv
<1>2. UNCHANGED <<disk, queue, ran>>
  BY DEF OpenScript
<1>3. CASE disk.script \in {Missing, <<>>}
  <2>1. phase' = "dead"
    BY <1>3 DEF OpenScript
  <2>. QED BY <1>1, <1>2, <2>1 DEF ScriptInv, RunsTheScript
<1>4. CASE disk.script \notin {Missing, <<>>}
  <2>1. phase' = "chunks" /\ chunks' = disk.script
    BY <1>4 DEF OpenScript
  <2> DEFINE script == disk.script
  <2>2. script \in Seq(ToSet(script)) /\ Len(script) \in Nat
    BY <1>1, <1>4, ScriptIsSeq
  <2>3. script # <<>> /\ script # Missing
    BY <1>4
  <2>4. Kept(script, WantedAmong(script, 0)) = <<>>
    BY KeptOfNone
  <2>5. ReadInv'
    <3>1. ReadInv' <=> \E n \in 0 .. Len(script) - 1 :
              /\ chunks' = SubSeq(script, n + 1, Len(script))
              /\ queue' = Kept(script, WantedAmong(script, n))
      BY <1>2 DEF ReadInv
    <3>. HIDE DEF script
    <3>2. 0 \in 0 .. Len(script) - 1 /\ SubSeq(script, 0 + 1, Len(script)) = script
      BY <2>2, <2>3
    <3>3. chunks' = script
      BY <2>1 DEF script
    <3>. QED BY <1>1, <1>2, <2>4, <3>1, <3>2, <3>3
  <2>. QED BY <1>1, <1>2, <2>1, <2>3, <2>5 DEF ScriptInv, RunsTheScript
<1>. QED BY <1>3, <1>4

\* A chunk goes to the queue if it is wanted; with the last one all is read.
LEMMA TakenChunk ==
    ASSUME ScriptInv, TakeChunk
    PROVE  ScriptInv'
<1>1. phase = "chunks" /\ ran = <<>> /\ disk \in Disks /\ disk.script # Missing /\ ReadInv
  BY DEF TakeChunk, ScriptInv
<1>2. UNCHANGED <<disk, ran>>
  BY DEF TakeChunk
<1> DEFINE script == disk.script
<1>3. script \in Seq(ToSet(script)) /\ Len(script) \in Nat
  BY <1>1, ScriptIsSeq
<1>4. PICK n \in 0 .. Len(script) - 1 :
            /\ chunks = SubSeq(script, n + 1, Len(script))
            /\ queue = Kept(script, WantedAmong(script, n))
  BY <1>1 DEF ReadInv
<1>5. /\ chunks' = Tail(chunks)
      /\ queue' = IF IsWanted(Head(chunks)) THEN Append(queue, Head(chunks)) ELSE queue
      /\ phase' = IF chunks' = <<>> THEN "run" ELSE "chunks"
  BY DEF TakeChunk, IsWanted
<1>6. script' = script
  BY <1>2
<1>7. ReadInv' <=> \E m \in 0 .. Len(script) - 1 :
              /\ chunks' = SubSeq(script, m + 1, Len(script))
              /\ queue' = Kept(script, WantedAmong(script, m))
  BY <1>2 DEF ReadInv
<1>8. Wanted(script) = Kept(script, WantedAmong(script, Len(script)))
  <2>. HIDE DEF script
  <2>. QED BY <1>3, KeptOfAll
<1> HIDE DEF script
<1>9. n + 1 \in 1 .. Len(script) /\ (n + 1) - 1 = n /\ (n + 1) + 1 = n + 2
  BY <1>3
<1>10. /\ Head(chunks) = script[n + 1]
       /\ Tail(chunks) = SubSeq(script, n + 2, Len(script))
       /\ Tail(chunks) = <<>> <=> n + 1 = Len(script)
  BY <1>3, <1>4, RestOfScript
<1>11. queue' = Kept(script, WantedAmong(script, n + 1))
  <2>1. Kept(script, WantedAmong(script, n + 1)) =
        IF IsWanted(script[n + 1])
        THEN Append(Kept(script, WantedAmong(script, (n + 1) - 1)), script[n + 1])
        ELSE Kept(script, WantedAmong(script, (n + 1) - 1))
    BY <1>3, <1>9, KeptOfMore
  <2>. QED BY <1>4, <1>5, <1>9, <1>10, <2>1
<1>12. CASE n + 1 = Len(script)
  <2>1. phase' = "run"
    BY <1>5, <1>10, <1>12
  <2>2. queue' = Wanted(script)
    BY <1>8, <1>11, <1>12
  <2>3. queue' \in Seq(ToSet(script)) /\ <<>> \in Seq(ToSet(script))
    BY <1>3, <1>9, <1>11, KeptType
  <2>4. ran' = <<>> /\ ran' \o queue' = queue'
    BY <1>1, <1>2, <2>3, ConcatEmptySeq
  <2>. QED BY <1>1, <1>2, <2>1, <2>2, <2>3, <2>4 DEF ScriptInv, RunsTheScript, script
<1>13. CASE n + 1 # Len(script)
  <2>1. phase' = "chunks" /\ n + 1 \in 0 .. Len(script) - 1
    BY <1>3, <1>5, <1>10, <1>13
  <2>2. chunks' = SubSeq(script, (n + 1) + 1, Len(script))
    BY <1>5, <1>9, <1>10
  <2>3. ReadInv'
    BY <1>7, <1>11, <2>1, <2>2
  <2>. QED BY <1>1, <1>2, <2>1, <2>3 DEF ScriptInv, RunsTheScript, script
<1>. QED BY <1>12, <1>13

\* The statement at the head of the queue is run.
LEMMA RunStatement ==
    ASSUME ScriptInv, BeginStatement \/ Interpret
    PROVE  ScriptInv'
<1>1. /\ phase \in {"run", "parse"} /\ phase' \in {"parse", "interpret", "dead"}
      /\ queue # <<>> /\ UNCHANGED <<disk, chunks, queue, ran>>
  BY DEF BeginStatement, Interpret, ScriptInv
<1>. QED BY <1>1 DEF ScriptInv, RunsTheScript

\* When it has been answered it has been run.
LEMMA AnsweredStatement ==
    ASSUME ScriptInv, Answered
    PROVE  ScriptInv'
<1> DEFINE V == ToSet(disk.script)
<1>1. /\ phase = "interpret" /\ disk \in Disks /\ disk.script # Missing /\ queue # <<>>
      /\ ran \in Seq(V) /\ queue \in Seq(V) /\ ran \o queue = Wanted(disk.script)
  BY DEF Answered, ScriptInv
<1>2. /\ disk' = disk /\ phase' = "run"
      /\ ran' = Append(ran, Head(queue)) /\ queue' = Tail(queue)
  BY DEF Answered
<1>3. ran' \in Seq(V) /\ queue' \in Seq(V) /\ ran' \o queue' = Wanted(disk.script)
  <2>. HIDE DEF V
  <2>1. /\ Append(ran, Head(queue)) \in Seq(V) /\ Tail(queue) \in Seq(V)
        /\ Append(ran, Head(queue)) \o Tail(queue) = ran \o queue
    BY <1>1, MovedHead
  <2>. QED BY <1>1, <1>2, <2>1
<1>4. IsPrefix(ran', ran' \o queue')
  <2>. HIDE DEF V
  <2>. QED BY <1>3, PrefixOfWhole
<1>. QED BY <1>1, <1>2, <1>3, <1>4 DEF ScriptInv, RunsTheScript

LEMMA QuitAtTheEnd ==
    ASSUME ScriptInv, Quit
    PROVE  ScriptInv'
<1>1. /\ phase = "run" /\ queue = <<>> /\ phase' = "exit 0"
      /\ UNCHANGED <<disk, chunks, queue, ran>> /\ ran \in Seq(ToSet(disk.script))
      /\ ran \o queue = Wanted(disk.script)
  BY DEF Quit, ScriptInv
<1>2. ran = Wanted(disk.script)
  BY <1>1, ConcatEmptySeq
<1>. QED BY <1>1, <1>2 DEF ScriptInv, RunsTheScript

LEMMA NextScript == ScriptInv /\ [ProgramNext]_programVars => ScriptInv'
<1> SUFFICES ASSUME ScriptInv, [ProgramNext]_programVars PROVE ScriptInv'
  OBVIOUS
<1>1. CASE ReadHeader \/ ReadLine
  BY <1>1, ImportsComeFirst
<1>2. CASE Compute \/ Parse \/ UNCHANGED programVars
  BY <1>2, SameMain DEF Compute, Parse, programVars
<1>3. CASE OpenScript
  BY <1>3, OpenedScript
<1>4. CASE TakeChunk
  BY <1>4, TakenChunk
<1>5. CASE BeginStatement \/ Interpret
  BY <1>5, RunStatement
<1>6. CASE Answered
  BY <1>6, AnsweredStatement
<1>7. CASE Quit
  BY <1>7, QuitAtTheEnd
<1>. QED BY <1>1, <1>2, <1>3, <1>4, <1>5, <1>6, <1>7 DEF ProgramNext

\* Whatever the files hold and the statements do, fs_read_queries and the loop of
\* main (cli-main.c:119) run the statements of the script in order, each once,
\* none that the script does not have, and a program that exits with 0 has run
\* them all.  A chunk with a tab before its comment or its end is a statement here,
\* as it is to the code.
THEOREM ScriptIsRun == ProgramSpec => []RunsTheScript
<1>1. ScriptInv => RunsTheScript
  BY DEF ScriptInv
<1>. QED BY <1>1, InitScript, NextScript, PTL DEF ProgramSpec
=============================================================================
