--------------------------- MODULE BazaLikeProofs ---------------------------
(***************************************************************************)
(* The matcher stays inside every string and pattern, of any length, and   *)
(* answers right for the patterns with a % at most at their end.           *)
(***************************************************************************)
EXTENDS BazaLike, BazaFoldProofs

\* The pointers' strings, and where the loops may stand: the inner loop of a %
\* is entered only with a character of the pattern to look for.
LikeInv ==
    /\ PointersInBounds
    /\ phase = "scan" => P # "NUL"

\* What is not the NUL stands before the end of its string.
LEMMA NotAtEnd ==
    ASSUME NEW s \in Seq(Byte), NEW n \in 1 .. Len(s) + 1, At(s, n) # "NUL"
    PROVE  n \in 1 .. Len(s) /\ n + 1 \in 1 .. Len(s) + 1
  BY DEF At

\* The rest of a turn keeps the pointers in bounds: it moves them only over
\* characters that are not the NUL.
LEMMA TakeOneInBounds ==
    ASSUME LikeInv, NEW jj \in 1 .. Len(pattern) + 1,
           S # "NUL", At(pattern, jj) # "NUL", TakeOne(jj)
    PROVE  LikeInv'
<1>1. i + 1 \in 1 .. Len(str) + 1
  BY NotAtEnd DEF LikeInv, PointersInBounds, S
<1>2. jj + 1 \in 1 .. Len(pattern) + 1
  BY NotAtEnd DEF LikeInv, PointersInBounds
<1>3. CASE MoveTo("outer", i + 1, jj + 1)
  BY <1>1, <1>2, <1>3 DEF MoveTo, LikeInv, PointersInBounds
<1>4. CASE Answer(FALSE)
  BY <1>4 DEF Answer, LikeInv, PointersInBounds
<1> QED
  BY <1>3, <1>4 DEF TakeOne

\* An answer leaves the pointers where they are.
LEMMA AnswerInBounds ==
    ASSUME LikeInv, NEW yes \in BOOLEAN, Answer(yes)
    PROVE  LikeInv'
  BY DEF Answer, LikeInv, PointersInBounds

\* A bounded sequence is a sequence.
LEMMA BoundedText ==
    ASSUME NEW set, NEW n \in Nat, NEW s \in BoundedSeq(set, n)
    PROVE  s \in Seq(set)
  BY DEF BoundedSeq, SeqOf

LEMMA InitInBounds == LikeInit => LikeInv
<1> SUFFICES ASSUME LikeInit PROVE LikeInv
  OBVIOUS
<1>1. str \in Seq(Byte) /\ pattern \in Seq(Byte)
  BY BoundedText, LikeAssumption DEF LikeInit
<1>2. 1 \in 1 .. Len(str) + 1 /\ 1 \in 1 .. Len(pattern) + 1
  BY <1>1
<1>3. i = 1 /\ j = 1 /\ phase = "outer" /\ match \in BOOLEAN
  BY DEF LikeInit
<1> QED
  BY <1>1, <1>2, <1>3 DEF LikeInv, PointersInBounds

LEMMA NextInBounds == LikeInv /\ [LikeNext]_likeVars => LikeInv'
<1> SUFFICES ASSUME LikeInv, [LikeNext]_likeVars PROVE LikeInv'
  OBVIOUS
<1>1. CASE OneCharacter
  BY <1>1, TakeOneInBounds DEF OneCharacter, InLoop, P, LikeInv, PointersInBounds
<1>2. CASE TrailingPercent
  BY <1>2, AnswerInBounds DEF TrailingPercent
<1>3. CASE StartScan
  <2>1. j + 1 \in 1 .. Len(pattern) + 1
    BY <1>3, NotAtEnd DEF StartScan, InLoop, P, LikeInv, PointersInBounds
  <2> QED
    BY <1>3, <2>1 DEF StartScan, MoveTo, P, At, LikeInv, PointersInBounds
<1>4. CASE ScanOn
  <2>1. i + 1 \in 1 .. Len(str) + 1
    BY <1>4, NotAtEnd DEF ScanOn, S, LikeInv, PointersInBounds
  <2> QED
    BY <1>4, <2>1 DEF ScanOn, MoveTo, P, At, LikeInv, PointersInBounds
<1>5. CASE ScanFails
  BY <1>5, AnswerInBounds DEF ScanFails
<1>6. CASE ScanFinds
  BY <1>6, TakeOneInBounds DEF ScanFinds, P, LikeInv, PointersInBounds
<1>7. CASE Finish
  BY <1>7, AnswerInBounds DEF Finish
<1>8. CASE UNCHANGED likeVars
  BY <1>8 DEF likeVars, LikeInv, PointersInBounds, P, At
<1> QED
  BY <1>1, <1>2, <1>3, <1>4, <1>5, <1>6, <1>7, <1>8 DEF LikeNext

\* filter_func_like never reads past the NUL of either text, although a % skips
\* the test for the end of the pattern (interpreter.c:96).
THEOREM MatcherStaysInBounds == LikeSpec => []PointersInBounds
<1>1. LikeInit => LikeInv
  BY InitInBounds
<1>2. LikeInv /\ [LikeNext]_likeVars => LikeInv'
  BY NextInBounds
<1>3. LikeInv => PointersInBounds
  BY DEF LikeInv
<1> QED
  BY <1>1, <1>2, <1>3, PTL DEF LikeSpec

----------------------------------------------------------------------------
(* What a pattern means.                                                   *)

\* A character of a pattern that is no % matches a character.
Fits(c, x) == c \in {"_", x}

\* Where what the pattern from n on matches may begin, given where the rest may.
Row(rest, n) ==
    IF n > Len(pattern) THEN {Len(str) + 1}
    ELSE IF pattern[n] = "%"
         THEN {m \in 1 .. Len(str) + 1 : \E k \in rest : m <= k}
         ELSE {m \in 1 .. Len(str) : Fits(pattern[n], str[m]) /\ m + 1 \in rest}

Rows(f) == [n \in 1 .. Len(pattern) + 1 |-> Row(f[n + 1], n)]

\* One turn, found under another name of the turn before it.
LEMMA TurnOf ==
    ASSUME NEW f, NEW n, NEW X, NEW base, NEW Op, IsTurns(f, n, X, base, Op),
           NEW k \in 1 .. n, NEW l, l = k - 1
    PROVE  f[k] = Op[<<f[l], k>>]
  BY DEF IsTurns

\* The function Matched is defined by exists.
LEMMA RowsExist ==
    ASSUME str \in Seq(Byte), pattern \in Seq(Byte)
    PROVE  \E f : f = Rows(f)
<1> DEFINE L == Len(str)
           N == Len(pattern)
           X == SUBSET (1 .. L + 1)
           Op == [p \in X \X (1 .. N) |-> Row(p[1], N + 1 - p[2])]
<1>1. L \in Nat /\ N \in Nat /\ {L + 1} \in X
  OBVIOUS
<1>2. Op \in [X \X (1 .. N) -> X]
  <2>1. ASSUME NEW rest, NEW n PROVE Row(rest, n) \in X
    <3>1. \A m \in 1 .. L : m \in 1 .. L + 1
      BY <1>1
    <3>. QED BY <1>1, <3>1 DEF Row
  <2>. HIDE DEF X
  <2>. QED BY <2>1
<1>3. PICK g : IsTurns(g, N, X, {L + 1}, Op)
  <2>. HIDE DEF X, Op, N
  <2>. QED BY <1>1, <1>2, TurnsExist
<1> DEFINE f == [n \in 1 .. N + 1 |-> g[N + 1 - n]]
<1>4. ASSUME NEW n \in 1 .. N + 1 PROVE f[n] = Row(f[n + 1], n)
  <2>1. CASE n = N + 1
    <3>1. N + 1 - n = 0 /\ n > N
      BY <1>1, <2>1
    <3>2. f[n] = {L + 1}
      BY <1>3, <3>1 DEF IsTurns
    <3>3. Row(f[n + 1], n) = {L + 1}
      <4>. HIDE DEF f
      <4>. QED BY <3>1 DEF Row
    <3>. QED BY <3>2, <3>3
  <2>2. CASE n # N + 1
    <3>1. /\ N + 1 - n \in 1 .. N /\ N - n = (N + 1 - n) - 1 /\ N - n \in 0 .. N
          /\ n + 1 \in 1 .. N + 1 /\ N + 1 - (n + 1) = N - n /\ N + 1 - (N + 1 - n) = n
      BY <1>1, <2>2
    <3>2. f[n] = g[N + 1 - n] /\ f[n + 1] = g[N - n]
      BY <3>1
    <3>3. g[N + 1 - n] = Op[<<g[N - n], N + 1 - n>>] /\ g[N - n] \in X
      <4>. HIDE DEF X, Op, N
      <4>1. g[N + 1 - n] = Op[<<g[N - n], N + 1 - n>>]
        BY <1>3, <3>1, TurnOf
      <4>2. g[N - n] \in X
        BY <1>3, <3>1 DEF IsTurns
      <4>. QED BY <4>1, <4>2
    <3>4. <<g[N - n], N + 1 - n>> \in X \X (1 .. N)
      BY <3>1, <3>3
    <3>5. Op[<<g[N - n], N + 1 - n>>] = Row(g[N - n], n)
      BY <3>1, <3>4
    <3>. QED BY <3>2, <3>3, <3>5
  <2>. QED BY <2>1, <2>2
<1>5. f = Rows(f)
  <2>1. f = [n \in 1 .. N + 1 |-> f[n]]
    OBVIOUS
  <2>. HIDE DEF f
  <2>. QED BY <1>4, <2>1 DEF Rows
<1>. QED BY <1>5

\* Matched is what its definition says.
LEMMA MatchedIs ==
    ASSUME str \in Seq(Byte), pattern \in Seq(Byte), NEW n \in 1 .. Len(pattern) + 1
    PROVE  Matched[n] = Row(Matched[n + 1], n)
<1>1. Matched = CHOOSE f : f = Rows(f)
  BY Zenon DEF Matched, Rows, Row, Fits
<1>2. Matched = Rows(Matched)
  <2>. HIDE DEF Matched, Rows
  <2>. QED BY <1>1, RowsExist
<1>3. Rows(Matched)[n] = Row(Matched[n + 1], n)
  <2>. HIDE DEF Matched, Row
  <2>. QED BY DEF Rows
<1>. QED BY <1>2, <1>3

----------------------------------------------------------------------------
(* Patterns with a % at most at their end.                                 *)

\* The loop keeps the question: the pattern matches the string if what is left of
\* the one matches what is left of the other. It never looks for a character.
PrefixInv ==
    /\ LikeInv
    /\ PercentOnlyLast =>
          /\ phase # "scan"
          /\ phase = "outer" => (Meaning <=> i \in Matched[j])
    /\ PrefixPatternsAreRight

\* A character of the pattern that is no % matches itself, and _ any.
LEMMA OneMatches ==
    ASSUME PointersInBounds, S # "NUL", P # "NUL", P # "%"
    PROVE  i \in Matched[j] <=> (P = "_" \/ P = S) /\ i + 1 \in Matched[j + 1]
<1>1. /\ i \in 1 .. Len(str) /\ S = str[i]
      /\ j \in 1 .. Len(pattern) /\ P = pattern[j]
  BY NotAtEnd DEF PointersInBounds, S, P, At
<1>2. Matched[j] = Row(Matched[j + 1], j)
  BY <1>1, MatchedIs DEF PointersInBounds
<1>3. ~(j > Len(pattern)) /\ pattern[j] # "%"
  BY <1>1 DEF PointersInBounds
<1>4. Matched[j] = {m \in 1 .. Len(str) : Fits(pattern[j], str[m]) /\ m + 1 \in Matched[j + 1]}
  BY <1>2, <1>3 DEF Row
<1>5. i \in Matched[j] <=> Fits(P, S) /\ i + 1 \in Matched[j + 1]
  BY <1>1, <1>4
<1>. QED BY <1>5, Zenon DEF Fits

\* A % that ends the pattern takes what is left, a pattern that has ended nothing.
LEMMA EndMatches ==
    ASSUME PointersInBounds
    PROVE  /\ P = "NUL" => (i \in Matched[j] <=> S = "NUL")
           /\ P = "%" /\ j = Len(pattern) => i \in Matched[j]
           /\ S = "NUL" /\ P \notin {"NUL", "%"} => i \notin Matched[j]
<1>1. /\ str \in Seq(Byte) /\ pattern \in Seq(Byte)
      /\ i \in 1 .. Len(str) + 1 /\ j \in 1 .. Len(pattern) + 1
      /\ Len(str) \in Nat /\ Len(pattern) \in Nat
  BY DEF PointersInBounds
<1>2. \A b \in Byte : b # "NUL"
  BY LikeAssumption DEF Byte
<1>3. /\ P = "NUL" <=> j = Len(pattern) + 1
      /\ P # "NUL" => P = pattern[j]
      /\ S = "NUL" <=> i = Len(str) + 1
  BY <1>1, <1>2 DEF P, S, At
<1>4. Matched[j] = Row(Matched[j + 1], j)
  BY <1>1, MatchedIs
<1>5. Matched[Len(pattern) + 1] = {Len(str) + 1}
  <2>1. Len(pattern) + 1 \in 1 .. Len(pattern) + 1 /\ Len(pattern) + 1 > Len(pattern)
    BY <1>1
  <2>. QED BY <1>1, <2>1, MatchedIs DEF Row
<1>6. ASSUME P = "%", j = Len(pattern) PROVE i \in Matched[j]
  <2>1. Matched[j] = {m \in 1 .. Len(str) + 1 : \E k \in Matched[j + 1] : m <= k}
    BY <1>1, <1>3, <1>4, <1>6 DEF Row
  <2>2. Len(str) + 1 \in Matched[j + 1] /\ i <= Len(str) + 1
    BY <1>1, <1>5, <1>6
  <2>. QED BY <1>1, <2>1, <2>2
<1>7. ASSUME S = "NUL", P \notin {"NUL", "%"} PROVE i \notin Matched[j]
  <2>1. Matched[j] \subseteq 1 .. Len(str)
    BY <1>1, <1>3, <1>4, <1>7 DEF Row
  <2>. QED BY <1>1, <1>3, <1>7, <2>1
<1>8. P = "NUL" => (i \in Matched[j] <=> S = "NUL")
  BY <1>1, <1>3, <1>5
<1>. QED BY <1>6, <1>7, <1>8

----------------------------------------------------------------------------
(* The steps.                                                              *)

\* What the invariant asks of a pattern with a % at most at its end.
Asked ==
    /\ phase # "scan"
    /\ phase = "outer" => (Meaning <=> i \in Matched[j])
    /\ phase = "done" /\ Ascii(str) /\ Ascii(pattern) => match = Meaning

LEMMA PrefixInvIs == PrefixInv <=> LikeInv /\ (PercentOnlyLast => Asked)
  BY DEF PrefixInv, PrefixPatternsAreRight, Asked

\* Matched as a function of the two texts.
MatchedIn(text, wanted) ==
    CHOOSE f : f = [n \in 1 .. Len(wanted) + 1 |->
        IF n > Len(wanted) THEN {Len(text) + 1}
        ELSE IF wanted[n] = "%"
             THEN {m \in 1 .. Len(text) + 1 : \E k \in f[n + 1] : m <= k}
             ELSE {m \in 1 .. Len(text) : wanted[n] \in {"_", text[m]} /\ m + 1 \in f[n + 1]}]

\* No step changes the two texts, nor what is asked of them.
LEMMA SameQuestion ==
    ASSUME [LikeNext]_likeVars
    PROVE  /\ str' = str /\ pattern' = pattern
           /\ Meaning' = Meaning /\ Matched' = Matched /\ PercentOnlyLast' = PercentOnlyLast
<1>1. str' = str /\ pattern' = pattern
  BY Zenon DEF LikeNext, OneCharacter, TrailingPercent, StartScan, ScanOn, ScanFails, ScanFinds,
     Finish, TakeOne, Answer, MoveTo, likeVars
<1>2. Matched' = Matched
  <2>1. Matched = MatchedIn(str, pattern)
    BY Zenon DEF Matched, MatchedIn
  <2>2. Matched' = MatchedIn(str', pattern')
    BY Zenon DEF Matched, MatchedIn
  <2>. QED BY <1>1, <2>1, <2>2, Zenon
<1>3. Meaning' = Meaning
  BY <1>2, Zenon DEF Meaning
<1>4. PercentOnlyLast' = PercentOnlyLast
  BY <1>1, Zenon DEF PercentOnlyLast, Percents
<1>. QED BY <1>1, <1>2, <1>3, <1>4

\* A % of such a pattern is its last character.
LEMMA PercentIsLast ==
    ASSUME PointersInBounds, PercentOnlyLast, P = "%"
    PROVE  j = Len(pattern) /\ At(pattern, j + 1) = "NUL"
<1>1. /\ pattern \in Seq(Byte) /\ Len(pattern) \in Nat
      /\ j \in 1 .. Len(pattern) + 1
  BY DEF PointersInBounds
<1>2. j # Len(pattern) + 1 /\ P = pattern[j]
  BY DEF P, At
<1>3. j \in Percents
  BY <1>1, <1>2 DEF Percents
<1>. QED BY <1>1, <1>3 DEF PercentOnlyLast, At

LEMMA InitPrefixInv == LikeInit => PrefixInv
<1> SUFFICES ASSUME LikeInit PROVE PrefixInv
  OBVIOUS
<1>1. LikeInv
  BY InitInBounds
<1>2. i = 1 /\ j = 1 /\ phase = "outer"
  BY DEF LikeInit
<1>3. Meaning <=> i \in Matched[j]
  BY <1>2, Zenon DEF Meaning
<1>. QED BY <1>1, <1>2, <1>3, PrefixInvIs DEF Asked

\* A turn that takes a character leaves the question what it was, and one that
\* does not has its answer.
LEMMA OneCharacterAsks ==
    ASSUME PrefixInv, OneCharacter, PercentOnlyLast, Meaning' = Meaning, Matched' = Matched
    PROVE  Asked'
<1>1. PointersInBounds /\ S # "NUL" /\ P # "NUL" /\ P # "%" /\ phase = "outer"
  BY DEF PrefixInv, LikeInv, OneCharacter, InLoop
<1> DEFINE taken == P = "_" \/ P = S
           rest == i + 1 \in Matched[j + 1]
<1>2. Meaning <=> taken /\ rest
  BY <1>1, OneMatches DEF PrefixInv
<1>3. CASE taken
  <2>1. phase' = "outer" /\ i' = i + 1 /\ j' = j + 1
    BY <1>3, Zenon DEF OneCharacter, TakeOne, MoveTo, P
  <2>. QED BY <1>2, <1>3, <2>1 DEF Asked
<1>4. CASE ~taken
  <2>1. phase' = "done" /\ match' = FALSE
    BY <1>4, Zenon DEF OneCharacter, TakeOne, Answer, P
  <2>. QED BY <1>2, <1>4, <2>1 DEF Asked
<1>. QED BY <1>3, <1>4

\* The % at the end takes what is left.
LEMMA TrailingPercentAsks ==
    ASSUME PrefixInv, TrailingPercent, PercentOnlyLast, Meaning' = Meaning
    PROVE  Asked'
<1>1. PointersInBounds /\ P = "%" /\ phase = "outer" /\ phase' = "done" /\ match' = TRUE
  BY DEF PrefixInv, LikeInv, TrailingPercent, InLoop, Answer
<1>2. i \in Matched[j]
  BY <1>1, PercentIsLast, EndMatches
<1>3. Meaning
  BY <1>1, <1>2 DEF PrefixInv
<1>. QED BY <1>1, <1>3 DEF Asked

\* A byte of an ASCII text that is not its NUL adds to the sum.
LEMMA AsciiIsPositive ==
    ASSUME NEW s \in Seq(Byte), Ascii(s), NEW n \in 1 .. Len(s) + 1
    PROVE  Positive(At(s, n)) <=> At(s, n) # "NUL"
<1>1. n # Len(s) + 1 => n \in DOMAIN s
  OBVIOUS
<1>. QED BY <1>1 DEF Positive, At, Ascii

\* When a text has ended, the loop answers yes if both have, or a % is left over.
LEMMA FinishAsks ==
    ASSUME PrefixInv, Finish, PercentOnlyLast,
           str' = str, pattern' = pattern, Meaning' = Meaning
    PROVE  Asked'
<1>1. /\ PointersInBounds /\ phase = "outer" /\ phase' = "done"
      /\ S = "NUL" \/ P = "NUL"
      /\ match' = ~((Positive(S) \/ Positive(P)) /\ P # "%")
  BY DEF PrefixInv, LikeInv, Finish, Answer
<1>2. SUFFICES ASSUME Ascii(str), Ascii(pattern) PROVE match' = Meaning
  BY <1>1 DEF Asked, Ascii
<1>3. (Positive(S) <=> S # "NUL") /\ (Positive(P) <=> P # "NUL")
  BY <1>1, <1>2, AsciiIsPositive DEF PointersInBounds, S, P
<1>4. match' = (P = "%" \/ (S = "NUL" /\ P = "NUL"))
  BY <1>1, <1>3, Zenon
<1>5. Meaning <=> i \in Matched[j]
  BY <1>1, PercentIsLast DEF PrefixInv
<1>6. P = "%" => i \in Matched[j]
  BY <1>1, PercentIsLast, EndMatches
<1>7. P = "NUL" => (i \in Matched[j] <=> S = "NUL")
  BY <1>1, EndMatches
<1>8. P \notin {"%", "NUL"} => i \notin Matched[j]
  BY <1>1, EndMatches
<1>9. (P = "%" \/ (S = "NUL" /\ P = "NUL")) <=> i \in Matched[j]
  BY <1>1, <1>6, <1>7, <1>8
<1>10. Meaning \in BOOLEAN
  BY DEF Meaning
<1>. QED BY <1>4, <1>5, <1>9, <1>10

LEMMA NextPrefixInv == PrefixInv /\ [LikeNext]_likeVars => PrefixInv'
<1> SUFFICES ASSUME PrefixInv, [LikeNext]_likeVars PROVE PrefixInv'
  OBVIOUS
<1>1. LikeInv'
  BY NextInBounds DEF PrefixInv
<1>2. /\ str' = str /\ pattern' = pattern
      /\ Meaning' = Meaning /\ Matched' = Matched /\ PercentOnlyLast' = PercentOnlyLast
  BY SameQuestion
<1>3. ASSUME PercentOnlyLast PROVE Asked'
  <2>0. Asked /\ PointersInBounds
    BY <1>3, PrefixInvIs DEF LikeInv
  <2>1. CASE OneCharacter
    BY <1>2, <1>3, <2>1, OneCharacterAsks
  <2>2. CASE TrailingPercent
    BY <1>2, <1>3, <2>2, TrailingPercentAsks
  <2>3. CASE StartScan
    BY <1>3, <2>0, <2>3, PercentIsLast DEF StartScan, InLoop
  <2>4. CASE ScanOn \/ ScanFails \/ ScanFinds
    BY <2>0, <2>4 DEF Asked, ScanOn, ScanFails, ScanFinds
  <2>5. CASE Finish
    BY <1>2, <1>3, <2>5, FinishAsks
  <2>6. CASE UNCHANGED likeVars
    BY <1>2, <2>0, <2>6 DEF Asked, likeVars, Ascii
  <2>. QED BY <2>1, <2>2, <2>3, <2>4, <2>5, <2>6 DEF LikeNext
<1>. QED BY <1>1, <1>2, <1>3 DEF PrefixInv, PrefixPatternsAreRight, Asked

\* filter_func_like answers right, in ASCII, for the patterns of queries.sql: those
\* with a % only at their end. The loop steps one character at a time, and what
\* is left after it has ended is a % or tells the texts apart
\* (interpreter.c:96-128).
THEOREM PrefixesAreRight == LikeSpec => []PrefixPatternsAreRight
<1>1. PrefixInv => PrefixPatternsAreRight
  BY DEF PrefixInv
<1>. QED BY <1>1, InitPrefixInv, NextPrefixInv, PTL DEF LikeSpec

============================================================================
