----------------------------- MODULE BazaLike ------------------------------
(***************************************************************************)
(* The matcher behind LIKE: filter_func_like of src/interpreter.c, for     *)
(* strings.  Two pointers walk the string and the pattern; each turn of    *)
(* the outer loop is a step, and so is each turn of the inner loop that    *)
(* looks for the character after a %.                                      *)
(*                                                                         *)
(* A character is a byte of the string, known by its sign: char is signed  *)
(* here, and the bytes of a character outside ASCII are negative.          *)
(***************************************************************************)
EXTENDS Integers, Sequences, SequencesExt, FiniteSets

CONSTANTS
    Letter,       \* ASCII characters with no meaning of their own
    HighByte,     \* bytes of characters outside ASCII
    MaxString, MaxPattern   \* bounds on the lengths

ASSUME LikeAssumption ==
    /\ Letter \cap HighByte = {}
    /\ {"%", "_", "NUL"} \cap (Letter \cup HighByte) = {}
    /\ MaxString \in Nat /\ MaxPattern \in Nat

VARIABLES
    str, pattern,   \* left and right
    i, j,           \* the pointers into them, as indices
    phase,          \* "outer", "scan" in the inner loop, or "done"
    match           \* the answer, once phase is "done"

likeVars == <<str, pattern, i, j, phase, match>>

Byte == Letter \cup HighByte \cup {"%", "_"}

\* A C string ends with a NUL.
At(s, n) == IF n = Len(s) + 1 THEN "NUL" ELSE s[n]

S == At(str, i)
P == At(pattern, j)

Answer(yes) ==
    /\ phase' = "done"
    /\ match' = yes
    /\ UNCHANGED <<str, pattern, i, j>>

MoveTo(next, newI, newJ) ==
    /\ phase' = next
    /\ i' = newI
    /\ j' = newJ
    /\ UNCHANGED <<str, pattern, match>>

----------------------------------------------------------------------------

\* The rest of a turn, after a % has been dealt with: _ takes any character,
\* another character takes itself.
TakeOne(jj) ==
    IF At(pattern, jj) = "_" \/ At(pattern, jj) = S
    THEN MoveTo("outer", i + 1, jj + 1)
    ELSE Answer(FALSE)

InLoop == phase = "outer" /\ S # "NUL" /\ P # "NUL"

OneCharacter == InLoop /\ P # "%" /\ TakeOne(j)

\* A % that ends the pattern takes the rest of the string.
TrailingPercent ==
    InLoop /\ P = "%" /\ At(pattern, j + 1) = "NUL" /\ Answer(TRUE)

StartScan ==
    /\ InLoop /\ P = "%" /\ At(pattern, j + 1) # "NUL"
    /\ MoveTo("scan", i, j + 1)

\* Faulty: the end of the string is not looked for.
ScanOnPastEnd == phase = "scan" /\ S # P /\ MoveTo("scan", i + 1, j)

\* Faulty: the pointer does not move.
ScanOnStays == phase = "scan" /\ S # "NUL" /\ S # P /\ MoveTo("scan", i, j)

\* while (*str && *str != *pattern) str++
ScanOn ==
    /\ phase = "scan" /\ S # "NUL" /\ S # P
    /\ MoveTo("scan", i + 1, j)

ScanFails == phase = "scan" /\ S = "NUL" /\ Answer(FALSE)

ScanFinds == phase = "scan" /\ S # "NUL" /\ S = P /\ TakeOne(j)

\* One of the two has ended, so the sum is the other's next byte.
Positive(b) == b \notin HighByte \cup {"NUL"}

\* Faulty: a % left over is not forgiven.
FinishStrictly ==
    /\ phase = "outer" /\ (S = "NUL" \/ P = "NUL")
    /\ Answer(~(Positive(S) \/ Positive(P)))

Finish ==
    /\ phase = "outer" /\ (S = "NUL" \/ P = "NUL")
    /\ Answer(~((Positive(S) \/ Positive(P)) /\ P # "%"))

LikeInit ==
    /\ str \in BoundedSeq(Byte, MaxString)
    /\ pattern \in BoundedSeq(Byte, MaxPattern)
    /\ i = 1 /\ j = 1
    /\ phase = "outer"
    /\ match = FALSE

LikeNext ==
    \/ OneCharacter
    \/ TrailingPercent
    \/ StartScan
    \/ ScanOn
    \/ ScanFails
    \/ ScanFinds
    \/ Finish

\* The loop runs by itself.
LikeSpec == LikeInit /\ [][LikeNext]_likeVars /\ WF_likeVars(LikeNext)

----------------------------------------------------------------------------
(* What a pattern means: % any characters, _ one, another itself.          *)

\* Where in the string what the pattern from position n on matches may begin.
Matched[n \in 1 .. Len(pattern) + 1] ==
    IF n > Len(pattern) THEN {Len(str) + 1}
    ELSE IF pattern[n] = "%"
         THEN {m \in 1 .. Len(str) + 1 : \E k \in Matched[n + 1] : m <= k}
         ELSE {m \in 1 .. Len(str) : pattern[n] \in {"_", str[m]} /\ m + 1 \in Matched[n + 1]}

Meaning == 1 \in Matched[1]

Ascii(s) == \A n \in DOMAIN s : s[n] \notin HighByte

Percents == {n \in DOMAIN pattern : pattern[n] = "%"}
PercentOnlyLast == Percents \subseteq {Len(pattern)}

----------------------------------------------------------------------------
(* Properties.                                                             *)

\* The pointers never pass the NUL that ends their string, whatever the pattern
\* jumps over.
PointersInBounds ==
    /\ str \in Seq(Byte) /\ pattern \in Seq(Byte)
    /\ i \in 1 .. Len(str) + 1
    /\ j \in 1 .. Len(pattern) + 1
    /\ phase \in {"outer", "scan", "done"}
    /\ match \in BOOLEAN

\* In ASCII, a pattern of characters and _ with a % at its end if it has one,
\* which is all queries.sql uses, is answered as it should be.
PrefixPatternsAreRight ==
    phase = "done" /\ Ascii(str) /\ Ascii(pattern) /\ PercentOnlyLast
        => match = Meaning

\* The matcher answers for every string and pattern.
MatcherAnswers == <>(phase = "done")

\* "%: zero or more characters" (interpreter.c:94): whatever characters the one %
\* of a pattern has to take for the string to match, it takes them.
PercentTakesAnyCharacters ==
    /\ phase = "done"
    /\ Ascii(str) /\ Ascii(pattern) /\ ~Contains(pattern, "_")
    /\ Cardinality(Percents) = 1
    /\ Meaning
    => match

============================================================================
