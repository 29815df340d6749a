----------------------------- MODULE BazaLexer ------------------------------
(***************************************************************************)
(* The lexer: strlist_from_split_quoted of src/util/str.c, which cuts a    *)
(* statement at white space and a line of a CSV file at commas, but not    *)
(* between quotes.  Two pointers walk the text: `start' is where the       *)
(* current token began, `end' what is read next.  Each turn of a loop is a *)
(* step.  A character is a quote, a delimiter or an ordinary one.          *)
(***************************************************************************)
EXTENDS Integers, Sequences, SequencesExt, FiniteSets, BazaPositions

CONSTANTS
    Ordinary, Delimiter,
    MaxText                   \* bound on the length of a text

Quote == "quote"
Character == Ordinary \cup Delimiter \cup {Quote}

ASSUME LexerAssumption ==
    /\ Quote \notin Ordinary \cup Delimiter
    /\ "NUL" \notin Character
    /\ Ordinary \cap Delimiter = {}
    /\ MaxText \in Nat

VARIABLES
    text,
    start, end,     \* the pointers, as indices
    phase,          \* "token", "quoted" and "gap" are the loops; "done"
    tokens          \* the list

lexerVars == <<text, start, end, phase, tokens>>

\* *end; a C string ends with a NUL.
Next1 == IF end = Len(text) + 1 THEN "NUL" ELSE text[end]

\* Faulty: the quote at the end stays.
TokenKeepsEnd(from, to) ==
    IF text[from] = Quote /\ text[to] = Quote THEN SubSeq(text, from + 1, to)
                                              ELSE SubSeq(text, from, to)

\* Quotes are taken off a token that begins and ends with one, the same one
\* even.
Token(from, to) ==
    IF text[from] = Quote /\ text[to] = Quote THEN SubSeq(text, from + 1, to - 1)
                                              ELSE SubSeq(text, from, to)

\* Faulty: an empty token is pushed between two delimiters.
PushedAlways == Append(tokens, SubSeq(text, start, end - 1))

\* The token that ends before end, if there is one.
Pushed == IF start = end THEN tokens ELSE Append(tokens, Token(start, end - 1))

Step(next) ==
    /\ phase' = next
    /\ end' = end + 1
    /\ UNCHANGED <<text, start, tokens>>

----------------------------------------------------------------------------

\* An ordinary character, or a quote that opens.
ReadCharacter ==
    /\ phase = "token"
    /\ \/ Next1 \in Ordinary /\ Step("token")
       \/ Next1 = Quote /\ Step("quoted")

\* Faulty: the end of the text is not looked for.
ReadQuotedPastEnd == phase = "quoted" /\ Next1 # Quote /\ Step("quoted")

\* while (*end && *end != '"') end++
ReadQuoted == phase = "quoted" /\ Next1 \notin {Quote, "NUL"} /\ Step("quoted")

CloseQuote == phase = "quoted" /\ Next1 = Quote /\ Step("token")

\* A delimiter ends a token.
Cut ==
    /\ phase = "token" /\ Next1 \in Delimiter
    /\ tokens' = Pushed
    /\ phase' = "gap"
    /\ end' = end + 1
    /\ UNCHANGED <<text, start>>

SkipDelimiter == phase = "gap" /\ Next1 \in Delimiter /\ Step("gap")

\* Faulty: the loop does not leave a gap at the end of the text.
BeginTokenInText ==
    /\ phase = "gap" /\ Next1 \in Ordinary \cup {Quote}
    /\ start' = end
    /\ phase' = "token"
    /\ UNCHANGED <<text, end, tokens>>

BeginToken ==
    /\ phase = "gap" /\ Next1 \notin Delimiter
    /\ start' = end
    /\ phase' = "token"
    /\ UNCHANGED <<text, end, tokens>>

\* The text has ended, within quotes or not.
Finish ==
    /\ phase \in {"token", "quoted"} /\ Next1 = "NUL"
    /\ tokens' = Pushed
    /\ phase' = "done"
    /\ UNCHANGED <<text, start, end>>

LexerInit ==
    /\ text \in BoundedSeq(Character, MaxText)
    /\ start = 1 /\ end = 1
    /\ phase = "token"
    /\ tokens = <<>>

LexerNext ==
    \/ ReadCharacter
    \/ ReadQuoted
    \/ CloseQuote
    \/ Cut
    \/ SkipDelimiter
    \/ BeginToken
    \/ Finish

\* The loop runs by itself.
LexerSpec == LexerInit /\ [][LexerNext]_lexerVars /\ WF_lexerVars(LexerNext)

----------------------------------------------------------------------------
(* What a text means: fields between separators.                           *)

\* A delimiter separates unless a quote before it has not been closed.
Separators ==
    {n \in DOMAIN text :
        /\ text[n] \in Delimiter
        /\ Cardinality({m \in 1 .. n : text[m] = Quote}) % 2 = 0}

\* Where the fields begin and end that have something in them.
Begins(n) == n \in DOMAIN text \ Separators /\ (n = 1 \/ n - 1 \in Separators)
EndOf(n) ==
    CHOOSE m \in n .. Len(text) :
        /\ \A k \in n .. m : k \notin Separators
        /\ m = Len(text) \/ m + 1 \in Separators

FieldsAt(begins) ==
    [k \in 1 .. Cardinality(begins) |-> Token(Nth(begins, k), EndOf(Nth(begins, k)))]

Fields == FieldsAt({n \in DOMAIN text : Begins(n)})

\* Up to two texts of up to two characters, and a line that quotes them all.
Unquoted == BoundedSeq(BoundedSeq(Ordinary \cup Delimiter, 2), 2)

Quoted(texts) ==
    LET One(n) == <<Quote>> \o texts[n] \o <<Quote>>
    IN  IF texts = <<>> THEN {<<>>}
        ELSE IF Len(texts) = 1 THEN {One(1)}
        ELSE {One(1) \o <<d>> \o One(2) : d \in Delimiter}

----------------------------------------------------------------------------
(* Properties.                                                             *)

\* Neither pointer passes the NUL, although end moves on after a closing quote
\* (str.c:190) and a delimiter (211) without a look; a token that is pushed
\* begins before it ends.
LexerTypeOK ==
    /\ text \in Seq(Character)
    /\ end \in 1 .. Len(text) + 1
    /\ start \in 1 .. end
    /\ phase \in {"token", "quoted", "gap", "done"}
    /\ tokens \in Seq(Seq(Character))

\* The tokens are the fields of the text, whichever way quotes and delimiters
\* follow each other.  Two delimiters have no field between them: an empty cell
\* of a CSV line is lost unless it is written as a pair of quotes.
TokensAreTheFields == phase = "done" => tokens = Fields

\* Texts without quotes that are all written in quotes are read back, delimiters
\* and empty texts included.
QuotedTextsReadBack ==
    phase = "done" => \A texts \in Unquoted : text \in Quoted(texts) => tokens = texts

\* Every text is cut to its end.
LexerAnswers == <>(phase = "done")

============================================================================
