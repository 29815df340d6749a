-------------------------- MODULE BazaLexerProofs ---------------------------
(***************************************************************************)
(* The lexer stays inside every text, of any length, over any characters,  *)
(* and the tokens it makes of it are its fields.                           *)
(***************************************************************************)
EXTENDS BazaLexer, BazaFoldProofs

\* A slice of a text between two pointers into it, which may be empty.
LEMMA SliceIsText ==
    ASSUME NEW s \in Seq(Character), NEW m \in 1 .. Len(s) + 1, NEW n \in 0 .. Len(s)
    PROVE  SubSeq(s, m, n) \in Seq(Character)
  OBVIOUS

\* A list of tokens with one more.
LEMMA AppendedToken ==
    ASSUME NEW list \in Seq(Seq(Character)), NEW token \in Seq(Character)
    PROVE  Append(list, token) \in Seq(Seq(Character))
  OBVIOUS

\* What is not the NUL stands before the end of the text.
LEMMA NextCharacter ==
    ASSUME LexerTypeOK, Next1 # "NUL"
    PROVE  end + 1 \in 1 .. Len(text) + 1 /\ start \in 1 .. end + 1
<1>1. end # Len(text) + 1
  BY DEF Next1
<1> QED
  BY <1>1 DEF LexerTypeOK

\* The tokens, with the one that ends before end if there is one, are texts.
LEMMA PushedTokens ==
    ASSUME LexerTypeOK
    PROVE  Pushed \in Seq(Seq(Character))
<1>1. CASE start = end
  BY <1>1 DEF LexerTypeOK, Pushed
<1>2. CASE start # end
  <2>1. /\ start \in 1 .. Len(text) /\ end - 1 \in 1 .. Len(text)
        /\ text \in Seq(Character)
    BY <1>2 DEF LexerTypeOK
  <2>2. SubSeq(text, start, end - 1) \in Seq(Character)
    BY <2>1, SliceIsText
  <2>3. SubSeq(text, start + 1, end - 1 - 1) \in Seq(Character)
    BY <2>1, SliceIsText
  <2>4. Token(start, end - 1) \in Seq(Character)
    BY <2>2, <2>3 DEF Token
  <2> QED
    BY <1>2, <2>4, AppendedToken DEF LexerTypeOK, Pushed
<1> QED
  BY <1>1, <1>2

\* A step over one character that is not the NUL.
LEMMA StepTypeOK ==
    ASSUME LexerTypeOK, Next1 # "NUL",
           NEW next \in {"token", "quoted", "gap", "done"}, Step(next)
    PROVE  LexerTypeOK'
  BY NextCharacter DEF LexerTypeOK, Step

LEMMA InitTypeOK == LexerInit => LexerTypeOK
<1> SUFFICES ASSUME LexerInit PROVE LexerTypeOK
  OBVIOUS
<1>1. text \in Seq(Character)
  BY LexerAssumption DEF LexerInit, BoundedSeq, SeqOf
<1> QED
  BY <1>1 DEF LexerInit, LexerTypeOK

LEMMA NextTypeOK == LexerTypeOK /\ [LexerNext]_lexerVars => LexerTypeOK'
<1> SUFFICES ASSUME LexerTypeOK, [LexerNext]_lexerVars PROVE LexerTypeOK'
  OBVIOUS
<1>c. \A d \in Ordinary \cup Delimiter \cup {Quote} : d # "NUL"
  BY LexerAssumption DEF Character
<1>1. CASE ReadCharacter
  <2>1. Next1 # "NUL"
    BY <1>1, <1>c DEF ReadCharacter
  <2> QED
    BY <1>1, <2>1, StepTypeOK DEF ReadCharacter
<1>2. CASE ReadQuoted
  BY <1>2, StepTypeOK DEF ReadQuoted
<1>3. CASE CloseQuote
  BY <1>3, <1>c, StepTypeOK DEF CloseQuote
<1>4. CASE Cut
  <2>1. Next1 # "NUL"
    BY <1>4, <1>c DEF Cut
  <2> QED
    BY <1>4, <2>1, NextCharacter, PushedTokens DEF Cut, LexerTypeOK
<1>5. CASE SkipDelimiter
  BY <1>5, <1>c, StepTypeOK DEF SkipDelimiter
<1>6. CASE BeginToken
  BY <1>6 DEF BeginToken, LexerTypeOK
<1>7. CASE Finish
  BY <1>7, PushedTokens DEF Finish, LexerTypeOK
<1>8. CASE UNCHANGED lexerVars
  BY <1>8 DEF lexerVars, LexerTypeOK
<1> QED
  BY <1>1, <1>2, <1>3, <1>4, <1>5, <1>6, <1>7, <1>8 DEF LexerNext

\* Neither pointer of strlist_from_split_quoted leaves its text, whatever quotes
\* and delimiters it is made of, and only texts get into the list.
THEOREM LexerStaysInText == LexerSpec => []LexerTypeOK
<1>1. LexerInit => LexerTypeOK
  BY InitTypeOK
<1>2. LexerTypeOK /\ [LexerNext]_lexerVars => LexerTypeOK'
  BY NextTypeOK
<1> QED
  BY <1>1, <1>2, PTL DEF LexerSpec

----------------------------------------------------------------------------
(* Quotes and separators.                                                  *)

\* How many quotes the first n characters hold; whether the last is open.
Quotes(n) == Cardinality({m \in 1 .. n : text[m] = Quote})
IsOpen(n) == Quotes(n) % 2 = 1

\* A quote turns it, and nothing else does.
LEMMA QuotesCount ==
    ASSUME LexerTypeOK, NEW n \in 1 .. Len(text)
    PROVE  IsOpen(n) <=> (IsOpen(n - 1) <=> text[n] # Quote)
<1> DEFINE before == {m \in 1 .. (n - 1) : text[m] = Quote}
           upto == {m \in 1 .. n : text[m] = Quote}
<1>1. n \in Nat /\ n - 1 \in Nat
  BY DEF LexerTypeOK
<1>2. IsFiniteSet(before) /\ Cardinality(before) \in Nat /\ n \notin before
  <2>1. before \in SUBSET (1 .. (n - 1)) /\ n \notin before
    BY <1>1
  <2>. HIDE DEF before
  <2>. QED BY <1>1, <2>1, FinitePositions
<1>3. CASE text[n] = Quote
  <2>1. upto = before \cup {n}
    BY <1>1, <1>3
  <2>2. Cardinality(upto) = Cardinality(before) + 1
    <3>. HIDE DEF before, upto
    <3>. QED BY <1>2, <2>1, FS_AddElement
  <2>. HIDE DEF before, upto
  <2>3. \A c \in Nat : (c + 1) % 2 = 1 <=> c % 2 # 1
    OBVIOUS
  <2>4. Cardinality(upto) % 2 = 1 <=> Cardinality(before) % 2 # 1
    BY <1>2, <2>2, <2>3
  <2>. QED BY <1>3, <2>4 DEF IsOpen, Quotes, before, upto
<1>4. CASE text[n] # Quote
  <2>1. upto = before
    BY <1>1, <1>4
  <2>. QED BY <1>4, <2>1 DEF IsOpen, Quotes
<1>. QED BY <1>3, <1>4

LEMMA NoQuotesYet == ~IsOpen(0)
<1>1. {m \in 1 .. 0 : text[m] = Quote} = {}
  OBVIOUS
<1>. QED BY <1>1, FS_EmptySet DEF IsOpen, Quotes

\* A delimiter separates if no quote is open before it.
LEMMA SeparatorsAre ==
    ASSUME LexerTypeOK, NEW n \in 1 .. Len(text)
    PROVE  n \in Separators <=> text[n] \in Delimiter /\ ~IsOpen(n - 1)
<1>1. Quotes(n) \in Nat
  <2>1. n \in Nat
    BY DEF LexerTypeOK
  <2>. QED BY <2>1, FinitePositions DEF Quotes
<1>2. Quotes(n) % 2 = 0 <=> ~IsOpen(n)
  BY <1>1 DEF IsOpen
<1>3. text[n] \in Delimiter => text[n] # Quote
  BY LexerAssumption
<1>4. n \in DOMAIN text
  BY DEF LexerTypeOK
<1>5. n \in Separators <=> text[n] \in Delimiter /\ ~IsOpen(n)
  BY <1>2, <1>4 DEF Separators, Quotes
<1>. QED BY <1>3, <1>5, QuotesCount

----------------------------------------------------------------------------
(* Fields.                                                                 *)

\* Where the fields begin that begin before n.
BeginsBefore(n) == {m \in DOMAIN text : Begins(m) /\ m < n}

LEMMA AllFields ==
    ASSUME LexerTypeOK
    PROVE  Fields = FieldsAt(BeginsBefore(Len(text) + 1))
<1>1. {n \in DOMAIN text : Begins(n)} = BeginsBefore(Len(text) + 1)
  BY DEF LexerTypeOK, BeginsBefore
<1>. QED BY <1>1 DEF Fields

\* A stretch of text from after a separator, up to another or to the end.
IsStretch(from, to) ==
    /\ from \in 1 .. to
    /\ to \in 1 .. Len(text) + 1
    /\ from = 1 \/ from - 1 \in Separators
    /\ \A k \in from .. to - 1 : k \notin Separators
    /\ to = Len(text) + 1 \/ to \in Separators

\* Where there is nothing no field begins.
LEMMA EmptyStretch ==
    ASSUME LexerTypeOK, NEW n \in 1 .. Len(text) + 1, n = Len(text) + 1 \/ n \in Separators
    PROVE  BeginsBefore(n + 1) = BeginsBefore(n)
<1>1. ~(n \in DOMAIN text /\ Begins(n))
  BY DEF LexerTypeOK, Begins
<1>2. ASSUME NEW m \in DOMAIN text, Begins(m) PROVE m < n + 1 <=> m < n
  BY <1>1, <1>2 DEF LexerTypeOK
<1>. QED BY <1>2 DEF BeginsBefore

\* One that holds something is the next field.
LEMMA FieldOfStretch ==
    ASSUME LexerTypeOK, NEW from, NEW to, IsStretch(from, to), from < to
    PROVE  FieldsAt(BeginsBefore(to + 1))
           = Append(FieldsAt(BeginsBefore(from)), Token(from, to - 1))
<1>1. /\ Len(text) \in Nat /\ DOMAIN text = 1 .. Len(text)
      /\ from \in 1 .. Len(text) /\ to \in 2 .. Len(text) + 1
  BY DEF LexerTypeOK, IsStretch
<1>2. EndOf(from) = to - 1
  <2> DEFINE Is(m) == /\ \A k \in from .. m : k \notin Separators
                      /\ m = Len(text) \/ m + 1 \in Separators
  <2>1. to - 1 \in from .. Len(text) /\ Is(to - 1)
    BY <1>1 DEF IsStretch
  <2>2. ASSUME NEW m \in from .. Len(text), Is(m) PROVE m = to - 1
    <3>1. CASE m < to - 1
      <4>1. m + 1 \in from .. to - 1 /\ m # Len(text)
        <5>1. /\ m \in Int /\ from \in Int /\ to \in Int /\ Len(text) \in Int
              /\ from <= m /\ to <= Len(text) + 1
          BY <1>1
        <5>. QED BY <3>1, <5>1
      <4>. QED BY <2>2, <4>1 DEF IsStretch
    <3>2. CASE m > to - 1
      <4>1. to \in from .. m /\ to # Len(text) + 1
        BY <1>1, <3>2
      <4>. QED BY <2>2, <4>1 DEF IsStretch
    <3>. QED BY <1>1, <3>1, <3>2
  <2>. HIDE DEF Is
  <2>3. (CHOOSE m \in from .. Len(text) : Is(m)) = to - 1
    BY <2>1, <2>2
  <2>. QED BY <2>3 DEF EndOf, Is
<1>3. Begins(from)
  <2>1. from \in from .. to - 1
    BY <1>1
  <2>. QED BY <1>1, <2>1 DEF Begins, IsStretch
<1>4. BeginsBefore(to + 1) = BeginsBefore(from) \cup {from}
  <2>1. ASSUME NEW m \in DOMAIN text, Begins(m), m < to + 1 PROVE m = from \/ m < from
    <3>1. CASE m \in from + 1 .. to - 1
      <4>1. m - 1 \in from .. to - 1 /\ m # 1
        BY <1>1, <3>1
      <4>. QED BY <2>1, <4>1 DEF Begins, IsStretch
    <3>2. CASE m = to
      BY <1>1, <2>1, <3>2 DEF Begins, IsStretch
    <3>. QED BY <1>1, <2>1, <3>1, <3>2
  <2>. QED BY <1>1, <1>3, <2>1 DEF BeginsBefore
<1> DEFINE old == BeginsBefore(from)
           n == Cardinality(old)
<1>5. /\ old \in SUBSET Int /\ IsFiniteSet(old) /\ \A m \in old : m < from
      /\ from \in Int
  <2>1. old \in SUBSET (1 .. Len(text)) /\ \A m \in old : m < from
    BY <1>1 DEF BeginsBefore
  <2>. QED BY <1>1, <2>1, FinitePositions
<1>6. /\ n \in Nat
      /\ Cardinality(old \cup {from}) = n + 1
      /\ Nth(old \cup {from}, n + 1) = from
      /\ \A k \in 1 .. n : Nth(old \cup {from}, k) = Nth(old, k)
  <2>. HIDE DEF old
  <2>. QED BY <1>5, NthOfMore
<1> HIDE DEF old
<1> DEFINE new == FieldsAt(old \cup {from})
           fields == FieldsAt(old)
<1>7. /\ DOMAIN new = 1 .. n + 1
      /\ new[n + 1] = Token(from, to - 1)
      /\ \A k \in 1 .. n : new[k] = Token(Nth(old, k), EndOf(Nth(old, k)))
  <2>1. \A k \in 1 .. n + 1 :
           new[k] = Token(Nth(old \cup {from}, k), EndOf(Nth(old \cup {from}, k)))
    BY <1>6 DEF FieldsAt
  <2>2. n + 1 \in 1 .. n + 1 /\ \A k \in 1 .. n : k \in 1 .. n + 1
    BY <1>6
  <2>. QED BY <1>2, <1>6, <2>1, <2>2 DEF FieldsAt
<1>8. /\ fields = [k \in 1 .. n |-> Token(Nth(old, k), EndOf(Nth(old, k)))]
      /\ Len(fields) = n
  BY <1>6 DEF FieldsAt
<1>9. new = Append(fields, Token(from, to - 1))
  <2> DEFINE more == Append(fields, Token(from, to - 1))
  <2>1. new = [k \in 1 .. n + 1 |-> new[k]]
    BY <1>7 DEF FieldsAt
  <2>2. more = [k \in 1 .. n + 1 |-> IF k = n + 1 THEN Token(from, to - 1) ELSE fields[k]]
    BY <1>6, <1>8
  <2>3. \A k \in 1 .. n : fields[k] = Token(Nth(old, k), EndOf(Nth(old, k)))
    BY <1>8
  <2>4. \A k \in 1 .. n + 1 : new[k] = IF k = n + 1 THEN Token(from, to - 1) ELSE fields[k]
    <3>. HIDE DEF new, fields
    <3>. QED BY <1>6, <1>7, <2>3
  <2>5. [k \in 1 .. n + 1 |-> new[k]]
        = [k \in 1 .. n + 1 |-> IF k = n + 1 THEN Token(from, to - 1) ELSE fields[k]]
    <3>. HIDE DEF new, fields, n
    <3>. QED BY <2>4, Zenon
  <2>. HIDE DEF new, fields, more, n
  <2>6. new = more
    BY <2>1, <2>2, <2>5
  <2>. QED BY <2>6 DEF more
<1>. QED BY <1>4, <1>9 DEF old

----------------------------------------------------------------------------
(* The loops.                                                              *)

\* Within quotes a quote is open, elsewhere none is; the tokens are the fields
\* that end before the token being read.
LexerInv ==
    /\ LexerTypeOK
    /\ phase # "done" => (phase = "quoted" <=> IsOpen(end - 1))
    /\ phase \in {"token", "quoted"} =>
          /\ start = 1 \/ start - 1 \in Separators
          /\ \A k \in start .. end - 1 : k \notin Separators
          /\ tokens = FieldsAt(BeginsBefore(start))
    /\ phase = "gap" =>
          /\ end - 1 \in Separators
          /\ tokens = FieldsAt(BeginsBefore(end))
    /\ phase = "done" => tokens = Fields

\* What speaks of the text only stays as it is.
LEMMA SameText ==
    ASSUME UNCHANGED text
    PROVE  /\ Separators' = Separators
           /\ Fields' = Fields
           /\ \A n : IsOpen(n)' = IsOpen(n)
           /\ \A n : FieldsAt(BeginsBefore(n))' = FieldsAt(BeginsBefore(n))
<1>1. Separators' = Separators
  BY DEF Separators
<1>2. \A n : Begins(n)' = Begins(n)
  BY <1>1 DEF Begins
<1>3. \A n : EndOf(n)' = EndOf(n)
  BY <1>1 DEF EndOf
<1>4. \A m, n : Token(m, n)' = Token(m, n)
  BY DEF Token
<1>5. \A b : FieldsAt(b)' = FieldsAt(b)
  BY <1>3, <1>4 DEF FieldsAt
<1>6. \A n : BeginsBefore(n)' = BeginsBefore(n)
  BY <1>2 DEF BeginsBefore
<1>7. {n \in DOMAIN text : Begins(n)}' = {n \in DOMAIN text : Begins(n)}
  BY <1>2
<1>. QED BY <1>1, <1>5, <1>6, <1>7 DEF IsOpen, Quotes, Fields

\* A step within a token, over what does not separate.
LEMMA StepInToken ==
    ASSUME LexerInv, phase \in {"token", "quoted"}, Next1 # "NUL", end \notin Separators,
           NEW next \in {"token", "quoted"}, Step(next),
           next = "quoted" <=> IsOpen(end)
    PROVE  LexerInv'
<1>1. LexerTypeOK'
  BY StepTypeOK DEF LexerInv
<1>2. text' = text /\ start' = start /\ tokens' = tokens /\ end' = end + 1 /\ phase' = next
  BY DEF Step
<1>3. start \in Int /\ end \in Int /\ end' - 1 = end
  BY <1>2 DEF LexerInv, LexerTypeOK
<1>4. (phase = "quoted" <=> IsOpen(end - 1))'
  <2>1. IsOpen(end)' = IsOpen(end')
    BY <1>2 DEF IsOpen, Quotes
  <2>2. IsOpen(end - 1)' <=> IsOpen(end)
    BY <1>2, <1>3, SameText DEF IsOpen, Quotes
  <2>. QED BY <1>2, <2>2
<1>5. \A k \in start .. end' - 1 : k \notin Separators
  <2>1. \A k \in start .. end' - 1 : k \in start .. end - 1 \/ k = end
    BY <1>3
  <2>. QED BY <2>1 DEF LexerInv
<1>6. (/\ start = 1 \/ start - 1 \in Separators
       /\ \A k \in start .. end - 1 : k \notin Separators
       /\ tokens = FieldsAt(BeginsBefore(start)))'
  BY <1>2, <1>5, SameText DEF LexerInv
<1>. QED BY <1>1, <1>2, <1>4, <1>6 DEF LexerInv

\* The token that ends where its stretch does is the next field, if it holds
\* something.
LEMMA PushedField ==
    ASSUME LexerInv, phase \in {"token", "quoted"},
           end = Len(text) + 1 \/ end \in Separators
    PROVE  Pushed = FieldsAt(BeginsBefore(end + 1))
<1>1. start \in 1 .. end /\ end \in 1 .. Len(text) + 1
  BY DEF LexerInv, LexerTypeOK
<1>2. CASE start = end
  <2>1. BeginsBefore(end + 1) = BeginsBefore(start)
    BY <1>1, <1>2, EmptyStretch DEF LexerInv
  <2>. QED BY <1>2, <2>1 DEF LexerInv, Pushed
<1>3. CASE start # end
  <2>1. IsStretch(start, end) /\ start < end
    <3>1. start < end
      BY <1>1, <1>3
    <3>. QED BY <1>1, <3>1 DEF LexerInv, IsStretch
  <2>2. FieldsAt(BeginsBefore(end + 1))
        = Append(FieldsAt(BeginsBefore(start)), Token(start, end - 1))
    BY <2>1, FieldOfStretch DEF LexerInv
  <2>. QED BY <1>3, <2>2 DEF LexerInv, Pushed
<1>. QED BY <1>2, <1>3

\* A character that is not the NUL is the text's.
LEMMA CharacterAtEnd ==
    ASSUME LexerInv, Next1 # "NUL"
    PROVE  /\ end \in 1 .. Len(text) /\ Next1 = text[end]
           /\ IsOpen(end) <=> (IsOpen(end - 1) <=> text[end] # Quote)
           /\ end \in Separators <=> text[end] \in Delimiter /\ ~IsOpen(end - 1)
<1>1. end # Len(text) + 1 /\ Next1 = text[end]
  BY DEF Next1
<1>2. end \in 1 .. Len(text)
  BY <1>1 DEF LexerInv, LexerTypeOK
<1>. QED BY <1>1, <1>2, QuotesCount, SeparatorsAre DEF LexerInv

LEMMA InitLexerInv == LexerInit => LexerInv
<1> SUFFICES ASSUME LexerInit PROVE LexerInv
  OBVIOUS
<1>1. LexerTypeOK
  BY InitTypeOK
<1>2. start = 1 /\ end = 1 /\ phase = "token" /\ tokens = <<>>
  BY DEF LexerInit
<1>3. ~IsOpen(end - 1)
  BY <1>2, NoQuotesYet
<1>4. BeginsBefore(1) = {}
  BY <1>1 DEF BeginsBefore, LexerTypeOK
<1>5. FieldsAt({}) = <<>>
  BY FS_EmptySet DEF FieldsAt
<1>6. \A k \in start .. end - 1 : FALSE
  BY <1>2
<1>. QED BY <1>1, <1>2, <1>3, <1>4, <1>5, <1>6 DEF LexerInv

LEMMA NextLexerInv == LexerInv /\ [LexerNext]_lexerVars => LexerInv'
<1> SUFFICES ASSUME LexerInv, [LexerNext]_lexerVars PROVE LexerInv'
  OBVIOUS
<1>t. LexerTypeOK'
  BY NextTypeOK DEF LexerInv
<1>c. /\ \A d \in Ordinary \cup Delimiter \cup {Quote} : d # "NUL"
      /\ \A d \in Ordinary : d \notin Delimiter /\ d # Quote
      /\ \A d \in Delimiter : d # Quote
  BY LexerAssumption DEF Character
<1>1. CASE ReadCharacter
  <2>1. Next1 # "NUL" /\ phase = "token"
    BY <1>1, <1>c DEF ReadCharacter
  <2>2. ~IsOpen(end - 1)
    BY <2>1 DEF LexerInv
  <2>3. CASE Next1 \in Ordinary /\ Step("token")
    BY <1>c, <2>1, <2>2, <2>3, CharacterAtEnd, StepInToken
  <2>4. CASE Next1 = Quote /\ Step("quoted")
    BY <1>c, <2>1, <2>2, <2>4, CharacterAtEnd, StepInToken
  <2>. QED BY <1>1, <2>3, <2>4 DEF ReadCharacter
<1>2. CASE ReadQuoted
  <2>1. phase = "quoted" /\ Next1 \notin {Quote, "NUL"} /\ Step("quoted")
    BY <1>2 DEF ReadQuoted
  <2>2. IsOpen(end - 1)
    BY <2>1 DEF LexerInv
  <2>. QED BY <2>1, <2>2, CharacterAtEnd, StepInToken
<1>3. CASE CloseQuote
  <2>1. phase = "quoted" /\ Next1 = Quote /\ Next1 # "NUL" /\ Step("token")
    BY <1>3, <1>c DEF CloseQuote
  <2>2. IsOpen(end - 1)
    BY <2>1 DEF LexerInv
  <2>. QED BY <2>1, <2>2, CharacterAtEnd, StepInToken
<1>4. CASE Cut
  <2>1. /\ phase = "token" /\ Next1 \in Delimiter /\ Next1 # "NUL"
        /\ tokens' = Pushed /\ phase' = "gap" /\ end' = end + 1 /\ text' = text
    BY <1>4, <1>c DEF Cut
  <2>2. end \in Separators /\ ~IsOpen(end) /\ end \in Int
    BY <1>c, <2>1, CharacterAtEnd DEF LexerInv
  <2>3. Pushed = FieldsAt(BeginsBefore(end'))
    BY <2>1, <2>2, PushedField
  <2>4. end' - 1 = end
    BY <2>1, <2>2
  <2>5. (end - 1 \in Separators /\ tokens = FieldsAt(BeginsBefore(end)))' /\ ~IsOpen(end - 1)'
    BY <2>1, <2>2, <2>3, <2>4, SameText DEF IsOpen, Quotes
  <2>. QED BY <1>t, <2>1, <2>5 DEF LexerInv
<1>5. CASE SkipDelimiter
  <2>1. /\ phase = "gap" /\ Next1 \in Delimiter /\ Next1 # "NUL"
        /\ tokens' = tokens /\ phase' = "gap" /\ end' = end + 1 /\ text' = text
    BY <1>5, <1>c DEF SkipDelimiter, Step
  <2>2. end \in Separators /\ ~IsOpen(end) /\ end \in 1 .. Len(text) + 1
    BY <1>c, <2>1, CharacterAtEnd DEF LexerInv, LexerTypeOK
  <2>3. tokens = FieldsAt(BeginsBefore(end'))
    BY <2>1, <2>2, EmptyStretch DEF LexerInv
  <2>4. end' - 1 = end
    BY <2>1, <2>2
  <2>5. (end - 1 \in Separators /\ tokens = FieldsAt(BeginsBefore(end)))' /\ ~IsOpen(end - 1)'
    BY <2>1, <2>2, <2>3, <2>4, SameText DEF IsOpen, Quotes
  <2>. QED BY <1>t, <2>1, <2>5 DEF LexerInv
<1>6. CASE BeginToken
  <2>1. phase = "gap" /\ start' = end /\ phase' = "token" /\ UNCHANGED <<text, end, tokens>>
    BY <1>6 DEF BeginToken
  <2>2. ~IsOpen(end - 1) /\ ~IsOpen(end - 1)'
    BY <2>1, SameText DEF LexerInv, IsOpen, Quotes
  <2>3. \A k \in start' .. end' - 1 : k \notin Separators
    BY <2>1 DEF LexerInv, LexerTypeOK
  <2>4. (/\ start = 1 \/ start - 1 \in Separators
         /\ \A k \in start .. end - 1 : k \notin Separators
         /\ tokens = FieldsAt(BeginsBefore(start)))'
    BY <2>1, <2>3, SameText DEF LexerInv
  <2>. QED BY <1>t, <2>1, <2>2, <2>4 DEF LexerInv
<1>7. CASE Finish
  <2>1. /\ phase \in {"token", "quoted"} /\ Next1 = "NUL"
        /\ tokens' = Pushed /\ phase' = "done" /\ UNCHANGED <<text, start, end>>
    BY <1>7 DEF Finish
  <2>2. end = Len(text) + 1
    <3>1. end \in 1 .. Len(text) + 1 /\ \A n \in 1 .. Len(text) : text[n] # "NUL"
      BY LexerAssumption DEF LexerInv, LexerTypeOK
    <3>. QED BY <2>1, <3>1 DEF Next1
  <2>3. Pushed = Fields
    BY <2>1, <2>2, PushedField, EmptyStretch, AllFields DEF LexerInv, LexerTypeOK
  <2>. QED BY <1>t, <2>1, <2>3, SameText DEF LexerInv
<1>8. CASE UNCHANGED lexerVars
  <2>1. UNCHANGED <<text, start, end, phase, tokens>>
    BY <1>8 DEF lexerVars
  <2>. QED BY <1>t, <2>1, SameText DEF LexerInv, IsOpen, Quotes
<1> QED
  BY <1>1, <1>2, <1>3, <1>4, <1>5, <1>6, <1>7, <1>8 DEF LexerNext

\* strlist_from_split_quoted cuts every text into its fields: whichever way quotes
\* and delimiters follow each other, the two pointers and the state of its loops
\* come to what a count of the quotes says.
THEOREM TokensAreFields == LexerSpec => []TokensAreTheFields
<1>1. LexerInit => LexerInv
  BY InitLexerInv
<1>2. LexerInv /\ [LexerNext]_lexerVars => LexerInv'
  BY NextLexerInv
<1>3. LexerInv => TokensAreTheFields
  BY DEF LexerInv, TokensAreTheFields
<1> QED
  BY <1>1, <1>2, <1>3, PTL DEF LexerSpec

----------------------------------------------------------------------------
(* Texts written in quotes.                                                *)

\* Nothing separates between a quote that opens and the one that closes it.
LEMMA QuotedStretch ==
    ASSUME LexerTypeOK,
           NEW from \in 1 .. Len(text), NEW to \in from + 1 .. Len(text),
           ~IsOpen(from - 1), text[from] = Quote, text[to] = Quote,
           \A m \in from + 1 .. to - 1 : text[m] # Quote
    PROVE  /\ \A n \in from .. to : n \notin Separators
           /\ ~IsOpen(to)
           /\ Token(from, to) = SubSeq(text, from + 1, to - 1)
<1> DEFINE S == {k \in 0 .. to - 1 - from : IsOpen(from + k)}
<1>1. /\ from \in Int /\ to \in Int /\ Len(text) \in Int /\ 1 <= from /\ from < to
      /\ to <= Len(text)
  BY DEF LexerTypeOK
<1>2. 0 \in S
  BY <1>1, QuotesCount
<1>3. ASSUME NEW k \in 1 .. to - 1 - from, k - 1 \in S PROVE k \in S
  <2>1. /\ from + k \in from + 1 .. to - 1 /\ from + k \in 1 .. Len(text)
        /\ from + (k - 1) = from + k - 1 /\ k \in 0 .. to - 1 - from
    BY <1>1
  <2>2. IsOpen(from + k - 1)
    BY <1>3, <2>1
  <2>. QED BY <2>1, <2>2, QuotesCount
<1>4. ASSUME NEW n \in from .. to - 1 PROVE IsOpen(n)
  <2>1. n - from \in Nat /\ n - from <= to - 1 - from /\ from + (n - from) = n
    BY <1>1
  <2>2. ASSUME NEW k \in 1 .. n - from PROVE k \in 1 .. to - 1 - from
    BY <1>1, <2>1
  <2>3. Inductive(S, n - from)
    <3>. HIDE DEF S
    <3>. QED BY <1>2, <1>3, <2>2 DEF Inductive
  <2>4. n - from \in S
    <3>. HIDE DEF S
    <3>. QED BY <2>1, <2>3, UpTo
  <2>. QED BY <2>1, <2>4
<1>5. ASSUME NEW n \in from .. to PROVE n \notin Separators
  <2>1. n \in 1 .. Len(text)
    BY <1>1
  <2>2. CASE n \in {from, to}
    <3>1. text[n] \notin Delimiter
      BY <2>2, LexerAssumption
    <3>. QED BY <2>1, <3>1, SeparatorsAre
  <2>3. CASE n \notin {from, to}
    <3>1. n - 1 \in from .. to - 1
      BY <1>1, <2>3
    <3>. QED BY <1>4, <2>1, <3>1, SeparatorsAre
  <2>. QED BY <2>2, <2>3
<1>6. ~IsOpen(to)
  <2>1. to - 1 \in from .. to - 1 /\ to \in 1 .. Len(text)
    BY <1>1
  <2>. QED BY <1>4, <2>1, QuotesCount
<1>. QED BY <1>5, <1>6 DEF Token

\* No field begins before the text.
LEMMA NoFieldYet ==
    ASSUME LexerTypeOK
    PROVE  FieldsAt(BeginsBefore(1)) = <<>>
<1>1. BeginsBefore(1) = {}
  BY DEF BeginsBefore, LexerTypeOK
<1>. QED BY <1>1, FS_EmptySet DEF FieldsAt

\* The text in quotes, as the lexer sees it.
InQuotes(t) == <<Quote>> \o t \o <<Quote>>

LEMMA QuotedCharacters ==
    ASSUME NEW t \in Seq(Ordinary \cup Delimiter)
    PROVE  /\ InQuotes(t) \in Seq(Character)
           /\ Len(t) \in Nat
           /\ Len(InQuotes(t)) = Len(t) + 2
           /\ InQuotes(t)[1] = Quote /\ InQuotes(t)[Len(t) + 2] = Quote
           /\ \A m \in 1 .. Len(t) : InQuotes(t)[m + 1] = t[m] /\ t[m] # Quote
<1>1. t \in Seq(Character) /\ <<Quote>> \in Seq(Character)
  BY DEF Character
<1>2. \A m \in 1 .. Len(t) : t[m] # Quote
  BY LexerAssumption
<1>. QED BY <1>1, <1>2 DEF InQuotes

\* A stretch in quotes is a field, whatever is in it.
LEMMA QuotedField ==
    ASSUME LexerTypeOK,
           NEW from \in 1 .. Len(text), NEW to \in from + 1 .. Len(text),
           ~IsOpen(from - 1), text[from] = Quote, text[to] = Quote,
           \A m \in from + 1 .. to - 1 : text[m] # Quote,
           from = 1 \/ from - 1 \in Separators,
           to = Len(text) \/ to + 1 \in Separators
    PROVE  FieldsAt(BeginsBefore(to + 2))
           = Append(FieldsAt(BeginsBefore(from)), SubSeq(text, from + 1, to - 1))
<1>1. /\ from \in Int /\ to \in Int /\ Len(text) \in Int /\ 1 <= from /\ from < to
      /\ to <= Len(text)
  BY DEF LexerTypeOK
<1>2. /\ \A n \in from .. to : n \notin Separators
      /\ Token(from, to) = SubSeq(text, from + 1, to - 1)
  BY QuotedStretch
<1>3. to + 1 - 1 = to /\ to + 1 + 1 = to + 2 /\ from < to + 1
  BY <1>1
<1>4. IsStretch(from, to + 1)
  BY <1>1, <1>2 DEF IsStretch
<1>5. FieldsAt(BeginsBefore(to + 1 + 1))
      = Append(FieldsAt(BeginsBefore(from)), Token(from, to + 1 - 1))
  BY <1>3, <1>4, FieldOfStretch
<1>. QED BY <1>2, <1>3, <1>5

\* The field that ends with the text is the last one.
LEMMA LastField ==
    ASSUME LexerTypeOK
    PROVE  Fields = FieldsAt(BeginsBefore(Len(text) + 2))
<1>1. Len(text) + 1 \in 1 .. Len(text) + 1 /\ Len(text) + 1 + 1 = Len(text) + 2
  BY DEF LexerTypeOK
<1>. QED BY <1>1, AllFields, EmptyStretch

\* One text in quotes is one field, whatever it holds.
LEMMA OneQuotedText ==
    ASSUME LexerTypeOK, NEW t \in Seq(Ordinary \cup Delimiter), text = InQuotes(t)
    PROVE  Fields = <<t>>
<1> DEFINE n == Len(t) + 2
<1>1. /\ Len(t) \in Nat /\ Len(text) = n
      /\ text[1] = Quote /\ text[n] = Quote
      /\ \A m \in 1 .. Len(t) : text[m + 1] = t[m] /\ t[m] # Quote
  BY QuotedCharacters
<1>2. ASSUME NEW m \in 1 + 1 .. n - 1 PROVE text[m] # Quote
  <2>1. m - 1 \in 1 .. Len(t) /\ m - 1 + 1 = m
    BY <1>1
  <2>. QED BY <1>1, <2>1
<1>3. 1 \in 1 .. Len(text) /\ n \in 1 + 1 .. Len(text) /\ ~IsOpen(1 - 1)
  BY <1>1, NoQuotesYet
<1>4. SubSeq(text, 1 + 1, n - 1) = t
  BY <1>1, QuotedCharacters DEF LexerTypeOK
<1>5. FieldsAt(BeginsBefore(n + 2)) = Append(FieldsAt(BeginsBefore(1)), t)
  <2>. HIDE DEF n
  <2>. QED BY <1>1, <1>2, <1>3, <1>4, QuotedField
<1>6. FieldsAt(BeginsBefore(n + 2)) = <<t>>
  <2>1. Append(<<>>, t) = <<t>>
    OBVIOUS
  <2>. HIDE DEF n
  <2>. QED BY <1>5, <2>1, NoFieldYet, Zenon
<1>. QED BY <1>1, <1>6, LastField

\* A slice is known from its characters.
LEMMA SliceIs ==
    ASSUME NEW s \in Seq(Character), NEW t \in Seq(Character),
           NEW p \in Nat, NEW q \in Nat, q = p + Len(t), q <= Len(s),
           \A k \in 1 .. Len(t) : s[p + k] = t[k]
    PROVE  SubSeq(s, p + 1, q) = t
<1>1. Len(t) \in Nat /\ Len(s) \in Nat
  OBVIOUS
<1>2. /\ SubSeq(s, p + 1, q) \in Seq(Character)
      /\ Len(SubSeq(s, p + 1, q)) = Len(t)
      /\ \A k \in 1 .. Len(t) : SubSeq(s, p + 1, q)[k] = s[p + k]
  BY <1>1
<1>. QED BY <1>2

LEMMA ListOfTwo ==
    ASSUME NEW x, NEW y
    PROVE  Append(Append(<<>>, x), y) = <<x, y>>
<1> DEFINE one == Append(<<>>, x)
           two == Append(one, y)
<1>1. one \in Seq({x, y}) /\ Len(one) = 1 /\ one[1] = x
  OBVIOUS
<1> HIDE DEF one
<1>2. two \in Seq({x, y}) /\ Len(two) = 2 /\ two[1] = x /\ two[2] = y
  <2>1. y \in {x, y} /\ 1 \in DOMAIN one /\ Len(one) + 1 = 2
    BY <1>1
  <2>. QED BY <1>1, <2>1, AppendedAt
<1> HIDE DEF two
<1>3. two = <<x, y>>
  BY <1>2
<1>. QED BY <1>3 DEF one, two

LEMMA IsPair ==
    ASSUME NEW set, NEW s \in Seq(set), Len(s) = 2
    PROVE  s # <<>> /\ s[1] \in set /\ s[2] \in set /\ s = <<s[1], s[2]>>
  OBVIOUS

\* Two of them are two, although what stands between them may also stand in them.
LEMMA TwoStretches ==
    ASSUME LexerTypeOK, NEW a \in Nat, NEW b \in Nat, a >= 2, b >= 2,
           Len(text) = a + 1 + b, text[a + 1] \in Delimiter,
           text[1] = Quote, text[a] = Quote, text[a + 2] = Quote, text[a + 1 + b] = Quote,
           \A m \in 1 + 1 .. a - 1 : text[m] # Quote,
           \A m \in a + 2 + 1 .. a + b : text[m] # Quote
    PROVE  Fields = <<SubSeq(text, 1 + 1, a - 1), SubSeq(text, a + 2 + 1, a + b)>>
<1>1. /\ 1 \in 1 .. Len(text) /\ a \in 1 + 1 .. Len(text) /\ a + 1 \in 1 .. Len(text)
      /\ a + 2 \in 1 .. Len(text) /\ a + 1 + b \in a + 2 + 1 .. Len(text)
      /\ a + 1 - 1 = a /\ a + 2 - 1 = a + 1 /\ a + 1 + b - 1 = a + b
      /\ a + 1 + b + 2 = Len(text) + 2
  OBVIOUS
<1>2. ~IsOpen(1 - 1)
  BY NoQuotesYet
<1>3. ~IsOpen(a)
  BY <1>1, <1>2, QuotedStretch
<1>4. text[a + 1] # Quote
  BY LexerAssumption
<1>5. ~IsOpen(a + 1)
  BY <1>1, <1>3, <1>4, QuotesCount
<1>6. a + 1 \in Separators
  BY <1>1, <1>3, SeparatorsAre
<1>7. FieldsAt(BeginsBefore(a + 2))
      = Append(FieldsAt(BeginsBefore(1)), SubSeq(text, 1 + 1, a - 1))
  BY <1>1, <1>2, <1>6, QuotedField
<1>8. FieldsAt(BeginsBefore(a + 1 + b + 2))
      = Append(FieldsAt(BeginsBefore(a + 2)), SubSeq(text, a + 2 + 1, a + 1 + b - 1))
  <2>1. ~IsOpen(a + 2 - 1) /\ a + 2 - 1 \in Separators
    BY <1>1, <1>5, <1>6
  <2>2. \A m \in a + 2 + 1 .. a + 1 + b - 1 : text[m] # Quote
    BY <1>1
  <2>. QED BY <1>1, <2>1, <2>2, QuotedField
<1> DEFINE one == SubSeq(text, 1 + 1, a - 1)
           two == SubSeq(text, a + 2 + 1, a + b)
<1>9. Fields = Append(Append(<<>>, one), two)
  BY <1>1, <1>7, <1>8, NoFieldYet, LastField
<1> HIDE DEF one, two
<1>10. Fields = <<one, two>>
  BY <1>9, ListOfTwo, Zenon
<1>. QED BY <1>10 DEF one, two

\* s is v, d and w, one after the other.
Joins(s, v, d, w) ==
    /\ Len(s) = Len(v) + 1 + Len(w)
    /\ \A m \in 1 .. Len(v) : s[m] = v[m]
    /\ s[Len(v) + 1] = d
    /\ \A m \in 1 .. Len(w) : s[Len(v) + 1 + m] = w[m]

LEMMA Joined ==
    ASSUME NEW v \in Seq(Character), NEW w \in Seq(Character), NEW d \in Character
    PROVE  Joins(v \o <<d>> \o w, v, d, w)
<1> DEFINE x == v \o <<d>>
           s == x \o w
<1>1. /\ x \in Seq(Character) /\ Len(x) = Len(v) + 1
      /\ \A m \in 1 .. Len(v) : x[m] = v[m]
      /\ x[Len(v) + 1] = d
      /\ Len(v) \in Nat
  OBVIOUS
<1> HIDE DEF x
<1>2. /\ Len(s) = Len(x) + Len(w)
      /\ \A m \in 1 .. Len(x) : s[m] = x[m]
      /\ \A m \in 1 .. Len(w) : s[Len(x) + m] = w[m]
  <2>1. Len(x) \in Nat /\ Len(w) \in Nat
    BY <1>1
  <2>2. Len(s) = Len(x) + Len(w)
    BY <1>1
  <2>3. ASSUME NEW m \in 1 .. Len(x) PROVE s[m] = x[m]
    BY <1>1, <2>1
  <2>4. ASSUME NEW m \in 1 .. Len(w) PROVE s[Len(x) + m] = w[m]
    <3>1. /\ Len(x) + m \in 1 .. Len(x) + Len(w) /\ ~(Len(x) + m <= Len(x))
          /\ Len(x) + m - Len(x) = m
      BY <2>1
    <3>. QED BY <1>1, <2>1, <3>1
  <2>. QED BY <2>2, <2>3, <2>4
<1> HIDE DEF s
<1>3. ASSUME NEW m \in 1 .. Len(v) PROVE s[m] = v[m]
  <2>1. m \in 1 .. Len(x)
    BY <1>1
  <2>. QED BY <1>1, <1>2, <2>1
<1>4. s[Len(v) + 1] = d
  <2>1. Len(v) + 1 \in 1 .. Len(x)
    BY <1>1
  <2>. QED BY <1>1, <1>2, <2>1
<1>5. Joins(s, v, d, w)
  BY <1>1, <1>2, <1>3, <1>4 DEF Joins
<1>. QED BY <1>5 DEF s, x

\* s is t in quotes.
HoldsQuoted(s, t) ==
    /\ s \in Seq(Character)
    /\ Len(s) = Len(t) + 2
    /\ s[1] = Quote /\ s[Len(t) + 2] = Quote
    /\ \A m \in 1 .. Len(t) : s[m + 1] = t[m] /\ t[m] # Quote

LEMMA TwoJoined ==
    ASSUME LexerTypeOK, NEW t \in Seq(Character), NEW u \in Seq(Character), NEW d \in Delimiter,
           NEW v, NEW w, HoldsQuoted(v, t), HoldsQuoted(w, u), Joins(text, v, d, w)
    PROVE  Fields = <<t, u>>
<1>1. /\ v \in Seq(Character) /\ w \in Seq(Character) /\ d \in Character
      /\ Len(v) = Len(t) + 2 /\ Len(w) = Len(u) + 2
      /\ Len(t) \in Nat /\ Len(u) \in Nat
      /\ v[1] = Quote /\ v[Len(t) + 2] = Quote /\ w[1] = Quote /\ w[Len(u) + 2] = Quote
      /\ \A m \in 1 .. Len(t) : v[m + 1] = t[m] /\ t[m] # Quote
      /\ \A m \in 1 .. Len(u) : w[m + 1] = u[m] /\ u[m] # Quote
  BY DEF Character, HoldsQuoted
<1>2. /\ Len(text) = Len(v) + 1 + Len(w)
      /\ \A m \in 1 .. Len(v) : text[m] = v[m]
      /\ text[Len(v) + 1] = d
      /\ \A m \in 1 .. Len(w) : text[Len(v) + 1 + m] = w[m]
  BY DEF Joins
<1> DEFINE a == Len(v)
           b == Len(w)
<1>3. /\ a \in Nat /\ b \in Nat /\ a >= 2 /\ b >= 2
      /\ 1 \in 1 .. a /\ a \in 1 .. a /\ 1 \in 1 .. b /\ b \in 1 .. b /\ a + 1 + 1 = a + 2
  BY <1>1
<1>4. text[1] = Quote /\ text[a] = Quote /\ text[a + 2] = Quote /\ text[a + 1 + b] = Quote
  BY <1>1, <1>2, <1>3
<1>5. \A k \in 1 .. Len(t) : text[1 + k] = t[k] /\ t[k] # Quote
  <2>1. \A k \in 1 .. Len(t) : 1 + k \in 1 .. a /\ 1 + k = k + 1
    BY <1>1
  <2>. QED BY <1>1, <1>2, <2>1
<1>6. \A k \in 1 .. Len(u) : text[a + 2 + k] = u[k] /\ u[k] # Quote
  <2>1. \A k \in 1 .. Len(u) : k + 1 \in 1 .. b /\ a + 2 + k = a + 1 + (k + 1)
    BY <1>1
  <2>. QED BY <1>1, <1>2, <2>1
<1>7. ASSUME NEW m \in 1 + 1 .. a - 1 PROVE text[m] # Quote
  <2>1. m - 1 \in 1 .. Len(t) /\ 1 + (m - 1) = m
    BY <1>1
  <2>. QED BY <1>5, <2>1
<1>8. ASSUME NEW m \in a + 2 + 1 .. a + b PROVE text[m] # Quote
  <2>1. m - a - 2 \in 1 .. Len(u) /\ a + 2 + (m - a - 2) = m
    BY <1>1
  <2>. QED BY <1>6, <2>1
<1>9. Fields = <<SubSeq(text, 1 + 1, a - 1), SubSeq(text, a + 2 + 1, a + b)>>
  <2>. HIDE DEF a, b
  <2>1. Len(text) = a + 1 + b /\ text[a + 1] \in Delimiter
    BY <1>2 DEF a, b
  <2>. QED BY <1>3, <1>4, <1>7, <1>8, <2>1, TwoStretches
<1>10. text \in Seq(Character)
  BY DEF LexerTypeOK
<1>11. /\ a - 1 = 1 + Len(t) /\ a - 1 <= Len(text) /\ a - 1 \in Nat
       /\ a + b = a + 2 + Len(u) /\ a + b <= Len(text) /\ a + b \in Nat /\ a + 2 \in Nat
  BY <1>1, <1>2
<1>12. SubSeq(text, 1 + 1, a - 1) = t /\ SubSeq(text, a + 2 + 1, a + b) = u
  <2>. HIDE DEF a, b
  <2>1. 1 \in Nat
    OBVIOUS
  <2>2. SubSeq(text, 1 + 1, a - 1) = t
    BY <1>5, <1>10, <1>11, <2>1, SliceIs, Zenon
  <2>3. SubSeq(text, a + 2 + 1, a + b) = u
    BY <1>6, <1>10, <1>11, SliceIs, Zenon
  <2>. QED BY <2>2, <2>3
<1>. QED BY <1>9, <1>12

LEMMA TwoQuotedTexts ==
    ASSUME LexerTypeOK, NEW t \in Seq(Ordinary \cup Delimiter),
           NEW u \in Seq(Ordinary \cup Delimiter), NEW d \in Delimiter,
           text = InQuotes(t) \o <<d>> \o InQuotes(u)
    PROVE  Fields = <<t, u>>
<1>1. HoldsQuoted(InQuotes(t), t) /\ HoldsQuoted(InQuotes(u), u)
  BY QuotedCharacters DEF HoldsQuoted
<1>2. t \in Seq(Character) /\ u \in Seq(Character)
  BY DEF Character
<1>3. Joins(text, InQuotes(t), d, InQuotes(u))
  <2>1. InQuotes(t) \in Seq(Character) /\ InQuotes(u) \in Seq(Character) /\ d \in Character
    BY QuotedCharacters DEF Character
  <2>. QED BY <2>1, Joined
<1>. QED BY <1>1, <1>2, <1>3, TwoJoined

\* Nothing at all has no fields.
LEMMA NoText ==
    ASSUME LexerTypeOK, text = <<>>
    PROVE  Fields = <<>>
<1>1. Len(text) + 1 = 1
  BY DEF LexerTypeOK
<1>. QED BY <1>1, AllFields, NoFieldYet

\* Every bounded list of texts is none, one or two.
LEMMA UnquotedTexts ==
    ASSUME NEW texts \in Unquoted
    PROVE  /\ texts \in Seq(Seq(Ordinary \cup Delimiter))
           /\ Len(texts) \in {0, 1, 2}
<1>1. ASSUME NEW set, NEW t \in BoundedSeq(set, 2)
      PROVE  t \in Seq(set) /\ Len(t) \in {0, 1, 2}
  <2>1. PICK n \in 0 .. 2 : t \in [1 .. n -> set]
    BY DEF BoundedSeq, SeqOf
  <2>2. t \in Seq(set) /\ Len(t) = n
    BY <2>1
  <2>. QED BY <2>2
<1>2. BoundedSeq(Ordinary \cup Delimiter, 2) \subseteq Seq(Ordinary \cup Delimiter)
  BY <1>1
<1>. QED BY <1>1, <1>2 DEF Unquoted

\* What is written in quotes is read back: white space, commas and nothing at all
\* between two quotes are text (util/str.c:187).
THEOREM QuotesReadBack == LexerSpec => []QuotedTextsReadBack
<1>1. LexerTypeOK /\ TokensAreTheFields => QuotedTextsReadBack
  <2> SUFFICES ASSUME LexerTypeOK, tokens = Fields, NEW texts \in Unquoted,
                      text \in Quoted(texts)
               PROVE  tokens = texts
    BY DEF QuotedTextsReadBack, TokensAreTheFields
  <2>1. texts \in Seq(Seq(Ordinary \cup Delimiter)) /\ Len(texts) \in {0, 1, 2}
    BY UnquotedTexts
  <2>2. CASE Len(texts) = 0
    <3>1. texts = <<>>
      BY <2>1, <2>2
    <3>. QED BY <3>1, NoText DEF Quoted
  <2>3. CASE Len(texts) = 1
    <3>1. texts # <<>> /\ texts[1] \in Seq(Ordinary \cup Delimiter) /\ texts = <<texts[1]>>
      BY <2>1, <2>3
    <3>2. text = InQuotes(texts[1])
      BY <2>3, <3>1 DEF Quoted, InQuotes
    <3>. QED BY <3>1, <3>2, OneQuotedText
  <2>4. CASE Len(texts) = 2
    <3>1. /\ texts # <<>>
          /\ texts[1] \in Seq(Ordinary \cup Delimiter)
          /\ texts[2] \in Seq(Ordinary \cup Delimiter)
          /\ texts = <<texts[1], texts[2]>>
      BY <2>1, <2>4, IsPair, Zenon
    <3>2. \E d \in Delimiter : text = InQuotes(texts[1]) \o <<d>> \o InQuotes(texts[2])
      <4>1. Len(texts) # 1
        BY <2>4
      <4>. QED BY <3>1, <4>1, Zenon DEF Quoted, InQuotes
    <3>. QED BY <3>1, <3>2, TwoQuotedTexts
  <2>. QED BY <2>1, <2>2, <2>3, <2>4
<1> QED
  BY <1>1, LexerStaysInText, TokensAreFields, PTL

============================================================================
