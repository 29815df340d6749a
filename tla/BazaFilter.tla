----------------------------- MODULE BazaFilter -----------------------------
(***************************************************************************)
(* What the interpreter computes without touching the database: the        *)
(* conversion of a value's text (str_to_int of src/util/str.c), the filter *)
(* functions of src/interpreter.c and the integer lists that carry row     *)
(* numbers (src/util/intlist.c).                                           *)
(*                                                                         *)
(* A text is a member of Str, known by what the program can tell of it:    *)
(* the number strtoll reads from it, its place in strcmp's order, and the  *)
(* patterns it matches (the matcher itself is module BazaLike).            *)
(***************************************************************************)
EXTENDS BazaTypes, Integers, Sequences, SequencesExt

CONSTANTS
    TypeNames,    \* the texts that name a type, and the types they name
    Decimal,      \* the number written at the start of each text, 0 if none
    NotANumber,   \* the texts that start with no number
    StrictLibc,   \* whether strtoll sets EINVAL for those
    Rank,         \* the texts' places in strcmp's order
    Like,         \* the pairs <<text, pattern>> filter_func_like accepts
    Mod32, Mod64  \* 2^32 and 2^64

ASSUME FilterAssumption ==
    /\ \A text \in DOMAIN TypeNames : TypeNames[text] \in BaseType
    /\ Decimal \in [Str -> Int]
    /\ NotANumber \subseteq Str
    /\ \A s \in NotANumber : Decimal[s] = 0
    /\ StrictLibc \in BOOLEAN
    /\ Rank \in [Str -> Int]
    /\ \A s1, s2 \in Str : Rank[s1] = Rank[s2] => s1 = s2
    /\ Like \subseteq Str \X Str
    /\ \A m \in {Mod32, Mod64} : m \in Nat \ {0} /\ m % 2 = 0
    /\ Mod64 % Mod32 = 0

BaseTypeFromStr(text) ==
    IF text \in DOMAIN TypeNames THEN TypeNames[text] ELSE "BTYPE_INVALID"

----------------------------------------------------------------------------
(* Integers.                                                               *)

\* The residue of x of least absolute value, as a two's complement integer
\* of modulus m reads it.
Signed(x, m) == IF x % m < m \div 2 THEN x % m ELSE (x % m) - m

\* strtoll saturates.
Saturate(x) ==
    IF x > Mod64 \div 2 - 1 THEN Mod64 \div 2 - 1
    ELSE IF x < -(Mod64 \div 2) THEN -(Mod64 \div 2)
    ELSE x

\* str_to_int fails only where the C library reports EINVAL.
Converts(text) == ~(StrictLibc /\ text \in NotANumber)
StrToInt(text) == Saturate(Decimal[text])

\* What assigning the converted value to a slot of this type leaves there,
\* and what reading the converted value through a pointer to it yields.
SlotValue(type, text) ==
    CASE type = "STRING" -> text
      [] type = "INT32"  -> Signed(StrToInt(text), Mod32)
      [] type = "INT64"  -> Signed(StrToInt(text), Mod64)

----------------------------------------------------------------------------
(* Filters.                                                                *)

\* filter_func_table has no entry for "!=".
FilterFunctions == {"=", ">", ">=", "<", "<=", "like"}

\* filter_func_<op>(type, left, right).
FilterHolds(op, type, left, text) ==
    LET right == SlotValue(type, text)
        l == IF type = "STRING" THEN Rank[left] ELSE left
        r == IF type = "STRING" THEN Rank[right] ELSE right
    IN  CASE op = "="    -> l = r
          [] op = ">"    -> l > r
          [] op = ">="   -> l >= r
          [] op = "<"    -> l < r
          [] op = "<="   -> l <= r
          [] op = "like" -> IF type = "STRING" THEN <<left, text>> \in Like
                                               ELSE l = r

----------------------------------------------------------------------------
(* Lists, most of them of row numbers.                                     *)

\* The loop that walks a list and pushes what passes a test to another.
Picked(list, passing) ==
    LET Push(found, x) == IF x \in passing THEN Append(found, x) ELSE found
    IN  FoldLeft(Push, <<>>, list)

\* Faulty: a row two filters find is listed twice.
PushAny(list, value) == Append(list, value)

PushNew(list, value) == IF Contains(list, value) THEN list ELSE Append(list, value)

IntListUnion(left, right) == FoldLeft(PushNew, <<>>, left \o right)

IntListIntersection(left, right) ==
    LET PushCommon(list, value) ==
            IF Contains(right, value) THEN PushNew(list, value) ELSE list
    IN  FoldLeft(PushCommon, <<>>, left)

\* Faulty: AND and OR exchanged.
CombineSwapped(relation, left, right) ==
    CASE relation = "NONE" -> right
      [] relation = "OR"   -> IntListIntersection(left, right)
      [] relation = "AND"  -> IntListUnion(left, right)

Combine(relation, left, right) ==
    CASE relation = "NONE" -> right
      [] relation = "AND"  -> IntListIntersection(left, right)
      [] relation = "OR"   -> IntListUnion(left, right)

============================================================================
