--------------------------- MODULE BazaFoldProofs ---------------------------
(***************************************************************************)
(* What a fold over a list computes, for lists of any length: the facts    *)
(* behind every loop the modules write as a fold.  The induction theorems  *)
(* of the library take a predicate; here a set takes its place, and        *)
(* induction is the least number principle, from the well-foundedness of   *)
(* the order on Nat.                                                       *)
(***************************************************************************)
EXTENDS Integers, Sequences, SequencesExt, FiniteSets, BazaPositions, SequenceTheorems,
        FiniteSetTheorems, WellFoundedInduction, TLAPS

\* Every non-empty set of natural numbers has a least element.
LEMMA LeastNumber ==
    ASSUME NEW S \in SUBSET Nat, S # {}
    PROVE  \E m \in S : \A n \in S : m <= n
<1>1. PICK m \in S : \A y \in S : ~(<<y, m>> \in OpToRel(<, Nat))
  BY NatLessThanWellFounded, WFMin
<1>2. \A y \in S : ~(y < m)
  BY <1>1 DEF OpToRel
<1>. QED BY <1>2

\* Induction up to n.
Inductive(S, n) == 0 \in S /\ \A k \in 1 .. n : k - 1 \in S => k \in S

LEMMA UpTo ==
    ASSUME NEW n \in Nat, NEW S, Inductive(S, n)
    PROVE  n \in S
<1> SUFFICES ASSUME n \notin S PROVE FALSE
  BY DEF Inductive
<1>1. PICK m \in (0 .. n) \ S : \A k \in (0 .. n) \ S : m <= k
  <2>1. (0 .. n) \ S \in SUBSET Nat /\ n \in (0 .. n) \ S
    OBVIOUS
  <2>. QED BY <2>1, LeastNumber
<1>2. m # 0 /\ m \in 1 .. n
  BY <1>1 DEF Inductive
<1>3. m - 1 \in S
  BY <1>1, <1>2
<1>. QED BY <1>1, <1>2, <1>3 DEF Inductive

\* A set of natural numbers below a bound that has an element has a greatest one.
LEMMA GreatestNumber ==
    ASSUME NEW n \in Nat, NEW s \in SUBSET (1 .. n), s # {}
    PROVE  Max(s) \in s /\ \A i \in s : i <= Max(s)
<1> DEFINE above == {n - i : i \in s}
<1>1. above \in SUBSET Nat /\ above # {}
  <2>1. \A i \in s : i \in 1 .. n /\ n - i \in Nat
    OBVIOUS
  <2>. QED BY <2>1
<1>2. PICK m \in above : \A k \in above : m <= k
  BY <1>1, LeastNumber
<1>3. PICK x \in s : m = n - x
  BY <1>2
<1>4. ASSUME NEW y \in s PROVE x >= y
  <2>1. n - y \in above
    OBVIOUS
  <2>2. m <= n - y
    BY <1>2, <2>1
  <2>3. x \in 1 .. n /\ y \in 1 .. n
    OBVIOUS
  <2>. QED BY <1>3, <2>2, <2>3
<1>5. Max(s) \in s /\ \A y \in s : Max(s) >= y
  <2>. HIDE DEF above
  <2>. QED BY <1>4 DEF Max
<1>6. \A i \in s : i \in Int
  OBVIOUS
<1>. QED BY <1>5, <1>6

LEMMA GreatestOfInterval ==
    ASSUME NEW k \in Nat \ {0}
    PROVE  /\ 1 .. k # {}
           /\ Max(1 .. k) = k
           /\ (1 .. k) \ {Max(1 .. k)} = 1 .. (k - 1)
<1>1. Max(1 .. k) \in 1 .. k /\ \A i \in 1 .. k : i <= Max(1 .. k)
  <2>1. 1 .. k \in SUBSET (1 .. k) /\ 1 .. k # {} /\ k \in Nat
    OBVIOUS
  <2>. QED BY <2>1, GreatestNumber
<1>. QED BY <1>1

----------------------------------------------------------------------------
(* Folds.  The library defines them by recursion on sets of positions.     *)

\* iter gives for each set of positions up to n what folding Op over it,
\* from base, gives.
IsFold(iter, n, X, base, Op) ==
    /\ iter \in [SUBSET (1 .. n) -> X]
    /\ iter[{}] = base
    /\ \A s \in SUBSET (1 .. n) :
          s # {} => iter[s] = Op[<<iter[s \ {Max(s)}], Max(s)>>]

\* The function a fold is defined by exists.
LEMMA FoldExists ==
    ASSUME NEW n \in Nat, NEW X, NEW base \in X, NEW Op \in [X \X (1 .. n) -> X]
    PROVE  \E iter : IsFold(iter, n, X, base, Op)
<1> SUFFICES \E iter \in [SUBSET (1 .. n) -> X] :
                /\ iter[{}] = base
                /\ \A s \in SUBSET (1 .. n) :
                      s # {} => iter[s] = Op[<<iter[s \ {Max(s)}], Max(s)>>]
  BY DEF IsFold
<1> DEFINE Good(iter, m) ==
              /\ iter[{}] = base
              /\ \A s \in SUBSET (1 .. m) :
                    s # {} => iter[s] = Op[<<iter[s \ {Max(s)}], Max(s)>>]
           S == {m \in 0 .. n : \E iter \in [SUBSET (1 .. m) -> X] : Good(iter, m)}
<1>1. 0 \in S
  <2>1. 1 .. 0 = {} /\ SUBSET (1 .. 0) = {{}}
    OBVIOUS
  <2>2. [s \in {{}} |-> base] \in [SUBSET (1 .. 0) -> X]
    BY <2>1
  <2>3. Good([s \in {{}} |-> base], 0)
    BY <2>1
  <2>4. \E iter \in [SUBSET (1 .. 0) -> X] : Good(iter, 0)
    <3>. HIDE DEF Good
    <3>. QED BY <2>2, <2>3
  <2>5. 0 \in 0 .. n
    OBVIOUS
  <2>. HIDE DEF Good
  <2>. QED BY <2>4, <2>5
<1>2. ASSUME NEW m \in 1 .. n, m - 1 \in S PROVE m \in S
  <2>1. PICK old \in [SUBSET (1 .. (m - 1)) -> X] : Good(old, m - 1)
    <3>. HIDE DEF Good
    <3>. QED BY <1>2
  <2> DEFINE iter == [s \in SUBSET (1 .. m) |->
                         IF s = {} THEN base ELSE Op[<<old[s \ {Max(s)}], Max(s)>>]]
  <2>2. ASSUME NEW s \in SUBSET (1 .. m), s # {}
        PROVE  /\ Max(s) \in 1 .. m
               /\ s \ {Max(s)} \in SUBSET (1 .. (m - 1))
    <3>1. m \in Nat /\ \A i \in s : i \in 1 .. m
      OBVIOUS
    <3>2. Max(s) \in s /\ \A i \in s : i <= Max(s)
      BY <2>2, <3>1, GreatestNumber
    <3>3. ASSUME NEW i \in s \ {Max(s)} PROVE i \in 1 .. (m - 1)
      <4> DEFINE greatest == Max(s)
      <4>1. i # greatest /\ i <= greatest /\ greatest \in 1 .. m /\ i \in 1 .. m
        BY <3>1, <3>2
      <4>. HIDE DEF greatest
      <4>. QED BY <4>1
    <3>. QED BY <3>1, <3>2, <3>3
  <2>3. iter \in [SUBSET (1 .. m) -> X]
    <3>1. ASSUME NEW s \in SUBSET (1 .. m), s # {}
          PROVE  Op[<<old[s \ {Max(s)}], Max(s)>>] \in X
      <4>1. Max(s) \in 1 .. m /\ s \ {Max(s)} \in SUBSET (1 .. (m - 1))
        BY <2>2, <3>1
      <4>2. old[s \ {Max(s)}] \in X
        BY <2>1, <4>1
      <4>3. Max(s) \in 1 .. n
        BY <4>1
      <4>. QED BY <4>2, <4>3
    <3>. QED BY <3>1
  <2>4. ASSUME NEW s \in SUBSET (1 .. (m - 1))
        PROVE  s \in SUBSET (1 .. m) /\ iter[s] = old[s]
    <3>1. s \in SUBSET (1 .. m)
      OBVIOUS
    <3>2. s = {} \/ old[s] = Op[<<old[s \ {Max(s)}], Max(s)>>]
      BY <2>1
    <3>3. iter[s] = IF s = {} THEN base ELSE Op[<<old[s \ {Max(s)}], Max(s)>>]
      BY <3>1
    <3>4. old[{}] = base
      BY <2>1
    <3>. QED BY <3>1, <3>2, <3>3, <3>4
  <2>5. Good(iter, m)
    <3>1. iter[{}] = base
      OBVIOUS
    <3>2. ASSUME NEW s \in SUBSET (1 .. m), s # {}
          PROVE  iter[s] = Op[<<iter[s \ {Max(s)}], Max(s)>>]
      BY <2>2, <2>4, <3>2
    <3>. QED BY <3>1, <3>2
  <2>6. m \in 0 .. n
    OBVIOUS
  <2>. HIDE DEF Good, iter
  <2>. QED BY <2>3, <2>5, <2>6
<1>3. n \in S
  <2>. HIDE DEF S
  <2>1. Inductive(S, n)
    BY <1>1, <1>2 DEF Inductive
  <2>. QED BY <2>1, UpTo
<1>. QED BY <1>3

LEMMA FirstTurns ==
    ASSUME NEW n \in Nat, NEW k \in 1 .. n
    PROVE  1 .. k \in SUBSET (1 .. n) /\ 1 .. k # {}
<1>1. \A i \in 1 .. k : i \in 1 .. n
  OBVIOUS
<1>2. k \in 1 .. k
  OBVIOUS
<1>. QED BY <1>1, <1>2

\* What the loop has computed after each turn.
Along(iter, n) == [k \in 0 .. n |-> iter[1 .. k]]

TurnsOf(f, iter, n) ==
    /\ f[0] = iter[{}]
    /\ \A k \in 1 .. n : /\ f[k] = iter[1 .. k]
                         /\ f[k - 1] = iter[(1 .. k) \ {Max(1 .. k)}]
                         /\ Max(1 .. k) = k
    /\ f[n] = iter[1 .. n]

LEMMA FoldTurns ==
    ASSUME NEW n \in Nat, NEW iter
    PROVE  TurnsOf(Along(iter, n), iter, n)
<1>1. 1 .. 0 = {}
  OBVIOUS
<1>2. ASSUME NEW k \in 1 .. n
      PROVE  /\ Max(1 .. k) = k
             /\ (1 .. k) \ {Max(1 .. k)} = 1 .. (k - 1)
  BY GreatestOfInterval
<1>3. \A k \in 1 .. n : k - 1 \in 0 .. n /\ k \in 0 .. n
  OBVIOUS
<1> DEFINE f == [k \in 0 .. n |-> iter[1 .. k]]
<1>4. f[0] = iter[{}] /\ f[n] = iter[1 .. n]
  BY <1>1
<1>5. ASSUME NEW k \in 1 .. n
      PROVE  /\ f[k] = iter[1 .. k]
             /\ f[k - 1] = iter[(1 .. k) \ {Max(1 .. k)}]
  BY <1>2, <1>3
<1>. QED BY <1>2, <1>4, <1>5 DEF Along, TurnsOf

\* A function on 0 .. n that is given step by step exists.
IsTurns(f, n, X, base, Op) ==
    /\ f \in [0 .. n -> X]
    /\ f[0] = base
    /\ \A k \in 1 .. n : f[k] = Op[<<f[k - 1], k>>]

LEMMA TurnsExist ==
    ASSUME NEW n \in Nat, NEW X, NEW base \in X, NEW Op \in [X \X (1 .. n) -> X]
    PROVE  \E f : IsTurns(f, n, X, base, Op)
<1>1. PICK iter : IsFold(iter, n, X, base, Op)
  BY FoldExists
<1>2. TurnsOf(Along(iter, n), iter, n)
  BY FoldTurns
<1>3. Along(iter, n) \in [0 .. n -> X]
  <2>1. \A k \in 0 .. n : 1 .. k \in SUBSET (1 .. n)
    OBVIOUS
  <2>2. \A k \in 0 .. n : iter[1 .. k] \in X
    BY <1>1, <2>1 DEF IsFold
  <2>. QED BY <2>2 DEF Along
<1>4. ASSUME NEW k \in 1 .. n
      PROVE  Along(iter, n)[k] = Op[<<Along(iter, n)[k - 1], k>>]
  BY <1>1, <1>2, FirstTurns DEF IsFold, TurnsOf
<1>5. Along(iter, n)[0] = base
  BY <1>1, <1>2 DEF IsFold, TurnsOf
<1>. QED BY <1>3, <1>4, <1>5 DEF IsTurns

----------------------------------------------------------------------------
(* Lists that a loop collects from a list it walks.                        *)

Ascending(l) == \A i, j \in DOMAIN l : i < j => l[i] < l[j]

Distinct(l) == \A i, j \in DOMAIN l : l[i] = l[j] => i = j

\* f[k] is what is collected after k turns over list.
Collects(f, list) ==
    /\ f[0] = <<>>
    /\ \A k \in 1 .. Len(list) : f[k] \in {f[k - 1], Append(f[k - 1], list[k])}

LEMMA AppendedAt ==
    ASSUME NEW V, NEW l \in Seq(V), NEW x \in V
    PROVE  /\ Append(l, x) \in Seq(V)
           /\ Len(Append(l, x)) = Len(l) + 1
           /\ DOMAIN Append(l, x) = 1 .. Len(l) + 1
           /\ \A i \in DOMAIN l : i \in 1 .. Len(l) /\ Append(l, x)[i] = l[i]
           /\ Append(l, x)[Len(l) + 1] = x
           /\ \A i \in DOMAIN Append(l, x) : i \in DOMAIN l \/ i = Len(l) + 1
OBVIOUS

LEMMA CollectedType ==
    ASSUME NEW V, NEW list \in Seq(V), NEW f, Collects(f, list)
    PROVE  /\ f[Len(list)] \in Seq(V)
           /\ Len(f[Len(list)]) <= Len(list)
<1> DEFINE S == {k \in 0 .. Len(list) : f[k] \in Seq(V) /\ Len(f[k]) <= k}
<1>1. Len(list) \in Nat /\ \A k \in 1 .. Len(list) : list[k] \in V
  OBVIOUS
<1>2. 0 \in S
  <2>1. f[0] = <<>>
    BY DEF Collects
  <2>2. f[0] \in Seq(V) /\ Len(f[0]) <= 0
    BY <2>1
  <2>. QED BY <1>1, <2>2
<1>3. ASSUME NEW k \in 1 .. Len(list), k - 1 \in S PROVE k \in S
  <2>1. f[k - 1] \in Seq(V) /\ Len(f[k - 1]) <= k - 1
    BY <1>3
  <2>2. list[k] \in V
    BY <1>1
  <2>3. Append(f[k - 1], list[k]) \in Seq(V) /\ Len(Append(f[k - 1], list[k])) <= k
    BY <2>1, <2>2
  <2>4. f[k] = f[k - 1] \/ f[k] = Append(f[k - 1], list[k])
    BY DEF Collects
  <2>5. k - 1 \in Int /\ k \in Int /\ Len(f[k - 1]) \in Nat
    BY <2>1
  <2>6. f[k] \in Seq(V) /\ Len(f[k]) <= k
    <3> DEFINE l == f[k - 1]
               m == Append(f[k - 1], list[k])
    <3>1. k \in Int /\ Len(l) \in Nat /\ Len(l) <= k
      BY <2>1, <2>5
    <3>2. l \in Seq(V) /\ m \in Seq(V) /\ Len(m) <= k /\ (f[k] = l \/ f[k] = m)
      BY <2>1, <2>3, <2>4
    <3>. HIDE DEF l, m
    <3>. QED BY <3>1, <3>2
  <2>. QED BY <1>1, <2>6
<1>4. Len(list) \in S
  <2> DEFINE n == Len(list)
  <2>. HIDE DEF S
  <2>1. n \in Nat /\ Inductive(S, n)
    BY <1>1, <1>2, <1>3 DEF Inductive
  <2>. HIDE DEF n
  <2>2. n \in S
    BY <2>1, UpTo
  <2>. QED BY <2>2 DEF n
<1>. QED BY <1>4

\* What is collected in order from an ascending list is ascending.
LEMMA CollectedAscends ==
    ASSUME NEW V \in SUBSET Int, NEW list \in Seq(V), Ascending(list),
           NEW f, Collects(f, list)
    PROVE  Ascending(f[Len(list)])
<1> DEFINE S == {k \in 0 .. Len(list) :
                    /\ f[k] \in Seq(V)
                    /\ Ascending(f[k])
                    /\ \A i \in DOMAIN f[k] : \E j \in 1 .. k : f[k][i] = list[j]}
<1>1. /\ Len(list) \in Nat
      /\ \A k \in 1 .. Len(list) : list[k] \in V
      /\ DOMAIN list = 1 .. Len(list)
  OBVIOUS
<1>2. 0 \in S
  <2>1. f[0] = <<>>
    BY DEF Collects
  <2>2. f[0] \in Seq(V) /\ DOMAIN f[0] = {}
    BY <2>1
  <2>. QED BY <1>1, <2>2 DEF Ascending
<1>3. ASSUME NEW k \in 1 .. Len(list), k - 1 \in S PROVE k \in S
  <2> DEFINE l == f[k - 1]
             x == list[k]
  <2>1. l \in Seq(V) /\ Ascending(l) /\ \A i \in DOMAIN l : \E j \in 1 .. (k - 1) : l[i] = list[j]
    BY <1>3
  <2>2. x \in V /\ x \in Int
    BY <1>1
  <2>3. ASSUME NEW i \in DOMAIN l PROVE l[i] < x /\ l[i] \in Int
    <3>1. PICK j \in 1 .. (k - 1) : l[i] = list[j]
      BY <2>1
    <3>2. j \in DOMAIN list /\ k \in DOMAIN list /\ j < k
      BY <1>1
    <3>3. list[j] < list[k]
      BY <3>2 DEF Ascending
    <3>4. list[j] \in V
      BY <1>1, <3>2
    <3>. QED BY <3>1, <3>3, <3>4
  <2>4. f[k] = l \/ f[k] = Append(l, x)
    BY DEF Collects
  <2>5. \A i \in DOMAIN l : \E j \in 1 .. k : l[i] = list[j]
    <3>1. \A j \in 1 .. (k - 1) : j \in 1 .. k
      BY <1>1
    <3>. QED BY <2>1, <3>1
  <2>6. k \in 1 .. k /\ k \in 0 .. Len(list)
    BY <1>1
  <2>7. x = list[k]
    OBVIOUS
  <2>. HIDE DEF l, x
  <2>8. CASE f[k] = l
    BY <2>1, <2>5, <2>6, <2>8
  <2>9. CASE f[k] = Append(l, x)
    <3> DEFINE m == Append(l, x)
    <3>1. /\ m \in Seq(V)
          /\ \A i \in DOMAIN l : i \in 1 .. Len(l) /\ m[i] = l[i]
          /\ m[Len(l) + 1] = x
          /\ \A i \in DOMAIN m : i \in DOMAIN l \/ i = Len(l) + 1
          /\ Len(l) \in Nat
          /\ DOMAIN m = 1 .. Len(l) + 1
      BY <2>1, <2>2, AppendedAt
    <3>. HIDE DEF m
    <3>2. ASSUME NEW i \in DOMAIN m, NEW j \in DOMAIN m, i < j PROVE m[i] < m[j]
      <4>1. i \in DOMAIN l
        BY <3>1, <3>2
      <4>2. CASE j \in DOMAIN l
        BY <2>1, <3>1, <3>2, <4>1, <4>2 DEF Ascending
      <4>3. CASE j = Len(l) + 1
        BY <2>3, <3>1, <4>1, <4>3
      <4>. QED BY <3>1, <4>2, <4>3
    <3>3. Ascending(m)
      BY <3>2 DEF Ascending
    <3>4. \A i \in DOMAIN m : \E j \in 1 .. k : m[i] = list[j]
      BY <2>5, <2>6, <2>7, <3>1
    <3>5. f[k] = m
      BY <2>9 DEF m
    <3>. QED BY <2>6, <3>1, <3>3, <3>4, <3>5
  <2>. QED BY <2>4, <2>8, <2>9
<1>4. Len(list) \in S
  <2> DEFINE n == Len(list)
  <2>. HIDE DEF S
  <2>1. n \in Nat /\ Inductive(S, n)
    BY <1>1, <1>2, <1>3 DEF Inductive
  <2>. HIDE DEF n
  <2>2. n \in S
    BY <2>1, UpTo
  <2>. QED BY <2>2 DEF n
<1>. QED BY <1>4

\* What is collected only if it is not collected yet is there once.
LEMMA CollectedOnce ==
    ASSUME NEW V, NEW list \in Seq(V), NEW f, f[0] = <<>>,
           \A k \in 1 .. Len(list) :
              \/ f[k] = f[k - 1]
              \/ f[k] = Append(f[k - 1], list[k]) /\ ~Contains(f[k - 1], list[k])
    PROVE  Distinct(f[Len(list)])
<1> DEFINE S == {k \in 0 .. Len(list) : f[k] \in Seq(V) /\ Distinct(f[k])}
<1>1. Len(list) \in Nat /\ \A k \in 1 .. Len(list) : list[k] \in V
  OBVIOUS
<1>2. 0 \in S
  <2>1. f[0] \in Seq(V) /\ DOMAIN f[0] = {}
    OBVIOUS
  <2>2. Distinct(f[0])
    BY <2>1 DEF Distinct
  <2>3. 0 \in 0 .. Len(list)
    BY <1>1
  <2>. QED BY <2>1, <2>2, <2>3
<1>3. ASSUME NEW k \in 1 .. Len(list), k - 1 \in S PROVE k \in S
  <2> DEFINE l == f[k - 1]
             x == list[k]
  <2>1. l \in Seq(V) /\ Distinct(l) /\ x \in V /\ k \in 0 .. Len(list)
    BY <1>1, <1>3
  <2>2. f[k] = l \/ (f[k] = Append(l, x) /\ ~Contains(l, x))
    OBVIOUS
  <2>. HIDE DEF l, x
  <2>3. CASE f[k] = Append(l, x) /\ ~Contains(l, x)
    <3> DEFINE m == Append(l, x)
    <3>1. /\ m \in Seq(V)
          /\ \A i \in DOMAIN l : i \in 1 .. Len(l) /\ m[i] = l[i]
          /\ m[Len(l) + 1] = x
          /\ \A i \in DOMAIN m : i \in DOMAIN l \/ i = Len(l) + 1
      BY <2>1, AppendedAt
    <3>2. \A i \in DOMAIN l : l[i] # x
      BY <2>3, <3>1 DEF Contains
    <3>. HIDE DEF m
    <3>3. Distinct(m)
      BY <2>1, <3>1, <3>2 DEF Distinct
    <3>4. f[k] = m
      BY <2>3 DEF m
    <3>. QED BY <2>1, <3>1, <3>3, <3>4
  <2>. QED BY <2>1, <2>2, <2>3
<1>4. Len(list) \in S
  <2> DEFINE n == Len(list)
  <2>. HIDE DEF S
  <2>1. n \in Nat /\ Inductive(S, n)
    BY <1>1, <1>2, <1>3 DEF Inductive
  <2>. HIDE DEF n
  <2>2. n \in S
    BY <2>1, UpTo
  <2>. QED BY <2>2 DEF n
<1>. QED BY <1>4

\* A loop that collects what stands at these positions, unless it has it already.
CollectsThose(f, list, picks) ==
    /\ f[0] = <<>>
    /\ \A k \in 1 .. Len(list) :
          \/ f[k] = f[k - 1] /\ (k \in picks => Contains(f[k - 1], list[k]))
          \/ f[k] = Append(f[k - 1], list[k]) /\ k \in picks

LEMMA AppendedSet ==
    ASSUME NEW V, NEW l \in Seq(V), NEW x \in V
    PROVE  ToSet(Append(l, x)) = ToSet(l) \cup {x}
<1> DEFINE m == Append(l, x)
<1>1. /\ \A i \in DOMAIN l : i \in 1 .. Len(l) /\ m[i] = l[i]
      /\ m[Len(l) + 1] = x /\ Len(l) \in Nat
      /\ DOMAIN m = 1 .. Len(l) + 1
      /\ \A i \in DOMAIN m : i \in DOMAIN l \/ i = Len(l) + 1
  BY AppendedAt
<1>. HIDE DEF m
<1>2. ASSUME NEW i \in DOMAIN m PROVE m[i] \in ToSet(l) \cup {x}
  <2>1. CASE i \in DOMAIN l
    BY <1>1, <2>1 DEF ToSet
  <2>2. CASE i = Len(l) + 1
    BY <1>1, <2>2
  <2>. QED BY <1>1, <2>1, <2>2
<1>3. ASSUME NEW i \in DOMAIN l PROVE l[i] \in ToSet(m)
  <2>1. i \in DOMAIN m
    BY <1>1
  <2>. QED BY <1>1, <2>1 DEF ToSet
<1>4. x \in ToSet(m)
  <2>1. Len(l) + 1 \in DOMAIN m
    BY <1>1
  <2>. QED BY <1>1, <2>1 DEF ToSet
<1>5. ToSet(m) \in SUBSET (ToSet(l) \cup {x})
  BY <1>2 DEF ToSet
<1>6. ToSet(l) \in SUBSET ToSet(m)
  BY <1>3 DEF ToSet
<1>. QED BY <1>4, <1>5, <1>6 DEF m

\* A list that holds what stands at these positions of another, and only that.
Gathers(result, list, picks) ==
    ToSet(result) = {list[j] : j \in picks \cap (1 .. Len(list))}

LEMMA CollectedSet ==
    ASSUME NEW V, NEW list \in Seq(V), NEW f, NEW picks, CollectsThose(f, list, picks)
    PROVE  Gathers(f[Len(list)], list, picks)
<1> DEFINE n == Len(list)
           those(k) == {list[j] : j \in picks \cap (1 .. k)}
           S == {k \in 0 .. n : f[k] \in Seq(V) /\ ToSet(f[k]) = those(k)}
<1>1. n \in Nat /\ \A k \in 1 .. n : list[k] \in V
  OBVIOUS
<1>2. 0 \in S
  <2>1. f[0] = <<>>
    BY DEF CollectsThose
  <2>2. f[0] \in Seq(V) /\ DOMAIN f[0] = {}
    BY <2>1
  <2>. QED BY <1>1, <2>2 DEF ToSet
<1>3. ASSUME NEW k \in 1 .. n, k - 1 \in S PROVE k \in S
  <2> DEFINE l == f[k - 1]
             x == list[k]
  <2>1. l \in Seq(V) /\ ToSet(l) = those(k - 1) /\ x \in V /\ k \in 0 .. n
    BY <1>1, <1>3
  <2>2. \/ f[k] = l /\ (k \in picks => Contains(l, x))
        \/ f[k] = Append(l, x) /\ k \in picks
    BY DEF CollectsThose
  <2>3. those(k) = those(k - 1) \cup (IF k \in picks THEN {x} ELSE {})
    <3>1. \A j : j \in 1 .. k <=> j \in 1 .. k - 1 \/ j = k
      BY <1>1
    <3>. QED BY <3>1
  <2>. HIDE DEF l, x, those
  <2>4. CASE f[k] = l /\ (k \in picks => Contains(l, x))
    <3>1. Contains(l, x) => x \in ToSet(l)
      BY <2>1 DEF Contains, ToSet
    <3>. QED BY <2>1, <2>3, <2>4, <3>1
  <2>5. CASE f[k] = Append(l, x) /\ k \in picks
    <3>1. Append(l, x) \in Seq(V) /\ ToSet(Append(l, x)) = ToSet(l) \cup {x}
      BY <2>1, AppendedSet
    <3>. QED BY <2>1, <2>3, <2>5, <3>1
  <2>. QED BY <2>2, <2>4, <2>5
<1>4. n \in S
  <2>. HIDE DEF S, n
  <2>1. Inductive(S, n)
    BY <1>2, <1>3 DEF Inductive
  <2>. QED BY <1>1, <2>1, UpTo
<1>. QED BY <1>4 DEF Gathers

LEMMA AscendingIsDistinct ==
    ASSUME NEW l \in Seq(Int), Ascending(l)
    PROVE  Distinct(l)
<1> SUFFICES ASSUME NEW i \in DOMAIN l, NEW j \in DOMAIN l, l[i] = l[j], i # j
             PROVE  FALSE
  BY DEF Distinct
<1>1. i \in Int /\ j \in Int /\ l[i] \in Int /\ l[j] \in Int
  OBVIOUS
<1>2. i < j \/ j < i
  BY <1>1
<1>. QED BY <1>1, <1>2 DEF Ascending

----------------------------------------------------------------------------
(* Positions in order.                                                     *)

\* How many positions stand up to one of them does not change when a greater one
\* is added, and neither do the positions that were there.
LEMMA NthOfMore ==
    ASSUME NEW set \in SUBSET Int, IsFiniteSet(set), NEW x \in Int, \A n \in set : n < x
    PROVE  /\ IsFiniteSet(set \cup {x})
           /\ Cardinality(set) \in Nat
           /\ Cardinality(set \cup {x}) = Cardinality(set) + 1
           /\ Nth(set \cup {x}, Cardinality(set) + 1) = x
           /\ \A k \in 1 .. Cardinality(set) : Nth(set \cup {x}, k) = Nth(set, k)
<1> DEFINE more == set \cup {x}
           Upto(s, n) == {m \in s : m <= n}
<1>1. x \notin set /\ Cardinality(set) \in Nat
  BY FS_CardinalityType
<1>2. IsFiniteSet(more) /\ Cardinality(more) = Cardinality(set) + 1
  BY <1>1, FS_AddElement
<1>0. \A n \in more : n \in Int /\ n <= x
  OBVIOUS
<1>3. Upto(more, x) = more
  BY <1>0
<1>4. ASSUME NEW n \in set
      PROVE  /\ Upto(more, n) = Upto(set, n)
             /\ Cardinality(Upto(set, n)) <= Cardinality(set)
             /\ Cardinality(Upto(set, n)) \in Nat
  <2>1. Upto(more, n) = Upto(set, n)
    OBVIOUS
  <2>2. Upto(set, n) \in SUBSET set
    OBVIOUS
  <2>. QED BY <2>1, <2>2, FS_Subset, FS_CardinalityType
<1>5. Nth(more, Cardinality(set) + 1) = x
  <2>1. \A n : n \in more /\ Cardinality(Upto(more, n)) = Cardinality(set) + 1 <=> n = x
    <3>1. \A n \in set : Cardinality(Upto(more, n)) # Cardinality(set) + 1
      <4>. HIDE DEF Upto
      <4>. QED BY <1>1, <1>4
    <3>. QED BY <1>2, <1>3, <3>1
  <2>2. (CHOOSE n \in more : Cardinality(Upto(more, n)) = Cardinality(set) + 1) = x
    <3>. HIDE DEF Upto, more
    <3>. QED BY <2>1
  <2>. QED BY <2>2 DEF Nth
<1>6. ASSUME NEW k \in 1 .. Cardinality(set)
      PROVE  Nth(more, k) = Nth(set, k)
  <2>1. \A n : n \in more /\ Cardinality(Upto(more, n)) = k
               <=> n \in set /\ Cardinality(Upto(set, n)) = k
    <3>1. k # Cardinality(more)
      BY <1>1, <1>2
    <3>. HIDE DEF Upto
    <3>. QED BY <1>1, <1>3, <1>4, <3>1
  <2>2. (CHOOSE n \in more : Cardinality(Upto(more, n)) = k)
        = CHOOSE n \in set : Cardinality(Upto(set, n)) = k
    <3>. HIDE DEF Upto, more
    <3>. QED BY <2>1
  <2>. QED BY <2>2 DEF Nth
<1>. QED BY <1>1, <1>2, <1>5, <1>6

\* The positions up to n, which are finite in number.
LEMMA FinitePositions ==
    ASSUME NEW n \in Nat, NEW set \in SUBSET (1 .. n)
    PROVE  /\ IsFiniteSet(set)
           /\ Cardinality(set) \in Nat
           /\ set \in SUBSET Int
<1>1. IsFiniteSet(1 .. n)
  BY FS_Interval
<1>2. IsFiniteSet(set)
  BY <1>1, FS_Subset
<1>. QED BY <1>2, FS_CardinalityType

============================================================================
