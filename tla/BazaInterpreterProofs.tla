----------------------- MODULE BazaInterpreterProofs -----------------------
(***************************************************************************)
(* Proofs about BazaInterpreter, for every value of its constants: that it *)
(* keeps the rules of the storage API, and what that takes.                *)
(***************************************************************************)
EXTENDS BazaInterpreter, BazaStorageProofs, BazaFoldProofs

----------------------------------------------------------------------------
(* The loops over lists, turn by turn.                                     *)

LEMMA PickedTurns ==
    ASSUME NEW V, NEW list \in Seq(V), NEW passing
    PROVE  \E f : /\ f[0] = <<>>
                  /\ \A k \in 1 .. Len(list) : f[k] = IF list[k] \in passing THEN Append(f[k - 1], list[k]) ELSE f[k - 1]
                  /\ Picked(list, passing) = f[Len(list)]
<1> DEFINE n == Len(list)
           Push(l, x) == IF x \in passing THEN Append(l, x) ELSE l
           Graph(it) == it = [s \in SUBSET DOMAIN list |->
                                 IF s = {} THEN <<>> ELSE Push(it[s \ {Max(s)}], list[Max(s)])]
           iter == CHOOSE it : Graph(it)
           Op == [p \in Seq(V) \X (1 .. n) |-> Push(p[1], list[p[2]])]
           f == Along(iter, n)
<1>1. DOMAIN list = 1 .. n /\ n \in Nat
  OBVIOUS
<1>2. Picked(list, passing) = iter[1 .. n]
  BY <1>1 DEF Picked, FoldLeft, MapThenFoldSet
<1>3. Op \in [Seq(V) \X (1 .. n) -> Seq(V)] /\ <<>> \in Seq(V)
  OBVIOUS
<1>4. \E it : Graph(it)
  <2>. HIDE DEF Op
  <2>1. PICK it : IsFold(it, n, Seq(V), <<>>, Op)
    BY <1>1, <1>3, FoldExists
  <2>2. it \in [SUBSET (1 .. n) -> Seq(V)] /\ it[{}] = <<>>
    BY <2>1 DEF IsFold
  <2>3. ASSUME NEW s \in SUBSET (1 .. n), s # {}
        PROVE  it[s] = Push(it[s \ {Max(s)}], list[Max(s)])
    <3>1. Max(s) \in 1 .. n
      BY <2>3, <1>1, GreatestNumber
    <3>2. <<it[s \ {Max(s)}], Max(s)>> \in Seq(V) \X (1 .. n)
      BY <2>2, <3>1
    <3>3. it[s] = Op[<<it[s \ {Max(s)}], Max(s)>>]
      BY <2>1, <2>3 DEF IsFold
    <3>. QED BY <3>2, <3>3 DEF Op
  <2>4. Graph(it)
    BY <1>1, <2>2, <2>3
  <2>. QED BY <2>4, Zenon
<1>5. Graph(iter)
  BY <1>4, Zenon
<1>6. iter[{}] = <<>>
  BY <1>5, Zenon
<1>7. ASSUME NEW k \in 1 .. n
      PROVE  iter[1 .. k] = Push(iter[(1 .. k) \ {Max(1 .. k)}], list[Max(1 .. k)])
  <2>1. 1 .. k \in SUBSET DOMAIN list /\ 1 .. k # {}
    BY <1>1, FirstTurns
  <2>. HIDE DEF iter
  <2>. QED BY <1>5, <2>1
<1>8. TurnsOf(f, iter, n)
  BY <1>1, FoldTurns, Zenon
<1>. HIDE DEF iter, f
<1>9. \A k \in 1 .. n : f[k] = Push(f[k - 1], list[k])
  BY <1>7, <1>8 DEF TurnsOf
<1>. QED BY <1>2, <1>6, <1>8, <1>9 DEF TurnsOf

\* f follows the turns that push each of list that is new, to a result.
PushesNew(f, list, end) ==
    /\ f[0] = <<>>
    /\ \A k \in 1 .. Len(list) : f[k] = PushNew(f[k - 1], list[k])
    /\ end = f[Len(list)]

LEMMA UnionTurns ==
    ASSUME NEW V, NEW left \in Seq(V), NEW right \in Seq(V)
    PROVE  \E list \in Seq(V) : /\ list = left \o right
                               /\ \E f : PushesNew(f, list, IntListUnion(left, right))
<1>. SUFFICES ASSUME NEW list \in Seq(V), list = left \o right
              PROVE  \E f : PushesNew(f, list, IntListUnion(left, right))
  <2>1. left \o right \in Seq(V)
    OBVIOUS
  <2>. QED BY <2>1, Zenon
<1> DEFINE n == Len(list)
           Graph(it) == it = [s \in SUBSET DOMAIN list |->
                                 IF s = {} THEN <<>> ELSE PushNew(it[s \ {Max(s)}], list[Max(s)])]
           iter == CHOOSE it : Graph(it)
           Op == [p \in Seq(V) \X (1 .. n) |-> PushNew(p[1], list[p[2]])]
           f == Along(iter, n)
<1>1. DOMAIN list = 1 .. n /\ n \in Nat
  OBVIOUS
<1>2. IntListUnion(left, right) = iter[1 .. n]
  BY <1>1 DEF IntListUnion, FoldLeft, MapThenFoldSet
<1>3. Op \in [Seq(V) \X (1 .. n) -> Seq(V)] /\ <<>> \in Seq(V)
  BY DEF PushNew
<1>4. \E it : Graph(it)
  <2>. HIDE DEF Op
  <2>1. PICK it : IsFold(it, n, Seq(V), <<>>, Op)
    BY <1>1, <1>3, FoldExists
  <2>2. it \in [SUBSET (1 .. n) -> Seq(V)] /\ it[{}] = <<>>
    BY <2>1 DEF IsFold
  <2>3. ASSUME NEW s \in SUBSET (1 .. n), s # {}
        PROVE  it[s] = PushNew(it[s \ {Max(s)}], list[Max(s)])
    <3>1. Max(s) \in 1 .. n
      BY <2>3, <1>1, GreatestNumber
    <3>2. <<it[s \ {Max(s)}], Max(s)>> \in Seq(V) \X (1 .. n)
      BY <2>2, <3>1
    <3>3. it[s] = Op[<<it[s \ {Max(s)}], Max(s)>>]
      BY <2>1, <2>3 DEF IsFold
    <3>. QED BY <3>2, <3>3 DEF Op
  <2>4. Graph(it)
    BY <1>1, <2>2, <2>3
  <2>. QED BY <2>4, Zenon
<1>5. Graph(iter)
  BY <1>4, Zenon
<1>6. iter[{}] = <<>>
  BY <1>5, Zenon
<1>7. ASSUME NEW k \in 1 .. n
      PROVE  iter[1 .. k] = PushNew(iter[(1 .. k) \ {Max(1 .. k)}], list[Max(1 .. k)])
  <2>1. 1 .. k \in SUBSET DOMAIN list /\ 1 .. k # {}
    BY <1>1, FirstTurns
  <2>. HIDE DEF iter
  <2>. QED BY <1>5, <2>1
<1>8. TurnsOf(f, iter, n)
  BY <1>1, FoldTurns, Zenon
<1>. HIDE DEF iter, f
<1>9. \A k \in 1 .. n : f[k] = PushNew(f[k - 1], list[k])
  BY <1>7, <1>8 DEF TurnsOf
<1>10. PushesNew(f, list, IntListUnion(left, right))
  BY <1>2, <1>6, <1>8, <1>9 DEF TurnsOf, PushesNew
<1>. QED BY <1>10

LEMMA IntersectionTurns ==
    ASSUME NEW V, NEW list \in Seq(V), NEW right
    PROVE  \E f : /\ f[0] = <<>>
                  /\ \A k \in 1 .. Len(list) : f[k] = IF Contains(right, list[k]) THEN PushNew(f[k - 1], list[k]) ELSE f[k - 1]
                  /\ IntListIntersection(list, right) = f[Len(list)]
<1> DEFINE n == Len(list)
           Push(l, x) == IF Contains(right, x) THEN PushNew(l, x) ELSE l
           Graph(it) == it = [s \in SUBSET DOMAIN list |->
                                 IF s = {} THEN <<>> ELSE Push(it[s \ {Max(s)}], list[Max(s)])]
           iter == CHOOSE it : Graph(it)
           Op == [p \in Seq(V) \X (1 .. n) |-> Push(p[1], list[p[2]])]
           f == Along(iter, n)
<1>1. DOMAIN list = 1 .. n /\ n \in Nat
  OBVIOUS
<1>2. IntListIntersection(list, right) = iter[1 .. n]
  BY <1>1 DEF IntListIntersection, FoldLeft, MapThenFoldSet
<1>3. Op \in [Seq(V) \X (1 .. n) -> Seq(V)] /\ <<>> \in Seq(V)
  BY DEF PushNew
<1>4. \E it : Graph(it)
  <2>. HIDE DEF Op
  <2>1. PICK it : IsFold(it, n, Seq(V), <<>>, Op)
    BY <1>1, <1>3, FoldExists
  <2>2. it \in [SUBSET (1 .. n) -> Seq(V)] /\ it[{}] = <<>>
    BY <2>1 DEF IsFold
  <2>3. ASSUME NEW s \in SUBSET (1 .. n), s # {}
        PROVE  it[s] = Push(it[s \ {Max(s)}], list[Max(s)])
    <3>1. Max(s) \in 1 .. n
      BY <2>3, <1>1, GreatestNumber
    <3>2. <<it[s \ {Max(s)}], Max(s)>> \in Seq(V) \X (1 .. n)
      BY <2>2, <3>1
    <3>3. it[s] = Op[<<it[s \ {Max(s)}], Max(s)>>]
      BY <2>1, <2>3 DEF IsFold
    <3>. QED BY <3>2, <3>3 DEF Op
  <2>4. Graph(it)
    BY <1>1, <2>2, <2>3
  <2>. QED BY <2>4, Zenon
<1>5. Graph(iter)
  BY <1>4, Zenon
<1>6. iter[{}] = <<>>
  BY <1>5, Zenon
<1>7. ASSUME NEW k \in 1 .. n
      PROVE  iter[1 .. k] = Push(iter[(1 .. k) \ {Max(1 .. k)}], list[Max(1 .. k)])
  <2>1. 1 .. k \in SUBSET DOMAIN list /\ 1 .. k # {}
    BY <1>1, FirstTurns
  <2>. HIDE DEF iter
  <2>. QED BY <1>5, <2>1
<1>8. TurnsOf(f, iter, n)
  BY <1>1, FoldTurns, Zenon
<1>. HIDE DEF iter, f
<1>9. \A k \in 1 .. n : f[k] = Push(f[k - 1], list[k])
  BY <1>7, <1>8 DEF TurnsOf
<1>. QED BY <1>2, <1>6, <1>8, <1>9 DEF TurnsOf

LEMMA FilterTurns ==
    ASSUME NEW t, NEW X, NEW filters, filters \in Seq(ToSet(filters)),
           [res |-> "RESULT_OK", relation |-> "NONE", held |-> 0, rows |-> <<>>] \in X,
           \A acc \in X, k \in 1 .. Len(filters) : FilterTurn(t, acc, filters[k]) \in X
    PROVE  \E f : /\ f[0] = [res |-> "RESULT_OK", relation |-> "NONE", held |-> 0, rows |-> <<>>]
                  /\ \A k \in 1 .. Len(filters) : f[k] = FilterTurn(t, f[k - 1], filters[k])
                  /\ FilterInterpret(t, filters) = f[Len(filters)]
<1> DEFINE n == Len(filters)
           base == [res |-> "RESULT_OK", relation |-> "NONE", held |-> 0, rows |-> <<>>]
           Graph(it) == it = [s \in SUBSET DOMAIN filters |->
                                 IF s = {} THEN base ELSE FilterTurn(t, it[s \ {Max(s)}], filters[Max(s)])]
           iter == CHOOSE it : Graph(it)
           Op == [p \in X \X (1 .. n) |-> FilterTurn(t, p[1], filters[p[2]])]
           f == Along(iter, n)
<1>1. DOMAIN filters = 1 .. n /\ n \in Nat
  OBVIOUS
<1>2. FilterInterpret(t, filters) = iter[1 .. n]
  BY <1>1 DEF FilterInterpret, FoldLeft, MapThenFoldSet
<1>3. Op \in [X \X (1 .. n) -> X] /\ base \in X
  BY <1>1
<1>4. \E it : Graph(it)
  <2>. HIDE DEF Op, base
  <2>1. PICK it : IsFold(it, n, X, base, Op)
    BY <1>1, <1>3, FoldExists
  <2>2. it \in [SUBSET (1 .. n) -> X] /\ it[{}] = base
    BY <2>1 DEF IsFold
  <2>3. ASSUME NEW s \in SUBSET (1 .. n), s # {}
        PROVE  it[s] = FilterTurn(t, it[s \ {Max(s)}], filters[Max(s)])
    <3>1. Max(s) \in 1 .. n
      BY <2>3, <1>1, GreatestNumber
    <3>2. <<it[s \ {Max(s)}], Max(s)>> \in X \X (1 .. n)
      BY <2>2, <3>1
    <3>3. it[s] = Op[<<it[s \ {Max(s)}], Max(s)>>]
      BY <2>1, <2>3 DEF IsFold
    <3>. QED BY <3>2, <3>3 DEF Op
  <2>4. Graph(it)
    BY <1>1, <2>2, <2>3
  <2>. QED BY <2>4, Zenon
<1>5. Graph(iter)
  BY <1>4, Zenon
<1>6. iter[{}] = base
  BY <1>5, Zenon
<1>7. ASSUME NEW k \in 1 .. n
      PROVE  iter[1 .. k] = FilterTurn(t, iter[(1 .. k) \ {Max(1 .. k)}], filters[Max(1 .. k)])
  <2>1. 1 .. k \in SUBSET DOMAIN filters /\ 1 .. k # {}
    BY <1>1, FirstTurns
  <2>. HIDE DEF iter
  <2>. QED BY <1>5, <2>1
<1>8. TurnsOf(f, iter, n)
  BY <1>1, FoldTurns, Zenon
<1>. HIDE DEF iter, f
<1>9. \A k \in 1 .. n : f[k] = FilterTurn(t, f[k - 1], filters[k])
  BY <1>7, <1>8 DEF TurnsOf
<1>. QED BY <1>2, <1>6, <1>8, <1>9 DEF TurnsOf

----------------------------------------------------------------------------
(* What the lists hold.                                                    *)

LEMMA PickedCollects ==
    ASSUME NEW V, NEW list \in Seq(V), NEW passing
    PROVE  \E f : Collects(f, list) /\ Picked(list, passing) = f[Len(list)]
<1>1. PICK f : /\ f[0] = <<>>
               /\ \A k \in 1 .. Len(list) :
                     f[k] = IF list[k] \in passing THEN Append(f[k - 1], list[k]) ELSE f[k - 1]
               /\ Picked(list, passing) = f[Len(list)]
  BY PickedTurns
<1>2. Collects(f, list)
  BY <1>1 DEF Collects
<1>. QED BY <1>1, <1>2

LEMMA PickedType ==
    ASSUME NEW V, NEW list \in Seq(V), NEW passing
    PROVE  Picked(list, passing) \in Seq(V) /\ Len(Picked(list, passing)) <= Len(list)
<1>1. PICK f : Collects(f, list) /\ Picked(list, passing) = f[Len(list)]
  BY PickedCollects
<1>. QED BY <1>1, CollectedType

LEMMA PickedAscends ==
    ASSUME NEW V \in SUBSET Int, NEW list \in Seq(V), Ascending(list), NEW passing
    PROVE  Ascending(Picked(list, passing))
<1>1. PICK f : Collects(f, list) /\ Picked(list, passing) = f[Len(list)]
  BY PickedCollects
<1>. QED BY <1>1, CollectedAscends

\* A list all of which passes is copied.
LEMMA PickedAll ==
    ASSUME NEW V, NEW list \in Seq(V), NEW passing, \A k \in 1 .. Len(list) : list[k] \in passing
    PROVE  Picked(list, passing) = list
<1>1. PICK f : /\ f[0] = <<>>
               /\ \A k \in 1 .. Len(list) :
                     f[k] = IF list[k] \in passing THEN Append(f[k - 1], list[k]) ELSE f[k - 1]
               /\ Picked(list, passing) = f[Len(list)]
  BY PickedTurns
<1> DEFINE n == Len(list)
           S == {k \in 0 .. n : /\ f[k] \in Seq(V)
                                /\ Len(f[k]) = k
                                /\ \A i \in 1 .. k : f[k][i] = list[i]}
<1>2. n \in Nat /\ \A k \in 1 .. n : list[k] \in V
  OBVIOUS
<1>3. 0 \in S
  <2>1. f[0] \in Seq(V) /\ Len(f[0]) = 0
    BY <1>1
  <2>. QED BY <1>2, <2>1
<1>4. ASSUME NEW k \in 1 .. n, k - 1 \in S PROVE k \in S
  <2> DEFINE l == f[k - 1]
             m == Append(l, list[k])
  <2>1. /\ l \in Seq(V) /\ Len(l) = k - 1 /\ list[k] \in V
        /\ \A i \in 1 .. (k - 1) : l[i] = list[i]
    BY <1>2, <1>4
  <2>2. f[k] = m
    BY <1>1
  <2>3. /\ m \in Seq(V)
        /\ Len(m) = Len(l) + 1
        /\ \A i \in DOMAIN l : i \in 1 .. Len(l) /\ m[i] = l[i]
        /\ m[Len(l) + 1] = list[k]
        /\ DOMAIN l = 1 .. Len(l)
    BY <2>1, AppendedAt
  <2>. HIDE DEF l, m
  <2>4. Len(m) = k /\ m[k] = list[k]
    BY <2>1, <2>3
  <2>5. \A i \in 1 .. k : m[i] = list[i]
    BY <2>1, <2>3, <2>4
  <2>6. k \in 0 .. n
    OBVIOUS
  <2>. QED BY <2>2, <2>3, <2>4, <2>5, <2>6
<1>5. n \in S
  <2>. HIDE DEF S, n
  <2>1. Inductive(S, n)
    BY <1>3, <1>4 DEF Inductive
  <2>. QED BY <1>2, <2>1, UpTo
<1>. QED BY <1>1, <1>2, <1>5

LEMMA UnionFacts ==
    ASSUME NEW V, NEW left \in Seq(V), NEW right \in Seq(V)
    PROVE  IntListUnion(left, right) \in Seq(V) /\ Distinct(IntListUnion(left, right))
<1>1. PICK list \in Seq(V) : \E f : PushesNew(f, list, IntListUnion(left, right))
  BY UnionTurns
<1>2. PICK f : PushesNew(f, list, IntListUnion(left, right))
  BY <1>1
<1>3. /\ f[0] = <<>>
      /\ \A k \in 1 .. Len(list) : f[k] = PushNew(f[k - 1], list[k])
      /\ IntListUnion(left, right) = f[Len(list)]
  BY <1>2 DEF PushesNew
<1>4. Collects(f, list)
  BY <1>3 DEF Collects, PushNew
<1>5. \A k \in 1 .. Len(list) :
         \/ f[k] = f[k - 1]
         \/ f[k] = Append(f[k - 1], list[k]) /\ ~Contains(f[k - 1], list[k])
  BY <1>3 DEF PushNew
<1>. QED BY <1>3, <1>4, <1>5, CollectedType, CollectedOnce

LEMMA IntersectionFacts ==
    ASSUME NEW V \in SUBSET Int, NEW left \in Seq(V), NEW right
    PROVE  /\ IntListIntersection(left, right) \in Seq(V)
           /\ Distinct(IntListIntersection(left, right))
           /\ Ascending(left) => Ascending(IntListIntersection(left, right))
<1>1. PICK f : /\ f[0] = <<>>
               /\ \A k \in 1 .. Len(left) :
                     f[k] = IF Contains(right, left[k]) THEN PushNew(f[k - 1], left[k])
                                                        ELSE f[k - 1]
               /\ IntListIntersection(left, right) = f[Len(left)]
  BY IntersectionTurns
<1>2. Collects(f, left)
  BY <1>1 DEF Collects, PushNew
<1>3. \A k \in 1 .. Len(left) :
         \/ f[k] = f[k - 1]
         \/ f[k] = Append(f[k - 1], left[k]) /\ ~Contains(f[k - 1], left[k])
  BY <1>1 DEF PushNew
<1>. QED BY <1>1, <1>2, <1>3, CollectedType, CollectedOnce, CollectedAscends

\* What the lists hold, as sets.
LEMMA PickedSet ==
    ASSUME NEW V, NEW list \in Seq(V), NEW passing
    PROVE  ToSet(Picked(list, passing)) = ToSet(list) \cap passing
<1> DEFINE picks == {k \in 1 .. Len(list) : list[k] \in passing}
<1>1. PICK f : /\ f[0] = <<>>
               /\ \A k \in 1 .. Len(list) :
                     f[k] = IF list[k] \in passing THEN Append(f[k - 1], list[k]) ELSE f[k - 1]
               /\ Picked(list, passing) = f[Len(list)]
  BY PickedTurns
<1>2. CollectsThose(f, list, picks)
  BY <1>1 DEF CollectsThose
<1>3. Gathers(Picked(list, passing), list, picks)
  <2>. HIDE DEF picks
  <2>. QED BY <1>1, <1>2, CollectedSet
<1>4. DOMAIN list = 1 .. Len(list)
  OBVIOUS
<1>. QED BY <1>3, <1>4 DEF ToSet, Gathers

LEMMA PushedSet ==
    ASSUME NEW V, NEW l \in Seq(V), NEW x
    PROVE  Contains(l, x) <=> x \in ToSet(l)
BY DEF Contains, ToSet

LEMMA UnionSet ==
    ASSUME NEW V, NEW left \in Seq(V), NEW right \in Seq(V)
    PROVE  ToSet(IntListUnion(left, right)) = ToSet(left) \cup ToSet(right)
<1>1. PICK list \in Seq(V) : /\ list = left \o right
                             /\ \E f : PushesNew(f, list, IntListUnion(left, right))
  BY UnionTurns
<1>2. PICK f : PushesNew(f, list, IntListUnion(left, right))
  BY <1>1
<1>3. /\ f[0] = <<>>
      /\ \A k \in 1 .. Len(list) : f[k] = PushNew(f[k - 1], list[k])
      /\ IntListUnion(left, right) = f[Len(list)]
  BY <1>2 DEF PushesNew
<1>4. CollectsThose(f, list, 1 .. Len(list))
  BY <1>3 DEF CollectsThose, PushNew
<1>5. Gathers(IntListUnion(left, right), list, 1 .. Len(list))
  BY <1>3, <1>4, CollectedSet
<1>6. ToSet(IntListUnion(left, right)) = {list[j] : j \in 1 .. Len(list)}
  BY <1>5 DEF Gathers
<1>7. /\ Len(list) = Len(left) + Len(right)
      /\ \A j \in 1 .. Len(left) : list[j] = left[j]
      /\ \A j \in 1 .. Len(right) : list[Len(left) + j] = right[j]
      /\ Len(left) \in Nat /\ Len(right) \in Nat
      /\ DOMAIN left = 1 .. Len(left) /\ DOMAIN right = 1 .. Len(right)
  BY <1>1
<1>8. ASSUME NEW j \in 1 .. Len(list) PROVE list[j] \in ToSet(left) \cup ToSet(right)
  <2>1. CASE j <= Len(left)
    BY <1>7, <2>1 DEF ToSet
  <2>2. CASE j > Len(left)
    <3>1. j - Len(left) \in 1 .. Len(right) /\ j = Len(left) + (j - Len(left))
      BY <1>7, <2>2
    <3>2. list[j] = right[j - Len(left)]
      BY <1>7, <3>1
    <3>. QED BY <1>7, <3>1, <3>2 DEF ToSet
  <2>. QED BY <1>7, <2>1, <2>2
<1>9. ASSUME NEW i \in DOMAIN left PROVE \E j \in 1 .. Len(list) : list[j] = left[i]
  BY <1>7
<1>10. ASSUME NEW i \in DOMAIN right PROVE \E j \in 1 .. Len(list) : list[j] = right[i]
  <2>1. Len(left) + i \in 1 .. Len(list)
    BY <1>7
  <2>. QED BY <1>7, <2>1
<1>11. ToSet(left) \in SUBSET ToSet(IntListUnion(left, right))
  BY <1>6, <1>9 DEF ToSet
<1>12. ToSet(right) \in SUBSET ToSet(IntListUnion(left, right))
  BY <1>6, <1>10 DEF ToSet
<1>13. ToSet(IntListUnion(left, right)) \in SUBSET (ToSet(left) \cup ToSet(right))
  BY <1>6, <1>8
<1>. QED BY <1>11, <1>12, <1>13

LEMMA IntersectionSet ==
    ASSUME NEW V, NEW left \in Seq(V), NEW right \in Seq(V)
    PROVE  ToSet(IntListIntersection(left, right)) = ToSet(left) \cap ToSet(right)
<1> DEFINE picks == {k \in 1 .. Len(left) : Contains(right, left[k])}
<1>1. PICK f : /\ f[0] = <<>>
               /\ \A k \in 1 .. Len(left) :
                     f[k] = IF Contains(right, left[k]) THEN PushNew(f[k - 1], left[k])
                                                        ELSE f[k - 1]
               /\ IntListIntersection(left, right) = f[Len(left)]
  BY IntersectionTurns
<1>2. CollectsThose(f, left, picks)
  BY <1>1 DEF PushNew, CollectsThose
<1>3. Gathers(IntListIntersection(left, right), left, picks)
  <2>. HIDE DEF picks
  <2>. QED BY <1>1, <1>2, CollectedSet
<1>4. DOMAIN left = 1 .. Len(left) /\ \A k \in DOMAIN left : k \in picks <=> left[k] \in ToSet(right)
  BY PushedSet
<1>. QED BY <1>3, <1>4 DEF ToSet, Gathers

LEMMA CombineSet ==
    ASSUME NEW V, NEW left \in Seq(V), NEW right \in Seq(V)
    PROVE  /\ ToSet(Combine("NONE", left, right)) = ToSet(right)
           /\ ToSet(Combine("AND", left, right)) = ToSet(left) \cap ToSet(right)
           /\ ToSet(Combine("OR", left, right)) = ToSet(left) \cup ToSet(right)
<1>1. Combine("NONE", left, right) = right
  BY DEF Combine
<1>2. Combine("AND", left, right) = IntListIntersection(left, right)
  BY DEF Combine
<1>3. Combine("OR", left, right) = IntListUnion(left, right)
  BY DEF Combine
<1>. QED BY <1>1, <1>2, <1>3, UnionSet, IntersectionSet

LEMMA CombineFacts ==
    ASSUME NEW V \in SUBSET Int, NEW left \in Seq(V), NEW right \in Seq(V), Distinct(right),
           NEW relation \in {"NONE", "AND", "OR"}
    PROVE  /\ Combine(relation, left, right) \in Seq(V)
           /\ Distinct(Combine(relation, left, right))
           /\ relation # "OR" /\ Ascending(left) /\ Ascending(right) =>
                 Ascending(Combine(relation, left, right))
<1>1. CASE relation = "NONE"
  BY <1>1 DEF Combine
<1>2. CASE relation = "AND"
  <2>1. Combine(relation, left, right) = IntListIntersection(left, right)
    BY <1>2 DEF Combine
  <2>. QED BY <2>1, IntersectionFacts
<1>3. CASE relation = "OR"
  <2>1. Combine(relation, left, right) = IntListUnion(left, right)
    BY <1>3 DEF Combine
  <2>. QED BY <1>3, <2>1, UnionFacts
<1>. QED BY <1>1, <1>2, <1>3

\* The numbers of the rows a table has, in ascending order: as many as there
\* can be.
LEMMA AscendingIsShort ==
    ASSUME NEW n \in Nat, NEW l \in Seq(Slots(n)), Ascending(l)
    PROVE  Len(l) <= n
<1> DEFINE m == Len(l)
           S == {k \in 0 .. m : k > 0 => l[k] >= k - 1}
<1>1. m \in Nat /\ DOMAIN l = 1 .. m /\ \A k \in 1 .. m : l[k] \in Slots(n)
  OBVIOUS
<1>. HIDE DEF m
<1>2. 0 \in S
  BY <1>1
<1>3. ASSUME NEW k \in 1 .. m, k - 1 \in S PROVE k \in S
  <2>1. CASE k = 1
    BY <1>1, <2>1 DEF Slots
  <2>2. CASE k > 1
    <3>1. k - 1 \in 1 .. m /\ k - 1 < k
      BY <1>1, <2>2
    <3>2. l[k - 1] < l[k]
      BY <1>1, <3>1 DEF Ascending
    <3>3. l[k - 1] \in Int /\ l[k] \in Int
      BY <1>1, <3>1 DEF Slots
    <3>. QED BY <1>1, <1>3, <2>2, <3>1, <3>2, <3>3
  <2>. QED BY <2>1, <2>2
<1>4. m \in S
  <2>. HIDE DEF S
  <2>1. Inductive(S, m)
    BY <1>2, <1>3 DEF Inductive
  <2>. QED BY <1>1, <2>1, UpTo
<1>. QED BY <1>1, <1>4 DEF Slots, m

LEMMA RowIdsFacts ==
    ASSUME NEW t, tables[t].row_count \in Nat
    PROVE  /\ RowIds(t) \in Seq(Slots(tables[t].row_count))
           /\ Ascending(RowIds(t))
           /\ Len(RowIds(t)) = tables[t].row_count
           /\ Distinct(RowIds(t))
<1> DEFINE n == tables[t].row_count
<1>1. RowIds(t) \in [1 .. n -> Slots(n)]
  BY DEF RowIds, Slots
<1>2. RowIds(t) \in Seq(Slots(n)) /\ Len(RowIds(t)) = n
  BY <1>1, FunctionSeq
<1>. QED BY <1>2 DEF RowIds, Ascending, Distinct

LEMMA TableFindFacts ==
    ASSUME NEW t, tables[t].row_count \in Nat, NEW c, NEW f
    PROVE  /\ TableFind(t, c, f) \in Seq(Slots(tables[t].row_count))
           /\ Ascending(TableFind(t, c, f))
           /\ Distinct(TableFind(t, c, f))
<1> DEFINE V == Slots(tables[t].row_count)
           found == {r \in V : FilterHolds(f.op, TypeOf(t, c), ValueAt(t, r, c), f.value)}
<1>1. TableFind(t, c, f) = Picked(RowIds(t), found)
  BY DEF TableFind
<1>2. V \in SUBSET Int
  BY DEF Slots
<1>. HIDE DEF V, found
<1>3. RowIds(t) \in Seq(V) /\ Ascending(RowIds(t))
  BY RowIdsFacts DEF V
<1>4. TableFind(t, c, f) \in Seq(V) /\ Ascending(TableFind(t, c, f))
  BY <1>1, <1>2, <1>3, PickedType, PickedAscends
<1>5. TableFind(t, c, f) \in Seq(Int)
  BY <1>2, <1>4, SeqMonotonic
<1>. QED BY <1>4, <1>5, AscendingIsDistinct DEF V

----------------------------------------------------------------------------
(* What a filter, a list of columns and a list of cells designate.         *)

\* A query all of whose relations are AND, and one with an unknown operator.
NoOr(filters) == \A i \in DOMAIN filters : filters[i].next_relation # "OR"
UnknownOperator(filters) == \E i \in DOMAIN filters : filters[i].op \notin FilterFunctions

\* What filter_interpret can have found so far.
Found(n, noOr, unknown) ==
    {acc \in [res : {"RESULT_OK", "RESULT_COLUMN_NOT_FOUND", "RESULT_FILTER_VALUE_TYPE", "SIGSEGV"},
              relation : {"NONE", "AND", "OR"}, held : Nat, rows : Seq(Slots(n))] :
        /\ Distinct(acc.rows)
        /\ noOr => acc.relation # "OR" /\ Ascending(acc.rows)
        /\ acc.res = "SIGSEGV" => unknown}

LEMMA FilterTurnFacts ==
    ASSUME NEW t, NEW n \in Nat, tables[t].row_count = n, NEW noOr, NEW unknown,
           NEW acc \in Found(n, noOr, unknown), NEW f, f.next_relation \in {"NONE", "AND", "OR"},
           noOr => f.next_relation # "OR", f.op \notin FilterFunctions => unknown
    PROVE  FilterTurn(t, acc, f) \in Found(n, noOr, unknown)
<1> DEFINE named == ColumnsNamed(tables[t], f.column)
           c == CHOOSE c \in named : IsFirst(c, named)
<1>1. CASE acc.res # "RESULT_OK"
  BY <1>1 DEF FilterTurn
<1>2. CASE acc.res = "RESULT_OK" /\ named = {}
  <2>1. FilterTurn(t, acc, f) = [acc EXCEPT !.res = "RESULT_COLUMN_NOT_FOUND"]
    BY <1>2 DEF FilterTurn
  <2>. QED BY <2>1 DEF Found
<1>3. CASE acc.res = "RESULT_OK" /\ named # {}
  <2> DEFINE rows == Combine(acc.relation, acc.rows, TableFind(t, c, f))
  <2>1. \/ FilterTurn(t, acc, f) = [acc EXCEPT !.res = "RESULT_FILTER_VALUE_TYPE",
                                              !.held = HeldWithoutRows(acc.held)]
        \/ /\ FilterTurn(t, acc, f) = [acc EXCEPT !.res = "SIGSEGV"]
           /\ f.op \notin FilterFunctions
        \/ FilterTurn(t, acc, f) = [res |-> "RESULT_OK", relation |-> f.next_relation,
                                    held |-> HeldWithMore(acc.relation, acc.held), rows |-> rows]
    BY <1>3 DEF FilterTurn
  <2>2. /\ acc.relation \in {"NONE", "AND", "OR"} /\ acc.rows \in Seq(Slots(n))
        /\ noOr => acc.relation # "OR" /\ Ascending(acc.rows)
    BY DEF Found
  <2>3. /\ TableFind(t, c, f) \in Seq(Slots(n))
        /\ Ascending(TableFind(t, c, f)) /\ Distinct(TableFind(t, c, f))
    BY TableFindFacts
  <2>4. Slots(n) \in SUBSET Int
    BY DEF Slots
  <2>. HIDE DEF named, c
  <2>5. rows \in Seq(Slots(n)) /\ Distinct(rows) /\ (noOr => Ascending(rows))
    BY <2>2, <2>3, <2>4, CombineFacts
  <2>. HIDE DEF rows
  <2>6. CASE FilterTurn(t, acc, f)
                = [acc EXCEPT !.res = "RESULT_FILTER_VALUE_TYPE",
                              !.held = HeldWithoutRows(acc.held)]
    <3>1. HeldWithoutRows(acc.held) \in Nat
      BY DEF Found, HeldWithoutRows
    <3>. QED BY <2>6, <3>1 DEF Found
  <2>7. CASE FilterTurn(t, acc, f) = [acc EXCEPT !.res = "SIGSEGV"] /\ f.op \notin FilterFunctions
    BY <2>7 DEF Found
  <2>8. CASE FilterTurn(t, acc, f) = [res |-> "RESULT_OK", relation |-> f.next_relation,
                                      held |-> HeldWithMore(acc.relation, acc.held), rows |-> rows]
    BY <2>5, <2>8 DEF Found, HeldWithMore
  <2>. QED BY <2>1, <2>6, <2>7, <2>8
<1>. QED BY <1>1, <1>2, <1>3

\* What the lists of rows come to when k filters have been evaluated: one, if
\* each is joined to the next.
HeldAfter(filters, k, acc) ==
    /\ acc.res = "RESULT_OK" =>
          /\ k = 0 => acc.held = 0 /\ acc.relation = "NONE"
          /\ k > 0 => acc.held >= 1 /\ acc.relation = filters[k].next_relation
          /\ k > 0 /\ AllJoined(filters) => acc.held = 1
    /\ acc.res = "RESULT_FILTER_VALUE_TYPE" /\ AllJoined(filters) => acc.held = 0
    /\ acc.res = "RESULT_COLUMN_NOT_FOUND" /\ acc.held # 0 => Len(filters) > 1

LEMMA HeldTurn ==
    ASSUME NEW t, NEW filters, filters \in Seq(ToSet(filters)), NEW k \in 1 .. Len(filters),
           NEW n, NEW noOr, NEW unknown, NEW acc \in Found(n, noOr, unknown),
           HeldAfter(filters, k - 1, acc)
    PROVE  HeldAfter(filters, k, FilterTurn(t, acc, filters[k]))
<1>. SUFFICES ASSUME NEW f, f = filters[k] PROVE HeldAfter(filters, k, FilterTurn(t, acc, f))
  OBVIOUS
<1> DEFINE named == ColumnsNamed(tables[t], f.column)
           c == CHOOSE c \in named : IsFirst(c, named)
           rows == Combine(acc.relation, acc.rows, TableFind(t, c, f))
<1>1. /\ Len(filters) \in Nat /\ DOMAIN filters = 1 .. Len(filters) /\ k \in Nat \ {0}
      /\ k <= Len(filters)
  OBVIOUS
<1>2. acc = [res |-> acc.res, relation |-> acc.relation, held |-> acc.held, rows |-> acc.rows]
      /\ acc.held \in Nat
  BY DEF Found
<1>3. \/ acc.res # "RESULT_OK" /\ FilterTurn(t, acc, f) = acc
      \/ /\ acc.res = "RESULT_OK"
         /\ FilterTurn(t, acc, f) \in
                {[acc EXCEPT !.res = "RESULT_COLUMN_NOT_FOUND"],
                 [acc EXCEPT !.res = "RESULT_FILTER_VALUE_TYPE",
                             !.held = HeldWithoutRows(acc.held)],
                 [acc EXCEPT !.res = "SIGSEGV"],
                 [res |-> "RESULT_OK", relation |-> f.next_relation,
                  held |-> HeldWithMore(acc.relation, acc.held), rows |-> rows]}
  BY DEF FilterTurn
<1>. HIDE DEF named, c, rows
<1>4. acc.res = "RESULT_OK" =>
         \/ k = 1 /\ acc.held = 0 /\ acc.relation = "NONE"
         \/ /\ k > 1 /\ acc.held >= 1 /\ acc.relation = filters[k - 1].next_relation
            /\ AllJoined(filters) => acc.held = 1 /\ acc.relation # "NONE"
  BY <1>1 DEF HeldAfter, AllJoined
<1>5. CASE acc.res # "RESULT_OK" /\ FilterTurn(t, acc, f) = acc
  BY <1>5 DEF HeldAfter
<1>6. CASE acc.res = "RESULT_OK" /\ FilterTurn(t, acc, f) = [acc EXCEPT !.res = "RESULT_COLUMN_NOT_FOUND"]
  BY <1>1, <1>2, <1>4, <1>6 DEF HeldAfter
<1>7. CASE /\ acc.res = "RESULT_OK"
           /\ FilterTurn(t, acc, f) = [acc EXCEPT !.res = "RESULT_FILTER_VALUE_TYPE",
                                                  !.held = HeldWithoutRows(acc.held)]
  BY <1>1, <1>2, <1>4, <1>7 DEF HeldAfter, HeldWithoutRows
<1>8. CASE acc.res = "RESULT_OK" /\ FilterTurn(t, acc, f) = [acc EXCEPT !.res = "SIGSEGV"]
  BY <1>2, <1>8 DEF HeldAfter
<1>9. CASE /\ acc.res = "RESULT_OK"
           /\ FilterTurn(t, acc, f) = [res |-> "RESULT_OK", relation |-> f.next_relation,
                                       held |-> HeldWithMore(acc.relation, acc.held),
                                       rows |-> rows]
  BY <1>1, <1>2, <1>4, <1>9 DEF HeldAfter, HeldWithMore
<1>. QED BY <1>3, <1>5, <1>6, <1>7, <1>8, <1>9

\* The rows filter_interpret returns are rows of the table, each once; they
\* are in ascending order unless an OR joins two filters.
LEMMA FilterFacts ==
    ASSUME NEW t, NEW n \in Nat, tables[t].row_count = n, NEW filters,
           filters \in Seq(ToSet(filters)),
           \A i \in DOMAIN filters : filters[i].next_relation \in {"NONE", "AND", "OR"}
    PROVE  /\ FilterInterpret(t, filters) \in Found(n, NoOr(filters), UnknownOperator(filters))
           /\ HeldAfter(filters, Len(filters), FilterInterpret(t, filters))
<1> DEFINE X == Found(n, NoOr(filters), UnknownOperator(filters))
           base == [res |-> "RESULT_OK", relation |-> "NONE", held |-> 0, rows |-> <<>>]
           m == Len(filters)
<1>1. m \in Nat /\ DOMAIN filters = 1 .. m
  OBVIOUS
<1>2. base \in X /\ HeldAfter(filters, 0, base)
  BY DEF Found, Distinct, Ascending, HeldAfter
<1>. HIDE DEF m
<1>3. ASSUME NEW acc \in X, NEW k \in 1 .. m
      PROVE  FilterTurn(t, acc, filters[k]) \in X
  <2>1. /\ filters[k].next_relation \in {"NONE", "AND", "OR"}
        /\ NoOr(filters) => filters[k].next_relation # "OR"
        /\ filters[k].op \notin FilterFunctions => UnknownOperator(filters)
    BY <1>1 DEF NoOr, UnknownOperator
  <2>2. acc \in Found(n, NoOr(filters), UnknownOperator(filters))
    BY <1>3
  <2>3. SUFFICES ASSUME NEW noOr, NEW unknown, NEW turned,
                        noOr = NoOr(filters), unknown = UnknownOperator(filters),
                        turned = filters[k]
                 PROVE  FilterTurn(t, acc, turned) \in Found(n, noOr, unknown)
    OBVIOUS
  <2>4. /\ acc \in Found(n, noOr, unknown)
        /\ turned.next_relation \in {"NONE", "AND", "OR"}
        /\ noOr => turned.next_relation # "OR"
        /\ turned.op \notin FilterFunctions => unknown
    BY <2>1, <2>2, <2>3
  <2>. HIDE DEF X
  <2>. QED BY <2>4, FilterTurnFacts
<1>6. ASSUME NEW acc \in X, NEW k \in 1 .. m, HeldAfter(filters, k - 1, acc)
      PROVE  HeldAfter(filters, k, FilterTurn(t, acc, filters[k]))
  BY <1>6, HeldTurn DEF m
<1>. HIDE DEF X
<1>4. PICK f : /\ f[0] = base
               /\ \A k \in 1 .. m : f[k] = FilterTurn(t, f[k - 1], filters[k])
               /\ FilterInterpret(t, filters) = f[m]
  BY <1>2, <1>3, FilterTurns DEF m
<1> DEFINE S == {k \in 0 .. m : f[k] \in X /\ HeldAfter(filters, k, f[k])}
<1>5. m \in S
  <2>1. 0 \in S
    BY <1>1, <1>2, <1>4
  <2>2. ASSUME NEW k \in 1 .. m, k - 1 \in S PROVE k \in S
    BY <1>1, <1>3, <1>4, <1>6, <2>2
  <2>. HIDE DEF S
  <2>3. Inductive(S, m)
    BY <2>1, <2>2 DEF Inductive
  <2>. QED BY <1>1, <2>3, UpTo
<1>. QED BY <1>4, <1>5 DEF X, m

LEMMA PickedNone ==
    ASSUME NEW V, NEW list \in Seq(V)
    PROVE  Picked(list, {}) = <<>>
<1>1. PICK f : /\ f[0] = <<>>
               /\ \A k \in 1 .. Len(list) :
                     f[k] = IF list[k] \in {} THEN Append(f[k - 1], list[k]) ELSE f[k - 1]
               /\ Picked(list, {}) = f[Len(list)]
  BY PickedTurns
<1> DEFINE n == Len(list)
           S == {k \in 0 .. n : f[k] = <<>>}
<1>2. n \in Nat
  OBVIOUS
<1>3. n \in S
  <2>1. 0 \in S
    BY <1>1, <1>2
  <2>2. ASSUME NEW k \in 1 .. n, k - 1 \in S PROVE k \in S
    BY <1>1, <1>2, <2>2
  <2>. HIDE DEF S, n
  <2>3. Inductive(S, n)
    BY <2>1, <2>2 DEF Inductive
  <2>. QED BY <1>2, <2>3, UpTo
<1>. QED BY <1>1, <1>3

\* The listed columns are columns of the table; SELECT * and INSERT get all of
\* them in order, and an empty list none.
LEMMA ColumnListFacts ==
    ASSUME TypeInv, NEW t \in DOMAIN tables
    PROVE  /\ \A list : TableColumnGetList(t, list) \in Seq(Columns(t))
           /\ TableColumnGetList(t, NoList) = [c \in Columns(t) |-> c]
           /\ Len(TableColumnGetList(t, NoList)) = Len(tables[t].columns)
           /\ TableColumnGetList(t, <<>>) = <<>>
<1> DEFINE all == [c \in Columns(t) |-> c]
           listed(list) == {c \in Columns(t) :
                               list = NoList \/ Contains(list, tables[t].columns[c].name)}
           n == Len(tables[t].columns)
<1>1. tables[t].columns \in Seq(ColumnType(tables[t].row_capacity))
  BY TableFacts DEF TableType
<1>2. n \in Nat /\ Columns(t) = 1 .. n
  BY <1>1 DEF Columns
<1>. HIDE DEF n
<1>3. all \in [1 .. n -> Columns(t)]
  BY <1>2
<1>4. all \in Seq(Columns(t)) /\ Len(all) = n
  BY <1>2, <1>3, FunctionSeq
<1>5. \A list : TableColumnGetList(t, list) = Picked(all, listed(list))
  BY DEF TableColumnGetList
<1>6. \A k \in 1 .. Len(all) : all[k] \in listed(NoList)
  BY <1>2, <1>4
<1>7. listed(<<>>) = {}
  BY InterpreterAssumption DEF Contains
<1>8. Picked(all, {}) = <<>>
  BY <1>4, PickedNone
<1>. HIDE DEF all, listed
<1>9. Picked(all, listed(NoList)) = all
  BY <1>4, <1>6, PickedAll
<1>10. \A list : Picked(all, listed(list)) \in Seq(Columns(t))
  BY <1>4, PickedType
<1>11. \A list : TableColumnGetList(t, list) \in Seq(Columns(t))
  BY <1>5, <1>10
<1>12. TableColumnGetList(t, NoList) = all
  BY <1>5, <1>9
<1>13. TableColumnGetList(t, <<>>) = <<>>
  BY <1>5, <1>7, <1>8
<1>14. Len(TableColumnGetList(t, NoList)) = n
  BY <1>4, <1>12
<1>. QED BY <1>11, <1>12, <1>13, <1>14 DEF all, n

LEMMA Division ==
    ASSUME NEW a \in Nat, NEW b \in Nat \ {0}
    PROVE  a \div b \in Nat /\ a % b \in 0 .. b - 1 /\ a = b * (a \div b) + (a % b)
<1>. SUFFICES ASSUME NEW q, q = a \div b, NEW r, r = a % b
              PROVE  q \in Nat /\ r \in 0 .. b - 1 /\ a = b * q + r
  OBVIOUS
<1>1. q \in Int /\ r \in 0 .. b - 1
  OBVIOUS
<1>2. a = b * q + r
  OBVIOUS
<1>3. ASSUME q < 0 PROVE FALSE
  <2>1. PICK d \in Nat : q = -1 - d
    BY <1>1, <1>3
  <2>2. b * q = -b - b * d /\ b * d \in Nat
    BY <2>1
  <2>. QED BY <1>1, <1>2, <2>2
<1>. QED BY <1>1, <1>2, <1>3

LEMMA RemainderBelow ==
    ASSUME NEW a \in Nat, NEW b \in Nat \ {0}
    PROVE  a % b <= a
<1>1. a \div b \in Nat /\ a % b \in 0 .. b - 1 /\ a = b * (a \div b) + (a % b)
  BY Division
<1>2. PICK q \in Nat, r \in Nat : q = a \div b /\ r = a % b /\ a = b * q + r
  BY <1>1
<1>3. b * q \in Nat
  OBVIOUS
<1>4. r <= a
  BY <1>2, <1>3
<1>. QED BY <1>2, <1>4

LEMMA DivisionBelow ==
    ASSUME NEW a \in Nat, NEW b \in Nat \ {0}, NEW l \in Nat, a < l * b
    PROVE  a \div b \in 0 .. l - 1
<1>1. PICK q \in Nat, r \in Nat : q = a \div b /\ a = b * q + r
  BY Division
<1>2. ASSUME q >= l PROVE FALSE
  <2>1. PICK d \in Nat : q = l + d
    BY <1>1, <1>2
  <2>2. b * q = l * b + b * d /\ b * d \in Nat /\ l * b \in Nat
    BY <2>1
  <2>. QED BY <1>1, <2>2
<1>. QED BY <1>1, <1>2

\* UPDATE visits, for every row found, every column listed, each pair once.
LEMMA CellsFacts ==
    ASSUME NEW n \in Nat, NEW rows \in Seq(Slots(n)), NEW V, NEW columns \in Seq(V)
    PROVE  /\ CellsOf(rows, columns) \in Seq([row : Slots(n), nth : DOMAIN columns])
           /\ Distinct(rows) => Distinct(CellsOf(rows, columns))
<1> DEFINE l == Len(rows)
           m == Len(columns)
           Div(k) == (k - 1) \div m
           Mod(k) == (k - 1) % m
           cells == [k \in 1 .. l * m |-> [row |-> rows[Div(k) + 1], nth |-> Mod(k) + 1]]
<1>1. /\ l \in Nat /\ DOMAIN rows = 1 .. l /\ \A i \in 1 .. l : rows[i] \in Slots(n)
      /\ m \in Nat /\ DOMAIN columns = 1 .. m
  OBVIOUS
<1>2. CellsOf(rows, columns) = cells
  BY DEF CellsOf
<1>. HIDE DEF l, m
<1>3. l * m \in Nat
  BY <1>1
<1>4. ASSUME NEW k \in 1 .. l * m
      PROVE  /\ Div(k) + 1 \in 1 .. l /\ Mod(k) + 1 \in 1 .. m
             /\ k = m * Div(k) + Mod(k) + 1
  <2>1. m # 0
    BY <1>1
  <2>2. k - 1 \in Nat /\ k - 1 < l * m
    BY <1>3
  <2>3. Div(k) \in 0 .. l - 1 /\ Mod(k) \in 0 .. m - 1 /\ k - 1 = m * Div(k) + Mod(k)
    BY <1>1, <2>1, <2>2, Division, DivisionBelow
  <2>. HIDE DEF Div, Mod
  <2>4. m * Div(k) \in Int
    BY <1>1, <2>3
  <2>5. Div(k) + 1 \in 1 .. l
    BY <1>1, <2>3
  <2>6. Mod(k) + 1 \in 1 .. m
    BY <1>1, <2>3
  <2>7. Mod(k) \in Int /\ k \in Int
    BY <1>1, <2>3
  <2>. QED BY <2>3, <2>4, <2>5, <2>6, <2>7
<1>. HIDE DEF Div, Mod
<1>5. cells \in [1 .. l * m -> [row : Slots(n), nth : DOMAIN columns]]
  BY <1>1, <1>4
<1>6. cells \in Seq([row : Slots(n), nth : DOMAIN columns]) /\ DOMAIN cells = 1 .. l * m
  BY <1>3, <1>5, FunctionSeq
<1>7. ASSUME Distinct(rows), NEW i \in 1 .. l * m, NEW j \in 1 .. l * m, cells[i] = cells[j]
      PROVE  i = j
  <2>1. rows[Div(i) + 1] = rows[Div(j) + 1] /\ Mod(i) + 1 = Mod(j) + 1
    BY <1>7
  <2>2. Div(i) + 1 = Div(j) + 1
    BY <1>1, <1>4, <1>7, <2>1 DEF Distinct
  <2>3. Div(i) \in Int /\ Div(j) \in Int /\ Mod(i) \in Int /\ Mod(j) \in Int
    BY <1>1 DEF Div, Mod
  <2>4. Div(i) = Div(j) /\ Mod(i) = Mod(j)
    BY <2>1, <2>2, <2>3
  <2>. QED BY <1>4, <2>4
<1>. QED BY <1>2, <1>6, <1>7 DEF Distinct

\* A conversion leaves in a slot what a slot of its type can hold.
LEMMA SignedRange ==
    ASSUME NEW x \in Int, NEW m \in Nat \ {0}, m % 2 = 0
    PROVE  Signed(x, m) \in -(m \div 2) .. m \div 2 - 1
<1>1. x % m \in 0 .. m - 1
  OBVIOUS
<1>2. m \div 2 \in Nat /\ m = 2 * (m \div 2)
  OBVIOUS
<1>. QED BY <1>1, <1>2 DEF Signed

LEMMA SlotValueType ==
    ASSUME NEW t, NEW c, TypeOf(t, c) \in BaseType, NEW text \in Str
    PROVE  SlotValue(TypeOf(t, c), text) \in ValuesFor(t, c)
<1>1. StrToInt(text) \in Int
  <2>1. Decimal[text] \in Int /\ Mod64 \div 2 \in Int
    BY FilterAssumption
  <2>. QED BY <2>1 DEF StrToInt, Saturate
<1>2. ASSUME NEW m \in {Mod32, Mod64} PROVE Signed(StrToInt(text), m) \in IntValue
  BY <1>1, SignedRange, FilterAssumption, InterpreterAssumption
<1>. QED BY <1>2 DEF SlotValue, ValuesFor, IsString, BaseType

\* Lookup by name finds a table that has the name.
LEMMA NamedTable ==
    ASSUME TypeInv, NEW name, TablesNamed(name) # {}
    PROVE  TableNamed(name) \in TablesNamed(name) /\ TableNamed(name) \in DOMAIN tables
<1>1. TablesNamed(name) \in SUBSET Nat
  BY DEF TablesNamed, TypeInv
<1>2. \E t \in TablesNamed(name) : IsFirst(t, TablesNamed(name))
  BY <1>1, LeastNumber DEF IsFirst
<1>3. TableNamed(name) \in TablesNamed(name)
  BY <1>2 DEF TableNamed
<1>. QED BY <1>3 DEF TablesNamed

----------------------------------------------------------------------------
(* The inductive invariant.                                                *)

\* The table a query deletes from or updates.
RowCount == tables[Target].row_count

Asking ==
    /\ query \in Queries \cup {[type |-> "NONE"]}
    /\ pc \in Loops \cup {"idle", "segfault", "fatal"}
    /\ deleted \in Nat
    /\ lists \in Nat

\* The columns a CREATE has still to make: each of them has an id left to it.
Owed == IF pc = "create" THEN Len(work) ELSE 0

Bounded ==
    /\ Len(tables) <= MaxTables
    /\ columnId + Owed <= Len(tables) * MaxColumns

Creating ==
    pc = "create" =>
        /\ query \in Queries /\ query.type = "CREATE"
        /\ tables # <<>>
        /\ work \in Seq(DOMAIN query.columns)
        /\ \A i \in DOMAIN query.types : BaseTypeFromStr(query.types[i]) \in BaseType
        /\ Len(tables[Len(tables)].columns) + Len(work) <= MaxColumns

Inserting ==
    /\ pc = "insert" => work \in Seq(Str)
    /\ status = "up" =>
          /\ Filling <=> pc = "insert" /\ work # <<>>
          /\ Filling => Len(work) = Len(tables[fill.table].columns) - fill.col + 1

Deleting ==
    pc = "delete" =>
        /\ query \in Queries /\ query.type = "DELETE" /\ TablesNamed(query.table) # {}
        /\ work \in Seq(Nat)
        /\ NoOr(query.filters) =>
              /\ Ascending(work)
              /\ Len(work) <= RowCount
              /\ \A i \in DOMAIN work : work[i] - deleted \in Slots(RowCount)

Updating ==
    pc = "update" =>
        /\ query \in Queries /\ query.type = "UPDATE" /\ TablesNamed(query.table) # {}
        /\ work \in Seq([row : Slots(RowCount), nth : DOMAIN UpdateColumns])
        /\ Len(UpdateColumns) <= Len(query.values)
        /\ Distinct(work)

\* A loop holds the lists that are freed after it, and no others unless a filter
\* is joined to nothing.
Keeping ==
    pc \in Loops =>
        /\ lists >= Freed(query)
        /\ AllJoined(WhereOf(query)) => lists = Freed(query)

LeaksInv == OnlyKnownLeaks /\ Keeping

IInv ==
    /\ TypeInv /\ Asking /\ Bounded
    /\ Creating /\ Inserting /\ Deleting /\ Updating
    /\ OnlyRecklessQueriesSegfault
    /\ LeaksInv

----------------------------------------------------------------------------
(* Lookups that a step leaves alone.                                       *)

LEMMA SameInterval ==
    ASSUME NEW n \in Nat, NEW m \in Nat, 1 .. n = 1 .. m
    PROVE  n = m
<1>1. \A i \in Int : 1 <= i /\ i <= n <=> 1 <= i /\ i <= m
  OBVIOUS
<1>. QED BY <1>1

LEMMA SameLen ==
    ASSUME NEW S, NEW s \in Seq(S), NEW T, NEW u \in Seq(T), DOMAIN s = DOMAIN u
    PROVE  Len(s) = Len(u)
<1>1. /\ Len(s) \in Nat /\ DOMAIN s = 1 .. Len(s)
      /\ Len(u) \in Nat /\ DOMAIN u = 1 .. Len(u)
  BY LenProperties
<1>. QED BY <1>1, SameInterval

LEMMA ColumnLengths ==
    ASSUME NEW tabs \in Seq(TableTypes), NEW t \in DOMAIN tabs
    PROVE  /\ tabs[t].columns \in Seq(ColumnType(tabs[t].row_capacity))
           /\ Len(tabs[t].columns) \in Nat
           /\ DOMAIN tabs[t].columns = 1 .. Len(tabs[t].columns)
<1>1. tabs[t] \in TableTypes
  BY ElementOfSeq, LenProperties
<1>2. tabs[t] \in TableType(tabs[t].row_capacity)
  BY <1>1, TableTypesDef
<1>. QED BY <1>2 DEF TableType

LEMMA Lengths ==
    ASSUME TypeInv
    PROVE  /\ Len(tables) \in Nat /\ DOMAIN tables = 1 .. Len(tables)
           /\ \A t \in DOMAIN tables : /\ Len(tables[t].columns) \in Nat
                                      /\ Columns(t) = 1 .. Len(tables[t].columns)
BY ColumnLengths DEF TypeInv, Columns

LEMMA SameLengths ==
    ASSUME TypeInv, TypeInv', DOMAIN tables' = DOMAIN tables
    PROVE  /\ Len(tables') = Len(tables)
           /\ \A t \in DOMAIN tables : Columns(t)' = Columns(t) =>
                 Len(tables'[t].columns) = Len(tables[t].columns)
<1>1. Len(tables') = Len(tables)
  BY SameLen DEF TypeInv
<1>2. ASSUME NEW t \in DOMAIN tables, Columns(t)' = Columns(t)
      PROVE  Len(tables'[t].columns) = Len(tables[t].columns)
  <2>1. tables[t].columns \in Seq(ColumnType(tables[t].row_capacity))
    BY ColumnLengths DEF TypeInv
  <2>2. tables'[t].columns \in Seq(ColumnType(tables'[t].row_capacity))
    BY ColumnLengths DEF TypeInv
  <2>. QED BY <1>2, <2>1, <2>2, SameLen DEF Columns
<1>. QED BY <1>1, <1>2

\* A table keeps its place among those of its name, and its columns theirs.
LEMMA SameTarget ==
    ASSUME query' = query, query.type # "CREATE", DOMAIN tables' = DOMAIN tables,
           \A u \in DOMAIN tables : tables'[u].name = tables[u].name
    PROVE  /\ TablesNamed(query.table)' = TablesNamed(query.table)
           /\ Target' = Target
<1>1. TablesNamed(query.table)' = TablesNamed(query.table)
  BY DEF TablesNamed
<1>2. TableNamed(query.table)' = TableNamed(query.table)
  BY <1>1, Zenon DEF TableNamed
<1>. QED BY <1>1, <1>2 DEF Target

LEMMA SameUpdateColumns ==
    ASSUME query' = query, Target' = Target, SameShape(Target)
    PROVE  UpdateColumns' = UpdateColumns
<1> DEFINE listed == {c \in Columns(Target) :
                         \/ query.columns = NoList
                         \/ Contains(query.columns, tables[Target].columns[c].name)}
<1>1. Columns(Target)' = Columns(Target)
  BY DEF SameShape, Columns
<1>2. listed' = listed
  BY <1>1 DEF SameShape
<1>3. UpdateColumns = Picked([c \in Columns(Target) |-> c], listed)
  BY DEF UpdateColumns, TableColumnGetList
<1>4. UpdateColumns' = Picked([c \in Columns(Target)' |-> c], listed')
  BY DEF UpdateColumns, TableColumnGetList
<1>. QED BY <1>1, <1>2, <1>3, <1>4

\* What the first step of a query looks up, when it changes no table.
LEMMA Begun ==
    ASSUME NEW q, query' = q, q.type # "CREATE", UNCHANGED storageVars
    PROVE  /\ Target' = TableNamed(q.table)
           /\ TablesNamed(query.table)' = TablesNamed(q.table)
           /\ RowCount' = tables[TableNamed(q.table)].row_count
           /\ UpdateColumns' = TableColumnGetList(TableNamed(q.table), q.columns)
           /\ \A t, list : TableColumnGetList(t, list)' = TableColumnGetList(t, list)
<1>1. UNCHANGED tables
  BY DEF storageVars
<1>2. TablesNamed(query.table)' = TablesNamed(q.table)
  BY <1>1 DEF TablesNamed
<1>3. Target' = TableNamed(q.table)
  <2>1. TableNamed(query.table)' = TableNamed(q.table)
    BY <1>2, Zenon DEF TableNamed
  <2>. QED BY <2>1 DEF Target
<1>4. \A t, list : TableColumnGetList(t, list)' = TableColumnGetList(t, list)
  BY <1>1 DEF TableColumnGetList, Columns
<1>5. UpdateColumns' = TableColumnGetList(TableNamed(q.table), q.columns)
  BY <1>1, <1>3 DEF UpdateColumns, TableColumnGetList, Columns
<1>. QED BY <1>1, <1>2, <1>3, <1>4, <1>5 DEF RowCount

\* One table more, and the columns it may still get.
LEMMA Room ==
    ASSUME NEW n \in Nat, NEW m \in Nat
    PROVE  /\ n * m \in Nat
           /\ (n + 1) * m = n * m + m
           /\ \A k \in Nat : n <= k => n * m <= k * m
<1>1. n * m \in Nat
  OBVIOUS
<1>2. (n + 1) * m = n * m + m
  OBVIOUS
<1>3. ASSUME NEW k \in Nat, n <= k PROVE n * m <= k * m
  <2>1. PICK d \in Nat : k = n + d
    BY <1>3
  <2>2. k * m = n * m + d * m /\ d * m \in Nat
    BY <2>1
  <2>. QED BY <1>1, <2>2
<1>. QED BY <1>1, <1>2, <1>3

----------------------------------------------------------------------------
(* Steps that end a query.                                                 *)

LEMMA Spent ==
    ASSUME IInv
    PROVE  /\ Len(tables) \in Nat /\ DOMAIN tables = 1 .. Len(tables)
           /\ MaxTables \in Nat /\ MaxColumns \in Nat /\ columnId \in Nat
           /\ Len(tables) * MaxColumns \in Nat
           /\ Len(tables) * MaxColumns <= MaxTables * MaxColumns
           /\ Owed \in Nat
           /\ columnId <= Len(tables) * MaxColumns
<1>1. Len(tables) \in Nat /\ DOMAIN tables = 1 .. Len(tables)
  BY Lengths DEF IInv
<1>2. MaxTables \in Nat /\ MaxColumns \in Nat /\ columnId \in Nat
  BY StorageAssumption DEF IInv, TypeInv
<1>3. /\ Len(tables) * MaxColumns \in Nat
      /\ Len(tables) * MaxColumns <= MaxTables * MaxColumns
  BY <1>1, <1>2, Room DEF IInv, Bounded
<1>4. Owed \in Nat
  BY DEF IInv, Creating, Owed
<1>5. columnId <= Len(tables) * MaxColumns
  <2>1. columnId + Owed <= Len(tables) * MaxColumns
    BY DEF IInv, Bounded
  <2>. QED BY <1>2, <1>3, <1>4, <2>1
<1>. QED BY <1>1, <1>2, <1>3, <1>4, <1>5

LEMMA ReplyKeeps ==
    ASSUME TypeInv', query' \in Queries \cup {[type |-> "NONE"]},
           NEW res, NEW rows, NEW held, Reply(res, rows, held),
           held \in Nat, held # 0 => Leaks(query', res),
           Len(tables') <= MaxTables, columnId' <= Len(tables') * MaxColumns,
           status' = "up" => ~Filling'
    PROVE  IInv'
<1>1. pc' = "idle" /\ deleted' = 0 /\ lists' = held /\ result' = res
  BY DEF Reply
<1>2. Asking'
  BY <1>1 DEF Asking
<1>3. Bounded'
  <2>1. columnId' \in Nat
    BY DEF TypeInv
  <2>. QED BY <1>1, <2>1 DEF Bounded, Owed
<1>4. Creating' /\ Inserting' /\ Deleting' /\ Updating'
  BY <1>1 DEF Creating, Inserting, Deleting, Updating
<1>5. OnlyRecklessQueriesSegfault' /\ LeaksInv'
  BY <1>1 DEF OnlyRecklessQueriesSegfault, LeaksInv, OnlyKnownLeaks, Keeping, Loops
<1>. QED BY <1>2, <1>3, <1>4, <1>5 DEF IInv

LEMMA AbortKeeps ==
    ASSUME IInv, TypeInv', query' \in Queries \cup {[type |-> "NONE"]},
           NEW how \in {"segfault", "fatal"}, Abort(how),
           how = "segfault" => Reckless(query)',
           Len(tables') <= MaxTables, columnId' <= Len(tables') * MaxColumns,
           status' = "up" => ~Filling'
    PROVE  IInv'
<1>1. pc' = how /\ UNCHANGED <<deleted, lists>>
  BY DEF Abort
<1>2. Asking'
  BY <1>1 DEF Asking, IInv
<1>3. Bounded'
  <2>1. columnId' \in Nat
    BY DEF TypeInv
  <2>. QED BY <1>1, <2>1 DEF Bounded, Owed
<1>4. Creating' /\ Inserting' /\ Deleting' /\ Updating'
  BY <1>1 DEF Creating, Inserting, Deleting, Updating
<1>5. OnlyRecklessQueriesSegfault' /\ LeaksInv'
  BY <1>1 DEF OnlyRecklessQueriesSegfault, LeaksInv, OnlyKnownLeaks, Keeping, Loops
<1>. QED BY <1>2, <1>3, <1>4, <1>5 DEF IInv

\* What holds when a query begins, and goes on holding if no table changes.
LEMMA IdleFacts ==
    ASSUME IInv, Idle
    PROVE  /\ Ready
           /\ UNCHANGED storageVars => /\ TypeInv' /\ Len(tables') <= MaxTables
                                       /\ columnId' <= Len(tables') * MaxColumns
                                       /\ status' = "up" /\ ~Filling'
<1>1. Ready
  BY DEF Idle, Ready, IInv, Inserting
<1>2. ASSUME UNCHANGED storageVars
      PROVE  /\ TypeInv' /\ Len(tables') <= MaxTables
             /\ columnId' <= Len(tables') * MaxColumns
             /\ status' = "up" /\ ~Filling'
  <2>1. TypeInv'
    BY <1>2, StorageTypesStep DEF IInv
  <2>2. Len(tables) <= MaxTables /\ columnId <= Len(tables) * MaxColumns
    BY Spent DEF IInv, Bounded
  <2>. QED BY <1>1, <1>2, <2>1, <2>2 DEF storageVars, Ready, Filling
<1>. QED BY <1>1, <1>2

LEMMA NotFoundKeeps ==
    ASSUME IInv, NEW q \in Queries, TableNotFound(q)
    PROVE  [StorageNext]_storageVars /\ IInv'
<1>1. /\ Idle /\ query' = q /\ UNCHANGED storageVars
      /\ Reply("RESULT_TABLE_NOT_FOUND", <<>>, 0)
  BY DEF TableNotFound, Begin
<1>. QED BY <1>1, IdleFacts, ReplyKeeps

----------------------------------------------------------------------------
(* The first step of each query.                                           *)

LEMMA BeginCreateKeeps ==
    ASSUME IInv, NEW q \in Queries, BeginCreate(q)
    PROVE  [StorageNext]_storageVars /\ IInv'
<1>1. /\ Idle /\ query' = q /\ q.type = "CREATE"
      /\ Len(tables) < MaxTables /\ Len(q.columns) <= MaxColumns
  BY DEF BeginCreate, Begin
<1>2. /\ q.table \in TableName
      /\ q.columns \in Seq(ColumnName)
      /\ q.types \in Seq(ToSet(q.types))
  BY <1>1, InterpreterAssumption
<1>3. CASE /\ Reply("RESULT_SERVER_ERROR", <<>>, 0) /\ UNCHANGED storageVars
  BY <1>1, <1>3, IdleFacts, ReplyKeeps
<1>4. CASE /\ DbTableNew(q.table)
           /\ IF \A i \in DOMAIN q.types : BaseTypeFromStr(q.types[i]) \in BaseType
              THEN EnterLoop("create", [i \in DOMAIN q.columns |-> i], 1)
              ELSE Reply("RESULT_INVALID_QUERY", <<>>, 0)
  <2>1. Ready /\ TypeInv
    BY <1>1, IdleFacts DEF IInv
  <2>2. StorageNext
    BY <1>1, <1>2, <1>4, <2>1 DEF ClientNewTable, StorageNext
  <2>3. TypeInv'
    BY <2>1, <2>2, StorageTypesStep
  <2> DEFINE n == Len(tables)
             m == Len(q.columns)
  <2>4. /\ n \in Nat /\ MaxTables \in Nat /\ MaxColumns \in Nat /\ columnId \in Nat
        /\ n * MaxColumns \in Nat /\ (n + 1) * MaxColumns = n * MaxColumns + MaxColumns
        /\ columnId <= n * MaxColumns
    BY Spent, Room
  <2>5. /\ Len(tables') = n + 1 /\ tables'[n + 1].columns = <<>>
        /\ UNCHANGED <<columnId, fill, status>>
    <3>1. tables' = Append(tables, NewTable(q.table)) /\ NewTable(q.table).columns = <<>>
      BY <1>4 DEF DbTableNew, NewTable
    <3>. QED BY <1>4, <2>1, <3>1 DEF TypeInv, DbTableNew
  <2>6. m \in Nat /\ DOMAIN q.columns = 1 .. m
    BY <1>2
  <2>7. Len(tables') <= MaxTables /\ columnId' + m <= Len(tables') * MaxColumns
    BY <1>1, <2>4, <2>5, <2>6
  <2>8. status' = "up" /\ ~Filling'
    BY <1>1, <2>1, <2>5 DEF Idle, Ready, Filling
  <2>9. CASE Reply("RESULT_INVALID_QUERY", <<>>, 0)
    <3>1. columnId' <= Len(tables') * MaxColumns
      BY <2>4, <2>5, <2>6, <2>7
    <3>. QED BY <1>1, <2>2, <2>3, <2>7, <2>8, <2>9, <3>1, ReplyKeeps
  <2>10. CASE /\ \A i \in DOMAIN q.types : BaseTypeFromStr(q.types[i]) \in BaseType
              /\ EnterLoop("create", [i \in DOMAIN q.columns |-> i], 1)
    <3>1. /\ pc' = "create" /\ work' = [i \in DOMAIN q.columns |-> i] /\ deleted' = 0
          /\ lists' = 1 /\ result' = "PENDING"
      BY <2>10 DEF EnterLoop
    <3>2. work' \in [1 .. m -> DOMAIN q.columns]
      BY <2>6, <3>1
    <3>3. work' \in Seq(DOMAIN q.columns) /\ Len(work') = m
      BY <2>6, <3>2, FunctionSeq
    <3>4. Asking'
      BY <1>1, <3>1 DEF Asking, Loops
    <3>5. Bounded'
      BY <2>7, <3>1, <3>3 DEF Bounded, Owed
    <3>6. Creating'
      <4>1. tables' # <<>> /\ Len(tables'[Len(tables')].columns) = 0
        BY <2>4, <2>5
      <4>. QED BY <1>1, <2>6, <2>10, <3>3, <4>1 DEF Creating
    <3>7. Inserting' /\ Deleting' /\ Updating'
      BY <2>8, <3>1 DEF Inserting, Deleting, Updating
    <3>8. OnlyRecklessQueriesSegfault' /\ LeaksInv'
      BY <1>1, <3>1 DEF OnlyRecklessQueriesSegfault, LeaksInv, OnlyKnownLeaks, Keeping, Freed
    <3>. QED BY <2>2, <2>3, <3>4, <3>5, <3>6, <3>7, <3>8 DEF IInv
  <2>. QED BY <1>4, <2>9, <2>10
<1>. QED BY <1>3, <1>4 DEF BeginCreate

\* An INSERT that passes its checks owes as many values as the row has slots.
LEMMA BeginInsertKeeps ==
    ASSUME IInv, NEW q \in Queries, BeginInsert(q)
    PROVE  [StorageNext]_storageVars /\ IInv'
<1>. SUFFICES ASSUME NEW t, t = TableNamed(q.table), NEW columns,
                     columns = TableColumnGetList(t, NoList)
              PROVE  [StorageNext]_storageVars /\ IInv'
  OBVIOUS
<1> DEFINE check == ValidateValueTypes(t, columns, q.values)
           n == Len(tables[t].columns)
<1>1. /\ Idle /\ query' = q /\ q.type = "INSERT" /\ TablesNamed(q.table) # {}
      /\ q.values \in Seq(Str)
  BY InterpreterAssumption DEF BeginInsert, Begin
<1>2. t \in DOMAIN tables /\ TypeInv
  BY <1>1, NamedTable DEF IInv
<1>3. columns \in Seq(Columns(t)) /\ Len(columns) = n /\ n \in Nat
  BY <1>2, ColumnListFacts, Lengths
<1>4. CASE check = "SIGSEGV" /\ Abort("segfault") /\ UNCHANGED storageVars
  <2>1. Target' = t /\ tables' = tables
    BY <1>1, <1>4, Begun DEF storageVars
  <2>2. columns = <<>> \/ Len(q.values) < Len(columns)
    BY <1>4 DEF ValidateValueTypes
  <2>3. columns = <<>> => n = 0
    BY <1>3
  <2>4. n = 0 => tables[t].columns = <<>>
    BY <1>2, ColumnLengths, EmptySeq DEF TypeInv
  <2>5. Reckless(query)'
    BY <1>1, <1>3, <2>1, <2>2, <2>3, <2>4 DEF Reckless
  <2>. QED BY <1>1, <1>4, <2>5, IdleFacts, AbortKeeps
<1>5. CASE check = "RESULT_ERR" /\ Reply(check, <<>>, 1) /\ UNCHANGED storageVars
  <2>1. Leaks(query', check)
    BY <1>1, <1>5 DEF Leaks
  <2>. QED BY <1>1, <1>5, <2>1, IdleFacts, ReplyKeeps
<1>6. CASE /\ check = "RESULT_OK" /\ tables[t].row_count < MaxRows /\ TableRowAdd(t)
           /\ EnterLoop("insert", SubSeq(q.values, 1, n), 1)
  <2>1. Ready
    BY <1>1, IdleFacts
  <2>2. StorageNext
    BY <1>2, <1>6, <2>1 DEF ClientAddRow, StorageNext
  <2>3. TypeInv'
    BY <1>2, <2>2, StorageTypesStep
  <2>4. columns # <<>> /\ Len(q.values) >= n
    BY <1>1, <1>3, <1>6 DEF ValidateValueTypes
  <2>5. n # 0
    BY <1>3, <2>4, EmptySeq
  <2>6. tables[t].columns # <<>>
    BY <1>2, <2>5, ColumnLengths, EmptySeq DEF TypeInv
  <2>7. /\ SameColumns /\ fill' = [table |-> t, row |-> tables[t].row_count, col |-> 1]
        /\ UNCHANGED <<columnId, status>>
    BY <1>2, <1>6, <2>6, AddRowKeepsColumns DEF TableRowAdd
  <2>8. Len(tables') = Len(tables) /\ Len(tables'[t].columns) = n
    BY <1>2, <2>3, <2>7, SameLengths DEF SameColumns
  <2>9. /\ pc' = "insert" /\ work' = SubSeq(q.values, 1, n) /\ deleted' = 0
        /\ lists' = 1 /\ result' = "PENDING"
    BY <1>6 DEF EnterLoop
  <2>10. work' \in Seq(Str) /\ Len(work') = n /\ work' # <<>>
    <3>1. n \in 1 .. Len(q.values) /\ 1 \in 1 .. Len(q.values) + 1
      BY <1>1, <1>3, <2>4, <2>5
    <3>2. SubSeq(q.values, 1, n) \in Seq(Str) /\ Len(SubSeq(q.values, 1, n)) = n
      BY <1>1, <1>3, <3>1
    <3>. QED BY <2>5, <2>9, <3>2
  <2>11. Asking'
    BY <1>1, <2>9 DEF Asking, Loops
  <2>12. Bounded'
    <3>1. Len(tables) <= MaxTables /\ columnId <= Len(tables) * MaxColumns
      BY Spent DEF IInv, Bounded
    <3>2. columnId' \in Nat
      BY <2>3 DEF TypeInv
    <3>. QED BY <2>7, <2>8, <2>9, <3>1, <3>2 DEF Bounded, Owed
  <2>13. Inserting'
    <3>1. Filling' /\ fill'.table = t /\ fill'.col = 1
      BY <2>7 DEF Filling
    <3>. QED BY <1>3, <2>8, <2>9, <2>10, <3>1 DEF Inserting
  <2>14. Creating' /\ Deleting' /\ Updating'
    BY <2>9 DEF Creating, Deleting, Updating
  <2>15. OnlyRecklessQueriesSegfault' /\ LeaksInv'
    BY <1>1, <2>9 DEF OnlyRecklessQueriesSegfault, LeaksInv, OnlyKnownLeaks, Keeping, Freed
  <2>. QED BY <2>2, <2>3, <2>11, <2>12, <2>13, <2>14, <2>15 DEF IInv
<1>. QED BY <1>4, <1>5, <1>6 DEF BeginInsert

\* What filter_interpret holds at its returns.
FiltersHold(filters, found) ==
    /\ filters # <<>> /\ found.res = "RESULT_OK" =>
          found.held >= 1 /\ (AllJoined(filters) => found.held = 1)
    /\ found.res = "RESULT_FILTER_VALUE_TYPE" /\ found.held # 0 => ~AllJoined(filters)
    /\ found.res = "RESULT_COLUMN_NOT_FOUND" /\ found.held # 0 => Len(filters) > 1

\* What the filters of a query may come to, once the table is found.
LEMMA FiltersOf ==
    ASSUME IInv, NEW q \in Queries, q.type \in {"SELECT", "DELETE", "UPDATE"},
           TablesNamed(q.table) # {}, NEW t, t = TableNamed(q.table)
    PROVE  /\ t \in DOMAIN tables /\ TypeInv /\ tables[t].row_count \in Nat
           /\ FilterInterpret(t, q.filters)
                 \in Found(tables[t].row_count, NoOr(q.filters), UnknownOperator(q.filters))
           /\ FiltersHold(q.filters, FilterInterpret(t, q.filters))
<1>1. t \in DOMAIN tables /\ TypeInv
  BY NamedTable DEF IInv
<1>2. tables[t].row_count \in Nat
  BY <1>1, TableFacts
<1>3. /\ q.filters \in Seq(ToSet(q.filters))
      /\ \A i \in DOMAIN q.filters : q.filters[i].next_relation \in {"NONE", "AND", "OR"}
  BY InterpreterAssumption
<1>4. /\ FilterInterpret(t, q.filters)
            \in Found(tables[t].row_count, NoOr(q.filters), UnknownOperator(q.filters))
      /\ HeldAfter(q.filters, Len(q.filters), FilterInterpret(t, q.filters))
  BY <1>2, <1>3, FilterFacts
<1>5. Len(q.filters) \in Nat /\ (q.filters # <<>> => Len(q.filters) > 0)
  BY <1>3, EmptySeq
<1>6. FiltersHold(q.filters, FilterInterpret(t, q.filters))
  BY <1>4, <1>5 DEF HeldAfter, FiltersHold
<1>. QED BY <1>1, <1>2, <1>4, <1>6

\* The filters answer an error, or follow a null function.
LEMMA FiltersFail ==
    ASSUME IInv, NEW q \in Queries, Idle, query' = q, UNCHANGED storageVars,
           NEW n, NEW noOr, NEW found \in Found(n, noOr, UnknownOperator(q.filters)),
           FiltersHold(q.filters, found), q.type \in {"SELECT", "DELETE", "UPDATE"},
           \/ found.res = "SIGSEGV" /\ Abort("segfault")
           \/ found.res \notin {"RESULT_OK", "SIGSEGV"} /\ Reply(found.res, <<>>, found.held)
    PROVE  IInv'
<1>1. CASE found.res = "SIGSEGV" /\ Abort("segfault")
  <2>1. UnknownOperator(q.filters)
    BY <1>1 DEF Found
  <2>2. Reckless(query)'
    BY <2>1 DEF UnknownOperator, Reckless
  <2>. QED BY <1>1, <2>2, IdleFacts, AbortKeeps
<1>2. CASE found.res \notin {"RESULT_OK", "SIGSEGV"} /\ Reply(found.res, <<>>, found.held)
  <2>1. found.held \in Nat
    BY DEF Found
  <2>2. found.held # 0 => Leaks(query', found.res)
    BY <1>2 DEF Found, FiltersHold, Leaks, WhereOf
  <2>. QED BY <1>2, <2>1, <2>2, IdleFacts, ReplyKeeps
<1>. QED BY <1>1, <1>2

LEMMA BeginDeleteKeeps ==
    ASSUME IInv, NEW q \in Queries, BeginDelete(q)
    PROVE  [StorageNext]_storageVars /\ IInv'
<1>. SUFFICES ASSUME NEW t, t = TableNamed(q.table), NEW n, n = tables[t].row_count,
                     NEW found, found = FilterInterpret(t, q.filters)
              PROVE  [StorageNext]_storageVars /\ IInv'
  OBVIOUS
<1>1. /\ Idle /\ query' = q /\ q.type = "DELETE" /\ TablesNamed(q.table) # {}
      /\ UNCHANGED storageVars
  BY DEF BeginDelete, Begin
<1>2. /\ t \in DOMAIN tables /\ TypeInv /\ n \in Nat
      /\ found \in Found(n, NoOr(q.filters), UnknownOperator(q.filters))
      /\ FiltersHold(q.filters, found)
  BY <1>1, FiltersOf
<1>3. ASSUME NEW rows \in Seq(Slots(n)), NoOr(q.filters) => Ascending(rows),
             NEW held \in Nat, held >= Freed(q), AllJoined(q.filters) => held = Freed(q),
             EnterLoop("delete", rows, held)
      PROVE  IInv'
  <2>1. /\ pc' = "delete" /\ work' = rows /\ deleted' = 0 /\ lists' = held
        /\ result' = "PENDING"
    BY <1>3 DEF EnterLoop
  <2>2. /\ TypeInv' /\ Len(tables') <= MaxTables /\ columnId' <= Len(tables') * MaxColumns
        /\ status' = "up" /\ ~Filling'
    BY <1>1, IdleFacts
  <2>3. Asking'
    BY <1>1, <1>3, <2>1 DEF Asking, Loops
  <2>4. Bounded'
    <3>1. columnId' \in Nat
      BY <2>2 DEF TypeInv
    <3>. QED BY <2>1, <2>2, <3>1 DEF Bounded, Owed
  <2>5. Deleting'
    <3>1. TablesNamed(query.table)' = TablesNamed(q.table) /\ RowCount' = n
      BY <1>1, Begun
    <3>2. Slots(n) \subseteq Nat
      BY DEF Slots
    <3>3. work' \in Seq(Nat)
      BY <2>1, <3>2, <1>3, SeqMonotonic
    <3>4. ASSUME NoOr(q.filters)
          PROVE  /\ Ascending(work') /\ Len(work') <= n
                 /\ \A i \in DOMAIN work' : work'[i] - deleted' \in Slots(n)
      <4>1. Ascending(rows) /\ Len(rows) <= n
        BY <1>2, <1>3, <3>4, AscendingIsShort
      <4>2. \A i \in DOMAIN rows : rows[i] \in Slots(n)
        BY <1>3
      <4>3. \A i \in Slots(n) : i - 0 = i
        BY DEF Slots
      <4>. QED BY <2>1, <4>1, <4>2, <4>3
    <3>. QED BY <1>1, <3>1, <3>3, <3>4 DEF Deleting
  <2>6. Creating' /\ Inserting' /\ Updating'
    BY <2>1, <2>2 DEF Creating, Inserting, Updating
  <2>7. OnlyRecklessQueriesSegfault' /\ LeaksInv'
    BY <1>1, <1>3, <2>1 DEF OnlyRecklessQueriesSegfault, LeaksInv, OnlyKnownLeaks, Keeping, WhereOf
  <2>. QED BY <2>2, <2>3, <2>4, <2>5, <2>6, <2>7 DEF IInv
<1>4. CASE q.filters = <<>> /\ EnterLoop("delete", RowIds(t), 0)
  <2>1. RowIds(t) \in Seq(Slots(n)) /\ Ascending(RowIds(t))
    BY <1>2, RowIdsFacts
  <2>2. Freed(q) = 0
    BY <1>1, <1>4 DEF Freed
  <2>. QED BY <1>1, <1>3, <1>4, <2>1, <2>2
<1>5. CASE q.filters # <<>> /\ found.res = "RESULT_OK" /\ EnterLoop("delete", found.rows, found.held)
  <2>1. found.rows \in Seq(Slots(n)) /\ (NoOr(q.filters) => Ascending(found.rows))
        /\ found.held \in Nat
    BY <1>2 DEF Found
  <2>2. Freed(q) = 1
    BY <1>1, <1>5 DEF Freed
  <2>3. found.held >= Freed(q) /\ (AllJoined(q.filters) => found.held = Freed(q))
    BY <1>2, <1>5, <2>2 DEF FiltersHold
  <2>. QED BY <1>1, <1>3, <1>5, <2>1, <2>3
<1>6. CASE \/ found.res = "SIGSEGV" /\ Abort("segfault")
           \/ found.res \notin {"RESULT_OK", "SIGSEGV"} /\ Reply(found.res, <<>>, found.held)
  BY <1>1, <1>2, <1>6, FiltersFail
<1>. QED BY <1>1, <1>4, <1>5, <1>6 DEF BeginDelete

LEMMA BeginUpdateKeeps ==
    ASSUME IInv, NEW q \in Queries, BeginUpdate(q)
    PROVE  [StorageNext]_storageVars /\ IInv'
<1>. SUFFICES ASSUME NEW t, t = TableNamed(q.table), NEW n, n = tables[t].row_count,
                     NEW columns, columns = TableColumnGetList(t, q.columns),
                     NEW found, found = IF q.filters = <<>>
                                        THEN [res |-> "RESULT_OK", held |-> 0, rows |-> RowIds(t)]
                                        ELSE FilterInterpret(t, q.filters),
                     NEW check, check = IF found.res = "RESULT_OK"
                                        THEN ValidateValueTypes(t, columns, q.values)
                                        ELSE found.res
              PROVE  [StorageNext]_storageVars /\ IInv'
  OBVIOUS
<1>1. /\ Idle /\ query' = q /\ q.type = "UPDATE" /\ TablesNamed(q.table) # {}
      /\ UNCHANGED storageVars
  BY DEF BeginUpdate, Begin
<1>2. /\ t \in DOMAIN tables /\ TypeInv /\ n \in Nat
      /\ FilterInterpret(t, q.filters) \in Found(n, NoOr(q.filters), UnknownOperator(q.filters))
      /\ FiltersHold(q.filters, FilterInterpret(t, q.filters))
  BY <1>1, FiltersOf
<1>3. columns \in Seq(Columns(t)) /\ q.values \in Seq(Str)
  BY <1>1, <1>2, ColumnListFacts, InterpreterAssumption
<1>4. /\ found.res \in {"RESULT_OK", "RESULT_COLUMN_NOT_FOUND", "RESULT_FILTER_VALUE_TYPE", "SIGSEGV"}
      /\ found.held \in Nat
      /\ found.res = "RESULT_OK" =>
            /\ found.held + 1 >= Freed(q)
            /\ AllJoined(q.filters) => found.held + 1 = Freed(q)
      /\ found.res # "RESULT_OK" => q.filters # <<>>
      /\ found.rows \in Seq(Slots(n)) /\ Distinct(found.rows)
      /\ found.res = "SIGSEGV" => UnknownOperator(q.filters)
  <2>1. CASE q.filters = <<>>
    <3>1. RowIds(t) \in Seq(Slots(n)) /\ Distinct(RowIds(t))
      BY <1>2, RowIdsFacts
    <3>2. Freed(q) = 1
      BY <1>1, <2>1 DEF Freed
    <3>. QED BY <2>1, <3>1, <3>2
  <2>2. CASE q.filters # <<>>
    <3>1. Freed(q) = 2
      BY <1>1, <2>2 DEF Freed
    <3>. QED BY <1>2, <2>2, <3>1 DEF Found, FiltersHold
  <2>. QED BY <2>1, <2>2
<1>5. /\ TypeInv' /\ Len(tables') <= MaxTables /\ columnId' <= Len(tables') * MaxColumns
      /\ status' = "up" /\ ~Filling'
  BY <1>1, IdleFacts
<1>6. Target' = t /\ UpdateColumns' = columns /\ RowCount' = n
      /\ TablesNamed(query.table)' = TablesNamed(q.table)
  BY <1>1, Begun
<1>7. CASE check = "RESULT_OK" /\ EnterLoop("update", CellsOf(found.rows, columns),
                                            found.held + 1)
  <2>1. /\ pc' = "update" /\ work' = CellsOf(found.rows, columns) /\ deleted' = 0
        /\ lists' = found.held + 1 /\ result' = "PENDING"
    BY <1>7 DEF EnterLoop
  <2>2. ValidateValueTypes(t, columns, q.values) = "RESULT_OK"
    BY <1>4, <1>7
  <2>3. Len(columns) <= Len(q.values)
    BY <1>3, <2>2 DEF ValidateValueTypes
  <2>4. work' \in Seq([row : Slots(n), nth : DOMAIN columns]) /\ Distinct(work')
    BY <1>2, <1>3, <1>4, <2>1, CellsFacts
  <2>5. Asking'
    BY <1>1, <1>4, <2>1 DEF Asking, Loops
  <2>6. Bounded'
    <3>1. columnId' \in Nat
      BY <1>5 DEF TypeInv
    <3>. QED BY <1>5, <2>1, <3>1 DEF Bounded, Owed
  <2>7. Updating'
    BY <1>1, <1>6, <2>3, <2>4 DEF Updating
  <2>8. Creating' /\ Inserting' /\ Deleting'
    BY <1>5, <2>1 DEF Creating, Inserting, Deleting
  <2>9. OnlyRecklessQueriesSegfault' /\ LeaksInv'
    <3>1. found.res = "RESULT_OK"
      BY <1>4, <1>7
    <3>. QED BY <1>1, <1>4, <2>1, <3>1
         DEF OnlyRecklessQueriesSegfault, LeaksInv, OnlyKnownLeaks, Keeping, WhereOf
  <2>. QED BY <1>1, <1>5, <2>5, <2>6, <2>7, <2>8, <2>9 DEF IInv
<1>8. CASE check = "SIGSEGV" /\ Abort("segfault")
  <2>1. Reckless(query)'
    <3>1. CASE found.res = "RESULT_OK"
      <4>1. columns = <<>> \/ Len(q.values) < Len(columns)
        BY <1>8, <3>1 DEF ValidateValueTypes
      <4>. QED BY <1>1, <1>6, <4>1 DEF Reckless
    <3>2. CASE found.res # "RESULT_OK"
      <4>1. UnknownOperator(q.filters)
        BY <1>4, <1>8, <3>2
      <4>. QED BY <1>1, <4>1 DEF UnknownOperator, Reckless
    <3>. QED BY <3>1, <3>2
  <2>. QED BY <1>1, <1>5, <1>8, <2>1, AbortKeeps
<1>9. CASE check = "RESULT_ERR" /\ Reply("RESULT_VALUE_TYPE", <<>>, found.held)
  <2>1. found.held # 0 => Leaks(query', "RESULT_VALUE_TYPE")
    BY <1>1, <1>9 DEF Leaks
  <2>. QED BY <1>1, <1>4, <1>5, <1>9, <2>1, ReplyKeeps
<1>10. CASE check \notin {"RESULT_OK", "SIGSEGV", "RESULT_ERR"} /\ Reply(check, <<>>, found.held)
  <2>1. found.res # "RESULT_OK" /\ check = found.res
    BY <1>10 DEF ValidateValueTypes
  <2>2. found = FilterInterpret(t, q.filters)
    BY <1>4, <2>1
  <2>. QED BY <1>1, <1>2, <1>10, <2>1, <2>2, FiltersFail
<1>. QED BY <1>1, <1>7, <1>8, <1>9, <1>10 DEF BeginUpdate

LEMMA SelectKeeps ==
    ASSUME IInv, NEW q \in Queries, Select(q)
    PROVE  [StorageNext]_storageVars /\ IInv'
<1>. SUFFICES ASSUME NEW t, t = TableNamed(q.table), NEW n, n = tables[t].row_count,
                     NEW columns, columns = TableColumnGetList(t, q.columns),
                     NEW found, found = FilterInterpret(t, q.filters)
              PROVE  [StorageNext]_storageVars /\ IInv'
  OBVIOUS
<1>1. /\ Idle /\ query' = q /\ q.type = "SELECT" /\ TablesNamed(q.table) # {}
      /\ UNCHANGED storageVars
  BY DEF Select, Begin
<1>2. /\ t \in DOMAIN tables /\ TypeInv
      /\ found \in Found(n, NoOr(q.filters), UnknownOperator(q.filters))
      /\ FiltersHold(q.filters, found)
  BY <1>1, FiltersOf
<1>3. /\ TypeInv' /\ Len(tables') <= MaxTables /\ columnId' <= Len(tables') * MaxColumns
      /\ status' = "up" /\ ~Filling'
  BY <1>1, IdleFacts
<1>4. TableColumnGetList(Target, query.columns)' = columns
  <2>1. Target' = t /\ tables' = tables
    BY <1>1, Begun DEF storageVars
  <2>. QED BY <1>1, <2>1 DEF TableColumnGetList, Columns
<1>5. q.columns = <<>> => columns = <<>>
  BY <1>2, ColumnListFacts
<1>6. CASE columns = <<>> /\ Abort("segfault")
  <2>1. Reckless(query)'
    BY <1>1, <1>4, <1>6 DEF Reckless
  <2>. QED BY <1>1, <1>3, <1>6, <2>1, AbortKeeps
<1>7. CASE \E rows : \/ Reply("RESULT_OK", rows, 0)
                      \/ /\ q.filters # <<>> /\ found.res = "RESULT_OK"
                         /\ Reply("RESULT_OK", rows, HeldWithoutRows(found.held))
  <2>1. PICK rows, held : /\ Reply("RESULT_OK", rows, held)
                          /\ \/ held = 0
                             \/ /\ q.filters # <<>> /\ found.res = "RESULT_OK"
                                /\ held = HeldWithoutRows(found.held)
    BY <1>7
  <2>2. held \in Nat
    BY <1>2, <2>1 DEF Found, HeldWithoutRows
  <2>3. held # 0 => Leaks(query', "RESULT_OK")
    BY <1>1, <1>2, <2>1 DEF FiltersHold, HeldWithoutRows, Leaks, WhereOf
  <2>. QED BY <1>1, <1>3, <2>1, <2>2, <2>3, ReplyKeeps
<1>8. CASE \/ found.res = "SIGSEGV" /\ Abort("segfault")
           \/ found.res \notin {"RESULT_OK", "SIGSEGV"} /\ Reply(found.res, <<>>, found.held)
  BY <1>1, <1>2, <1>8, FiltersFail
<1>. QED BY <1>1, <1>5, <1>6, <1>7, <1>8 DEF Select

LEMMA BeginsKeeps ==
    ASSUME IInv, NEW q \in Queries, Begins(q)
    PROVE  [StorageNext]_storageVars /\ IInv'
BY NotFoundKeeps, BeginCreateKeeps, BeginInsertKeeps, BeginDeleteKeeps, BeginUpdateKeeps,
   SelectKeeps DEF Begins

----------------------------------------------------------------------------
(* The turns of the loops.                                                 *)

LEMMA HeadTail ==
    ASSUME NEW S, NEW l \in Seq(S), l # <<>>
    PROVE  /\ Head(l) \in S /\ Tail(l) \in Seq(S) /\ Len(l) \in Nat \ {0}
           /\ Len(Tail(l)) = Len(l) - 1
           /\ Head(l) = l[1] /\ DOMAIN l = 1 .. Len(l) /\ DOMAIN Tail(l) = 1 .. Len(l) - 1
           /\ \A i \in 1 .. Len(l) - 1 : Tail(l)[i] = l[i + 1]
OBVIOUS

LEMMA TailDistinct ==
    ASSUME NEW S, NEW l \in Seq(S), l # <<>>, Distinct(l)
    PROVE  Distinct(Tail(l))
<1>1. /\ Len(l) \in Nat \ {0} /\ DOMAIN l = 1 .. Len(l) /\ DOMAIN Tail(l) = 1 .. Len(l) - 1
      /\ \A i \in 1 .. Len(l) - 1 : Tail(l)[i] = l[i + 1]
  BY HeadTail
<1>2. ASSUME NEW i \in DOMAIN Tail(l), NEW j \in DOMAIN Tail(l), Tail(l)[i] = Tail(l)[j]
      PROVE  i = j
  <2>1. i + 1 \in DOMAIN l /\ j + 1 \in DOMAIN l /\ l[i + 1] = l[j + 1]
    BY <1>1, <1>2
  <2>2. i + 1 = j + 1
    BY <2>1 DEF Distinct
  <2>. QED BY <1>1, <2>2
<1>. QED BY <1>2 DEF Distinct

LEMMA TailAscends ==
    ASSUME NEW S \in SUBSET Int, NEW l \in Seq(S), l # <<>>, Ascending(l)
    PROVE  Ascending(Tail(l)) /\ \A i \in 1 .. Len(l) - 1 : Tail(l)[i] >= l[1] + 1
<1>1. /\ Len(l) \in Nat \ {0} /\ DOMAIN l = 1 .. Len(l) /\ DOMAIN Tail(l) = 1 .. Len(l) - 1
      /\ \A i \in 1 .. Len(l) - 1 : Tail(l)[i] = l[i + 1]
  BY HeadTail
<1>2. ASSUME NEW i \in DOMAIN Tail(l), NEW j \in DOMAIN Tail(l), i < j
      PROVE  Tail(l)[i] < Tail(l)[j]
  <2>1. i + 1 \in DOMAIN l /\ j + 1 \in DOMAIN l /\ i + 1 < j + 1
    BY <1>1, <1>2
  <2>. QED BY <1>1, <2>1 DEF Ascending
<1>3. ASSUME NEW i \in 1 .. Len(l) - 1 PROVE Tail(l)[i] >= l[1] + 1
  <2>1. 1 \in DOMAIN l /\ i + 1 \in DOMAIN l /\ 1 < i + 1
    BY <1>1
  <2>2. l[1] < l[i + 1]
    BY <2>1 DEF Ascending
  <2>3. \A k \in DOMAIN l : l[k] \in S
    OBVIOUS
  <2>4. l[1] \in Int /\ l[i + 1] \in Int
    BY <2>1, <2>3
  <2>. QED BY <1>1, <2>2, <2>4
<1>. QED BY <1>2, <1>3 DEF Ascending

\* A turn changes neither the query nor the loop it is in.
LEMMA TurnKeeps ==
    ASSUME IInv, TypeInv', NextTurn, deleted' \in Nat,
           Bounded', Creating', Inserting', Deleting', Updating', pc \in Loops
    PROVE  IInv'
<1>1. UNCHANGED <<query, pc, lists, result, output>>
  BY DEF NextTurn
<1>2. Asking'
  BY <1>1 DEF Asking, IInv
<1>3. OnlyRecklessQueriesSegfault' /\ LeaksInv'
  BY <1>1 DEF IInv, OnlyRecklessQueriesSegfault, LeaksInv, OnlyKnownLeaks, Keeping, Loops
<1>. QED BY <1>2, <1>3 DEF IInv

LEMMA NewColumnLength ==
    ASSUME TypeInv, TypeInv', NEW t \in DOMAIN tables, NEW type, NEW name,
           tables' = [tables EXCEPT ![t].columns = Append(@, NewColumn(t, type, name))]
    PROVE  Len(tables') = Len(tables) /\ Len(tables'[t].columns) = Len(tables[t].columns) + 1
<1>1. DOMAIN tables' = DOMAIN tables
  OBVIOUS
<1>2. tables'[t].columns = Append(tables[t].columns, NewColumn(t, type, name))
  <2>1. tables[t] \in TableType(tables[t].row_capacity)
    BY TableFacts
  <2>. QED BY <2>1 DEF TableType
<1>3. tables[t].columns \in Seq(ColumnType(tables[t].row_capacity))
  BY ColumnLengths DEF TypeInv
<1>4. Len(Append(tables[t].columns, NewColumn(t, type, name))) = Len(tables[t].columns) + 1
  BY <1>3
<1>. QED BY <1>1, <1>2, <1>4, SameLengths

LEMMA CreateColumnKeeps ==
    ASSUME IInv, CreateColumn
    PROVE  [StorageNext]_storageVars /\ IInv'
<1>. SUFFICES ASSUME NEW i, i = Head(work), NEW t, t = Len(tables),
                     NEW type, type = BaseTypeFromStr(query.types[i]),
                     NEW name, name = query.columns[i]
              PROVE  [StorageNext]_storageVars /\ IInv'
  OBVIOUS
<1>1. /\ pc = "create" /\ status = "up" /\ work # <<>>
      /\ query \in Queries /\ query.type = "CREATE" /\ tables # <<>>
      /\ work \in Seq(DOMAIN query.columns)
      /\ \A k \in DOMAIN query.types : BaseTypeFromStr(query.types[k]) \in BaseType
      /\ Len(tables[t].columns) + Len(work) <= MaxColumns
      /\ TypeInv
  BY DEF CreateColumn, Looping, IInv, Creating
<1>2. /\ query.columns \in Seq(ColumnName) /\ query.types \in Seq(ToSet(query.types))
  BY <1>1, InterpreterAssumption
<1>3. Target = t /\ t \in DOMAIN tables
  BY <1>1, EmptySeq DEF Target, TypeInv
<1>4. /\ i \in DOMAIN query.columns /\ Tail(work) \in Seq(DOMAIN query.columns)
      /\ Len(work) \in Nat \ {0} /\ Len(Tail(work)) = Len(work) - 1
  BY <1>1, HeadTail
<1>5. ~Filling
  BY <1>1 DEF IInv, Inserting
<1>6. /\ t \in Nat /\ MaxTables \in Nat /\ MaxColumns \in Nat /\ columnId \in Nat
      /\ t * MaxColumns \in Nat /\ t * MaxColumns <= MaxTables * MaxColumns
      /\ MaxTables * MaxColumns \in Nat
      /\ columnId + Len(work) <= t * MaxColumns /\ t <= MaxTables
  <2>1. Owed = Len(work)
    BY <1>1 DEF Owed
  <2>. QED BY <2>1, Spent, Room DEF IInv, Bounded
<1>7. CASE /\ i \notin DOMAIN query.types
           /\ Abort(IF query.types = <<>> THEN "fatal" ELSE "segfault")
           /\ UNCHANGED <<storageVars, query>>
  <2>1. TypeInv' /\ Len(tables') <= MaxTables /\ columnId' <= Len(tables') * MaxColumns
        /\ ~Filling'
    <3>1. TypeInv'
      BY <1>1, <1>7, StorageTypesStep
    <3>2. Len(tables) <= MaxTables /\ columnId <= Len(tables) * MaxColumns
      BY Spent DEF IInv, Bounded
    <3>. QED BY <1>5, <1>7, <3>1, <3>2 DEF storageVars, Filling
  <2>2. Len(query.types) < Len(query.columns)
    BY <1>2, <1>4, <1>7
  <2>3. Reckless(query)'
    BY <1>1, <1>7, <2>2 DEF Reckless
  <2>. QED BY <1>1, <1>7, <2>1, <2>3, AbortKeeps
<1>8. CASE /\ i \in DOMAIN query.types /\ TableColumnNew(t, type, name)
           /\ tables' # tables /\ NextTurn /\ UNCHANGED deleted
  <2>1. StorageNext
    <3>1. columnId < MaxTables * MaxColumns /\ Len(tables[t].columns) < MaxColumns
      <4>1. Len(tables[t].columns) \in Nat
        BY <1>1, <1>3, Lengths
      <4>. QED BY <1>1, <1>4, <1>6, <4>1
    <3>2. type \in BaseType /\ name \in ColumnName
      BY <1>1, <1>2, <1>4, <1>8
    <3>3. ClientNewColumn
      BY <1>1, <1>3, <1>5, <1>8, <3>1, <3>2 DEF ClientNewColumn, Ready
    <3>. QED BY <3>3 DEF StorageNext
  <2>2. TypeInv'
    BY <1>1, <2>1, StorageTypesStep
  <2>3. /\ tables' = [tables EXCEPT ![t].columns = Append(@, NewColumn(t, type, name))]
        /\ columnId' = columnId + 1 /\ UNCHANGED <<fill, status>>
    BY <1>8 DEF TableColumnNew
  <2>4. Len(tables') = t /\ Len(tables'[t].columns) = Len(tables[t].columns) + 1
    BY <1>1, <1>3, <2>2, <2>3, NewColumnLength
  <2>5. UNCHANGED <<query, pc>> /\ work' = Tail(work) /\ deleted' \in Nat
    BY <1>8 DEF NextTurn, IInv, Asking
  <2>6. Bounded'
    BY <1>1, <1>4, <1>6, <2>3, <2>4, <2>5 DEF Bounded, Owed
  <2>7. Creating'
    <3>1. Len(tables[t].columns) \in Nat
      BY <1>1, <1>3, Lengths
    <3>2. tables' # <<>>
      BY <1>3, <2>4, EmptySeq, Spent
    <3>3. Len(tables'[Len(tables')].columns) = Len(tables[t].columns) + 1
      BY <2>4
    <3>4. Len(work') = Len(work) - 1 /\ Len(tables[t].columns) + Len(work) <= MaxColumns
      BY <1>1, <1>4, <2>5
    <3>5. Len(tables'[Len(tables')].columns) + Len(work') <= MaxColumns
      <4>1. ASSUME NEW k \in Nat, NEW w \in Nat, k + w <= MaxColumns
            PROVE  (k + 1) + (w - 1) <= MaxColumns
        BY <1>6, <4>1
      <4>2. Len(work) \in Nat
        BY <1>4
      <4>. QED BY <3>1, <3>3, <3>4, <4>1, <4>2
    <3>. QED BY <1>1, <1>4, <2>5, <3>2, <3>5 DEF Creating
  <2>8. Inserting' /\ Deleting' /\ Updating'
    BY <1>1, <1>5, <2>3, <2>5 DEF Inserting, Deleting, Updating, Filling
  <2>. QED BY <1>1, <1>8, <2>1, <2>2, <2>5, <2>6, <2>7, <2>8, TurnKeeps DEF Loops
<1>9. CASE \/ /\ i \in DOMAIN query.types /\ TableColumnNew(t, type, name)
              /\ tables' = tables /\ Abort("fatal") /\ UNCHANGED query
           \/ Abort("fatal") /\ UNCHANGED <<storageVars, query>>
  <2>1. [StorageNext]_storageVars
    <3>1. columnId < MaxTables * MaxColumns /\ Len(tables[t].columns) < MaxColumns
      <4>1. Len(tables[t].columns) \in Nat
        BY <1>1, <1>3, Lengths
      <4>. QED BY <1>1, <1>4, <1>6, <4>1
    <3>2. i \in DOMAIN query.types => type \in BaseType /\ name \in ColumnName
      BY <1>1, <1>2, <1>4
    <3>3. i \in DOMAIN query.types /\ TableColumnNew(t, type, name) => ClientNewColumn
      BY <1>1, <1>3, <1>5, <3>1, <3>2 DEF ClientNewColumn, Ready
    <3>. QED BY <1>9, <3>3 DEF StorageNext
  <2>2. TypeInv'
    BY <1>1, <2>1, StorageTypesStep
  <2>3. /\ tables' = tables /\ UNCHANGED <<query, fill, status>> /\ Abort("fatal")
        /\ columnId' \in {columnId, columnId + 1}
    BY <1>9 DEF TableColumnNew, storageVars
  <2>4. Len(tables') <= MaxTables /\ columnId' <= Len(tables') * MaxColumns /\ ~Filling'
    BY <1>4, <1>5, <1>6, <2>3 DEF Filling
  <2>. QED BY <1>1, <2>1, <2>2, <2>3, <2>4, AbortKeeps
<1>. QED BY <1>3, <1>7, <1>8, <1>9 DEF CreateColumn

\* Each value of an INSERT fills one slot, and the last fills the last.
LEMMA InsertValueKeeps ==
    ASSUME IInv, InsertValue
    PROVE  [StorageNext]_storageVars /\ IInv'
<1>. SUFFICES ASSUME NEW t, t = fill.table, NEW c, c = fill.col,
                     NEW n, n = Len(tables[t].columns)
              PROVE  [StorageNext]_storageVars /\ IInv'
  OBVIOUS
<1>1. /\ pc = "insert" /\ status = "up" /\ work # <<>> /\ work \in Seq(Str)
      /\ Filling /\ Len(work) = n - c + 1
      /\ NextTurn /\ UNCHANGED deleted /\ TypeInv
  BY DEF InsertValue, Looping, IInv, Inserting
<1>2. t \in DOMAIN tables /\ c \in Columns(t)
  BY <1>1 DEF TypeInv
<1>3. n \in Nat /\ Columns(t) = 1 .. n
  BY <1>1, <1>2, Lengths
<1>4. /\ Head(work) \in Str /\ Tail(work) \in Seq(Str)
      /\ Len(work) \in Nat \ {0} /\ Len(Tail(work)) = Len(work) - 1
  BY <1>1, HeadTail
<1>5. ClientFill
  <2>1. TypeOf(t, c) \in BaseType
    BY <1>1, <1>2, ColumnFacts DEF ColumnType, TypeOf
  <2>2. SlotValue(TypeOf(t, c), Head(work)) \in ValuesFor(t, c)
    BY <1>4, <2>1, SlotValueType
  <2>3. FillCell(SlotValue(TypeOf(t, c), Head(work)))
    BY DEF InsertValue
  <2>. QED BY <1>1, <2>2, <2>3 DEF ClientFill
<1>6. StorageNext
  BY <1>5 DEF StorageNext
<1>7. TypeInv'
  BY <1>1, <1>6, StorageTypesStep
<1>8. UNCHANGED <<query, pc>> /\ work' = Tail(work) /\ deleted' \in Nat
  BY <1>1 DEF NextTurn, IInv, Asking
<1>9. /\ SameColumns /\ columnId' = columnId
      /\ \/ status' # "up"
         \/ fill' = NextFill /\ status' = status
  BY <1>1, <1>5, FillIsWrite, TablesStay DEF Crash
<1>10. Len(tables') = Len(tables) /\ Len(tables'[t].columns) = n
  BY <1>1, <1>2, <1>7, <1>9, SameLengths DEF SameColumns
<1>11. Bounded'
  <2>1. Len(tables) <= MaxTables /\ columnId <= Len(tables) * MaxColumns /\ columnId \in Nat
    BY Spent DEF IInv, Bounded
  <2>. QED BY <1>1, <1>8, <1>9, <1>10, <2>1 DEF Bounded, Owed
<1>12. Inserting'
  <2>1. CASE status' # "up"
    BY <1>1, <1>4, <1>8, <2>1 DEF Inserting
  <2>2. CASE fill' = NextFill /\ c < n
    <3>1. fill' = [fill EXCEPT !.col = c + 1]
      BY <2>2 DEF NextFill
    <3>2. fill'.table = t /\ fill'.col = c + 1 /\ Filling'
      BY <1>1, <1>2, <1>3, <3>1 DEF TypeInv, Filling
    <3>3. work' # <<>> /\ Len(work') = n - fill'.col + 1
      <4>1. Len(work') = n - c
        BY <1>1, <1>2, <1>3, <1>4, <1>8
      <4>2. n - c > 0 /\ n - c = n - (c + 1) + 1
        BY <1>2, <1>3, <2>2
      <4>3. Len(work') > 0
        BY <1>2, <1>3, <4>1, <4>2
      <4>4. ASSUME work' = <<>> PROVE FALSE
        <5>1. Len(work') = 0
          BY <4>4
        <5>. QED BY <4>3, <5>1
      <4>. QED BY <3>2, <4>1, <4>2, <4>4
    <3>. QED BY <1>1, <1>4, <1>8, <1>10, <3>2, <3>3 DEF Inserting
  <2>3. CASE fill' = NextFill /\ ~(c < n)
    <3>1. ~Filling'
      BY <2>3 DEF NextFill, NoFill, Filling
    <3>2. Len(work') = 0
      BY <1>1, <1>2, <1>3, <1>4, <1>8, <2>3
    <3>3. work' = <<>>
      BY <1>4, <1>8, <3>2, EmptySeq
    <3>. QED BY <1>1, <1>4, <1>8, <3>1, <3>3 DEF Inserting
  <2>. QED BY <1>9, <2>1, <2>2, <2>3
<1>13. Creating' /\ Deleting' /\ Updating'
  BY <1>1, <1>8 DEF Creating, Deleting, Updating
<1>. QED BY <1>1, <1>6, <1>7, <1>8, <1>11, <1>12, <1>13, TurnKeeps DEF Loops

\* Once a row is deleted, the number of a later one is in range one place earlier.
LEMMA NextShifted ==
    ASSUME NEW n \in Nat, NEW a \in Nat, NEW b \in Nat, NEW d \in Nat, NEW r,
           r \in {n, n - 1}, a - d \in Slots(n), b - d \in Slots(n), b >= a + 1
    PROVE  b - (d + 1) \in Slots(r)
<1>1. r \in Int /\ r >= n - 1
  OBVIOUS
<1>2. 0 <= a - d /\ b - d <= n - 1
  BY DEF Slots
<1>3. b - (d + 1) >= a - d /\ b - (d + 1) <= n - 2
  BY <1>2
<1>. QED BY <1>1, <1>2, <1>3 DEF Slots

\* Only rows joined by OR can be out of the table when their turn comes.
LEMMA OutOfBounds ==
    ASSUME IInv, pc = "delete", work # <<>>, DeleteIndex >= RowCount
    PROVE  ~NoOr(query.filters)
<1>. SUFFICES ASSUME NoOr(query.filters) PROVE FALSE
  OBVIOUS
<1>1. /\ work \in Seq(Nat) /\ Len(work) <= RowCount /\ deleted \in Nat
      /\ \A i \in DOMAIN work : work[i] - deleted \in Slots(RowCount)
  BY DEF IInv, Deleting, Asking
<1>2. RowCount \in Nat
  BY NamedTable, TableFacts DEF IInv, Deleting, Target, RowCount
<1>3. Len(work) \in Nat \ {0} /\ Head(work) = work[1] /\ 1 \in DOMAIN work
  BY <1>1, HeadTail
<1>4. query.filters # <<>>
  BY <1>1, <1>2, <1>3 DEF DeleteIndex
<1>5. PICK x \in Nat : x = Head(work) - deleted /\ x < RowCount
  BY <1>1, <1>2, <1>3 DEF Slots
<1>6. DeleteIndex = x % Mod64
  BY <1>4, <1>5 DEF DeleteIndex
<1>7. x % Mod64 <= x
  BY FilterAssumption, RemainderBelow
<1>8. x % Mod64 \in Int
  BY FilterAssumption
<1>. QED BY <1>2, <1>5, <1>6, <1>7, <1>8

\* Rows are deleted in ascending order, so the numbers of those still to be
\* deleted all shift by one, and so does the end of the table.
LEMMA DeleteRowKeeps ==
    ASSUME IInv, DeleteRow
    PROVE  [StorageNext]_storageVars /\ IInv'
<1>. SUFFICES ASSUME NEW t, t = Target, NEW n, n = tables[t].row_count,
                     NEW index, index = DeleteIndex
              PROVE  [StorageNext]_storageVars /\ IInv'
  OBVIOUS
<1>1. /\ pc = "delete" /\ status = "up" /\ work # <<>>
      /\ query \in Queries /\ query.type = "DELETE" /\ TablesNamed(query.table) # {}
      /\ work \in Seq(Nat) /\ TypeInv /\ TableRowDelete(t, index)
      /\ RowCount = n /\ deleted \in Nat
  BY DEF DeleteRow, Looping, IInv, Deleting, Asking, RowCount
<1>2. t \in DOMAIN tables
  BY <1>1, NamedTable DEF Target
<1>3. n \in Nat
  BY <1>1, <1>2, TableFacts
<1>4. /\ Head(work) \in Nat /\ Tail(work) \in Seq(Nat) /\ Head(work) = work[1]
      /\ Len(work) \in Nat \ {0} /\ Len(Tail(work)) = Len(work) - 1
      /\ DOMAIN work = 1 .. Len(work) /\ DOMAIN Tail(work) = 1 .. Len(work) - 1
      /\ \A i \in 1 .. Len(work) - 1 : Tail(work)[i] = work[i + 1]
  BY <1>1, HeadTail
<1>5. index \in Nat
  <2>1. \A x \in Int : x % Mod64 \in Nat
    BY FilterAssumption
  <2>. QED BY <1>1, <1>4, <2>1 DEF DeleteIndex
<1>6. ~Filling
  BY <1>1 DEF IInv, Inserting
<1>7. CASE index >= n
  <2>1. UNCHANGED storageVars /\ Reply("RESULT_INDEX_OUT_OF_BOUNDS", <<>>, lists) /\ UNCHANGED query
    BY <1>1, <1>3, <1>5, <1>7 DEF DeleteRow, TableRowDelete
  <2>2. TypeInv'
    BY <1>1, <2>1, StorageTypesStep
  <2>3. Len(tables') <= MaxTables /\ columnId' <= Len(tables') * MaxColumns /\ ~Filling'
    <3>1. Len(tables) <= MaxTables /\ columnId <= Len(tables) * MaxColumns
      BY Spent DEF IInv, Bounded
    <3>. QED BY <1>6, <2>1, <3>1 DEF storageVars, Filling
  <2>4. ~NoOr(query.filters)
    BY <1>1, <1>7, OutOfBounds
  <2>5. Leaks(query', "RESULT_INDEX_OUT_OF_BOUNDS")
    BY <1>1, <2>1, <2>4 DEF NoOr, Leaks
  <2>. QED BY <1>1, <2>1, <2>2, <2>3, <2>5, ReplyKeeps DEF IInv, Asking
<1>8. CASE index < n
  <2>1. NextTurn /\ deleted' = deleted + 1
    BY <1>8 DEF DeleteRow
  <2>2. StorageNext
    <3>1. index \in 0 .. n
      BY <1>3, <1>5, <1>8
    <3>. QED BY <1>1, <1>2, <1>6, <3>1 DEF ClientDelete, Ready, StorageNext
  <2>3. TypeInv'
    BY <1>1, <2>2, StorageTypesStep
  <2>4. UNCHANGED <<query, pc>> /\ work' = Tail(work) /\ deleted' \in Nat
    BY <1>1, <2>1 DEF NextTurn
  <2>5. \/ UNCHANGED tables
        \/ tables' = [tables EXCEPT ![t] = RemoveRow(tables[t], index)]
    BY <1>1, <1>3, <1>5, <1>8 DEF TableRowDelete, Crash
  <2>6. /\ DOMAIN tables' = DOMAIN tables
        /\ \A u \in DOMAIN tables : tables'[u].name = tables[u].name
        /\ tables'[t].row_count \in {n, n - 1}
    <3>1. CASE tables' = [tables EXCEPT ![t] = RemoveRow(tables[t], index)]
      <4>1. SameShape(t)
        BY <1>1, <1>2, <3>1, DeleteKeepsShape
      <4>2. RemoveRow(tables[t], index).row_count = n - 1
        <5>1. tables[t] \in TableType(tables[t].row_capacity)
          BY <1>1, <1>2, TableFacts
        <5>. QED BY <5>1 DEF RemoveRow, TableType
      <4>. QED BY <1>2, <3>1, <4>1, <4>2 DEF SameShape
    <3>. QED BY <2>5, <3>1
  <2>7. UNCHANGED <<columnId, fill>>
    BY <1>1 DEF TableRowDelete, Crash, storageVars
  <2>8. Target' = t /\ TablesNamed(query.table)' = TablesNamed(query.table)
    BY <1>1, <2>4, <2>6, SameTarget
  <2>9. RowCount' \in {n, n - 1}
    BY <2>6, <2>8 DEF RowCount
  <2>10. Bounded'
    <3>1. Len(tables) <= MaxTables /\ columnId <= Len(tables) * MaxColumns /\ columnId \in Nat
      BY Spent DEF IInv, Bounded
    <3>2. Len(tables') = Len(tables)
      BY <1>1, <2>3, <2>6, SameLengths
    <3>. QED BY <1>1, <2>4, <2>7, <3>1, <3>2 DEF Bounded, Owed
  <2>11. Deleting'
    <3>1. ASSUME NoOr(query.filters)
          PROVE  /\ Ascending(work')
                 /\ Len(work') <= RowCount'
                 /\ \A i \in DOMAIN work' : work'[i] - deleted' \in Slots(RowCount')
      <4>1. /\ Ascending(work) /\ Len(work) <= n
            /\ \A i \in DOMAIN work : work[i] - deleted \in Slots(n)
        BY <1>1, <3>1 DEF IInv, Deleting
      <4>2. Nat \in SUBSET Int
        OBVIOUS
      <4>3. /\ Ascending(Tail(work))
            /\ \A i \in 1 .. Len(work) - 1 : Tail(work)[i] >= work[1] + 1
        BY <1>1, <4>1, <4>2, TailAscends
      <4>4. Len(work') <= RowCount'
        BY <1>3, <1>4, <2>4, <2>9, <4>1
      <4>5. ASSUME NEW i \in 1 .. Len(work) - 1
            PROVE  Tail(work)[i] - (deleted + 1) \in Slots(RowCount')
        <5>1. /\ 1 \in DOMAIN work /\ i + 1 \in DOMAIN work
              /\ Tail(work)[i] = work[i + 1] /\ Tail(work)[i] >= work[1] + 1
          BY <1>4, <4>3
        <5>2. work[1] - deleted \in Slots(n) /\ work[i + 1] - deleted \in Slots(n)
          BY <4>1, <5>1
        <5>3. work[1] \in Nat /\ work[i + 1] \in Nat
          BY <1>1, <1>4, <5>1
        <5>4. ASSUME NEW a \in Nat, NEW b \in Nat, NEW d \in Nat, NEW r,
                     r \in {n, n - 1}, a - d \in Slots(n), b - d \in Slots(n), b >= a + 1
              PROVE  b - (d + 1) \in Slots(r)
          BY <1>3, <5>4, NextShifted
        <5>. QED BY <1>1, <2>9, <5>1, <5>2, <5>3, <5>4
      <4>. QED BY <1>4, <2>1, <2>4, <4>3, <4>4, <4>5
    <3>. QED BY <1>1, <1>4, <2>4, <2>8, <3>1 DEF Deleting
  <2>12. Creating' /\ Inserting' /\ Updating'
    BY <1>1, <1>6, <2>4, <2>7 DEF Creating, Inserting, Updating, Filling
  <2>. QED BY <1>1, <2>1, <2>2, <2>3, <2>4, <2>10, <2>11, <2>12, TurnKeeps DEF Loops
<1>. QED BY <1>3, <1>5, <1>7, <1>8

\* A write changes no table's number of rows.
LEMMA WriteKeepsCounts ==
    ASSUME TypeInv, NEW t \in DOMAIN tables, NEW c \in Columns(t), NEW r, NEW value,
           tables' = [tables EXCEPT ![t].columns[c].data[r] = value]
    PROVE  tables'[t].row_count = tables[t].row_count
<1>1. tables[t] \in TableType(tables[t].row_capacity)
  BY TableFacts
<1> DEFINE columns == [tables[t].columns EXCEPT ![c].data[r] = value]
<1>2. tables' = [tables EXCEPT ![t] = [tables[t] EXCEPT !.columns = columns]]
  BY <1>1 DEF TableType
<1>. HIDE DEF columns
<1>3. tables'[t] = [tables[t] EXCEPT !.columns = columns]
  BY <1>2
<1>. QED BY <1>1, <1>3 DEF TableType

\* A value is replaced in a row the table has, and no row is lost or moved.
LEMMA UpdateValueKeeps ==
    ASSUME IInv, UpdateValue
    PROVE  [StorageNext]_storageVars /\ IInv'
<1>. SUFFICES ASSUME NEW t, t = Target, NEW n, n = RowCount, NEW k, k = Head(work).nth,
                     NEW r, r = Head(work).row, NEW c, c = UpdateColumns[k],
                     NEW columns, columns = UpdateColumns
              PROVE  [StorageNext]_storageVars /\ IInv'
  OBVIOUS
<1>1. /\ pc = "update" /\ status = "up" /\ work # <<>>
      /\ query \in Queries /\ query.type = "UPDATE" /\ TablesNamed(query.table) # {}
      /\ work \in Seq([row : Slots(n), nth : DOMAIN columns])
      /\ Len(columns) <= Len(query.values) /\ Distinct(work)
      /\ NextTurn /\ UNCHANGED deleted /\ TypeInv
      /\ ReplaceCell(t, c, r, SlotValue(TypeOf(t, c), query.values[k]))
  BY DEF UpdateValue, Looping, IInv, Updating
<1>2. t \in DOMAIN tables /\ n = tables[t].row_count
  BY <1>1, NamedTable DEF Target, RowCount
<1>3. /\ Head(work) \in [row : Slots(n), nth : DOMAIN columns]
      /\ Tail(work) \in Seq([row : Slots(n), nth : DOMAIN columns])
  BY <1>1, HeadTail
<1>4. k \in DOMAIN columns /\ r \in Slots(n)
  BY <1>3
<1>5. columns \in Seq(Columns(t))
  BY <1>1, <1>2, ColumnListFacts DEF UpdateColumns
<1>6. c \in Columns(t)
  BY <1>4, <1>5, ElementOfSeq
<1>7. query.values[k] \in Str
  <2>1. query.values \in Seq(Str)
    BY <1>1, InterpreterAssumption
  <2>2. k \in 1 .. Len(query.values)
    <3>1. k \in 1 .. Len(columns) /\ Len(columns) \in Nat /\ Len(query.values) \in Nat
      BY <1>4, <1>5, <2>1
    <3>. QED BY <1>1, <3>1
  <2>. QED BY <2>1, <2>2, ElementOfSeq
<1>8. ClientReplace
  <2>1. TypeOf(t, c) \in BaseType
    BY <1>1, <1>2, <1>6, ColumnFacts DEF ColumnType, TypeOf
  <2>2. SlotValue(TypeOf(t, c), query.values[k]) \in ValuesFor(t, c)
    BY <1>7, <2>1, SlotValueType
  <2>3. Ready
    BY <1>1 DEF IInv, Inserting, Ready
  <2>. QED BY <1>1, <1>2, <1>4, <1>6, <2>2, <2>3 DEF ClientReplace, Columns
<1>9. StorageNext
  BY <1>8 DEF StorageNext
<1>10. TypeInv'
  BY <1>1, <1>9, StorageTypesStep
<1>11. UNCHANGED <<query, pc>> /\ work' = Tail(work) /\ deleted' \in Nat
  BY <1>1 DEF NextTurn, IInv, Asking
<1>12. UNCHANGED <<columnId, fill>>
  BY <1>1, <1>8, ReplaceIsWrite DEF Crash
<1>13. /\ DOMAIN tables' = DOMAIN tables
       /\ \A u \in DOMAIN tables : SameShape(u)
       /\ tables'[t].row_count = n
  <2>1. CASE UNCHANGED tables
    BY <1>2, <2>1 DEF SameShape, Columns, TypeOf
  <2>2. CASE tables' # tables
    <3>1. ~Crash /\ Writable(t, c, r)
      BY <1>1, <2>2 DEF Crash, ReplaceCell
    <3>2. r \in DOMAIN tables[t].columns[c].data
      BY <3>1 DEF Writable
    <3>3. PICK stored : tables' = [tables EXCEPT ![t].columns[c].data[r] = stored]
      BY <1>1, <3>1 DEF ReplaceCell
    <3>4. \A u \in DOMAIN tables : SameShape(u)
      BY <1>1, <1>2, <1>6, <3>2, <3>3, WriteKeepsShape
    <3>5. tables'[t].row_count = tables[t].row_count
      BY <1>1, <1>2, <1>6, <3>3, WriteKeepsCounts
    <3>6. DOMAIN tables' = DOMAIN tables
      BY <3>3
    <3>. QED BY <1>2, <3>4, <3>5, <3>6
  <2>. QED BY <2>1, <2>2
<1>14. Target' = t /\ TablesNamed(query.table)' = TablesNamed(query.table)
  BY <1>1, <1>11, <1>13, SameTarget DEF SameShape
<1>15. RowCount' = n /\ UpdateColumns' = columns
  BY <1>2, <1>11, <1>13, <1>14, SameUpdateColumns DEF RowCount
<1>16. Updating'
  BY <1>1, <1>3, <1>11, <1>14, <1>15, TailDistinct DEF Updating
<1>17. Bounded'
  <2>1. Len(tables) <= MaxTables /\ columnId <= Len(tables) * MaxColumns /\ columnId \in Nat
    BY Spent DEF IInv, Bounded
  <2>2. Len(tables') = Len(tables)
    BY <1>1, <1>10, <1>13, SameLengths
  <2>. QED BY <1>1, <1>11, <1>12, <2>1, <2>2 DEF Bounded, Owed
<1>18. Creating' /\ Inserting' /\ Deleting'
  BY <1>1, <1>11, <1>12 DEF IInv, Creating, Inserting, Deleting, Filling
<1>. QED BY <1>1, <1>9, <1>10, <1>11, <1>16, <1>17, <1>18, TurnKeeps DEF Loops

LEMMA ReturnKeeps ==
    ASSUME IInv, Return
    PROVE  [StorageNext]_storageVars /\ IInv'
<1>1. /\ work = <<>> /\ UNCHANGED storageVars /\ query' = query
      /\ pc \in Loops /\ Reply("RESULT_OK", <<>>, lists - Freed(query))
  BY DEF Return
<1>2. TypeInv'
  BY <1>1, StorageTypesStep DEF IInv
<1>3. Len(tables) <= MaxTables /\ columnId <= Len(tables) * MaxColumns
  BY Spent DEF IInv, Bounded
<1>4. status = "up" => ~Filling
  BY <1>1 DEF IInv, Inserting
<1>5. Len(tables') <= MaxTables /\ columnId' <= Len(tables') * MaxColumns
  BY <1>1, <1>3 DEF storageVars
<1>6. status' = "up" => ~Filling'
  BY <1>1, <1>4 DEF storageVars, Filling
<1>7. query' \in Queries \cup {[type |-> "NONE"]}
  BY <1>1 DEF IInv, Asking
<1>8. /\ lists \in Nat /\ Freed(query) \in Nat /\ lists >= Freed(query)
      /\ AllJoined(WhereOf(query)) => lists = Freed(query)
  BY <1>1 DEF IInv, Asking, LeaksInv, Keeping, Freed
<1>9. lists - Freed(query) \in Nat
  BY <1>8
<1>10. lists - Freed(query) # 0 => ~AllJoined(WhereOf(query))
  BY <1>8
<1>11. ~AllJoined(WhereOf(query)) => Leaks(query', "RESULT_OK")
  BY <1>1 DEF Leaks
<1>. QED BY <1>1, <1>2, <1>5, <1>6, <1>7, <1>9, <1>10, <1>11, ReplyKeeps

LEMMA ShutdownKeeps ==
    ASSUME IInv, Shutdown
    PROVE  [StorageNext]_storageVars /\ IInv'
<1>1. ClientDeinit /\ pc = "idle" /\ UNCHANGED interpreterVars
  BY IdleFacts DEF Shutdown, Idle, ClientDeinit
<1>2. StorageNext
  BY <1>1 DEF StorageNext
<1>3. TypeInv'
  BY <1>2, StorageTypesStep DEF IInv
<1>4. UNCHANGED <<tables, columnId>> /\ status' # "up"
  BY <1>1 DEF ClientDeinit, StorageDeinit, Crash
<1>5. UNCHANGED <<query, pc, work, deleted, lists, result>>
  BY <1>1 DEF interpreterVars
<1>6. Asking'
  BY <1>5 DEF IInv, Asking
<1>7. Bounded'
  BY <1>4, <1>5 DEF IInv, Bounded, Owed
<1>8. Creating' /\ Inserting' /\ Deleting' /\ Updating'
  BY <1>1, <1>4, <1>5 DEF Creating, Inserting, Deleting, Updating
<1>9. OnlyRecklessQueriesSegfault' /\ LeaksInv'
  BY <1>1, <1>5 DEF IInv, OnlyRecklessQueriesSegfault, LeaksInv, OnlyKnownLeaks, Keeping, Loops
<1>. QED BY <1>2, <1>3, <1>6, <1>7, <1>8, <1>9 DEF IInv

LEMMA StutterKeeps ==
    ASSUME IInv, UNCHANGED vars
    PROVE  IInv'
<1>1. /\ UNCHANGED <<tables, heap, tableId, columnId, fill, status>>
      /\ UNCHANGED <<query, pc, work, deleted, lists, result, output>>
  BY DEF vars, storageVars, interpreterVars
<1>2. TypeInv'
  BY <1>1, StorageTypesStep DEF IInv, storageVars
<1>3. TablesNamed(query.table)' = TablesNamed(query.table)
  BY <1>1 DEF TablesNamed
<1>4. Target' = Target
  <2>1. TableNamed(query.table)' = TableNamed(query.table)
    BY <1>3, Zenon DEF TableNamed
  <2>. QED BY <1>1, <2>1 DEF Target
<1>5. \A t, list : TableColumnGetList(t, list)' = TableColumnGetList(t, list)
  BY <1>1 DEF TableColumnGetList, Columns
<1>6. RowCount' = RowCount /\ UpdateColumns' = UpdateColumns
  <2>1. UpdateColumns' = TableColumnGetList(Target, query.columns)
    BY <1>1, <1>4 DEF UpdateColumns, TableColumnGetList, Columns
  <2>. QED BY <1>1, <1>4, <2>1 DEF RowCount, UpdateColumns
<1>7. Asking' /\ Bounded' /\ Creating' /\ Inserting'
  BY <1>1 DEF IInv, Asking, Bounded, Owed, Creating, Inserting, Filling
<1>8. Deleting' /\ Updating'
  BY <1>1, <1>3, <1>6 DEF IInv, Deleting, Updating
<1>9. OnlyRecklessQueriesSegfault'
  <2>1. TableColumnGetList(Target, query.columns)' = TableColumnGetList(Target, query.columns)
    BY <1>1, <1>4 DEF TableColumnGetList, Columns
  <2>2. Reckless(query)' = Reckless(query)
    BY <1>1, <1>4, <1>6, <2>1 DEF Reckless
  <2>. QED BY <1>1, <2>2 DEF IInv, OnlyRecklessQueriesSegfault
<1>10. LeaksInv'
  BY <1>1 DEF IInv, LeaksInv, OnlyKnownLeaks, Keeping
<1>. QED BY <1>2, <1>7, <1>8, <1>9, <1>10 DEF IInv

----------------------------------------------------------------------------
(* Every step.                                                             *)

LEMMA InitIInv == Init => StorageInit /\ IInv
<1>. SUFFICES ASSUME Init PROVE StorageInit /\ IInv
  OBVIOUS
<1>1. /\ StorageInit /\ query = [type |-> "NONE"] /\ pc = "idle" /\ work = <<>>
      /\ deleted = 0 /\ lists = 0
  BY DEF Init
<1>2. TypeInv
  BY <1>1, EmptySeq DEF StorageInit, TypeInv, NoFill, Filling
<1>3. Asking
  BY <1>1 DEF Asking
<1>4. Bounded
  <2>1. Len(tables) = 0 /\ columnId = 0 /\ Owed = 0
    BY <1>1, EmptySeq DEF StorageInit, Owed
  <2>2. MaxTables \in Nat /\ MaxColumns \in Nat
    BY StorageAssumption
  <2>. QED BY <2>1, <2>2 DEF Bounded
<1>5. Inserting
  BY <1>1 DEF Inserting, StorageInit, NoFill, Filling
<1>6. Creating /\ Deleting /\ Updating
  BY <1>1 DEF Creating, Deleting, Updating
<1>7. OnlyRecklessQueriesSegfault /\ LeaksInv
  BY <1>1 DEF OnlyRecklessQueriesSegfault, LeaksInv, OnlyKnownLeaks, Keeping, Loops
<1>. QED BY <1>1, <1>2, <1>3, <1>4, <1>5, <1>6, <1>7 DEF IInv

LEMMA IStep == IInv /\ [Next]_vars => [StorageNext]_storageVars /\ IInv'
<1>. SUFFICES ASSUME IInv, [Next]_vars
              PROVE  [StorageNext]_storageVars /\ IInv'
  OBVIOUS
<1>1. CASE \E q \in Queries : Begins(q)
  BY <1>1, BeginsKeeps
<1>2. CASE CreateColumn
  BY <1>2, CreateColumnKeeps
<1>3. CASE InsertValue
  BY <1>3, InsertValueKeeps
<1>4. CASE DeleteRow
  BY <1>4, DeleteRowKeeps
<1>5. CASE UpdateValue
  BY <1>5, UpdateValueKeeps
<1>6. CASE Return
  BY <1>6, ReturnKeeps
<1>7. CASE Shutdown
  BY <1>7, ShutdownKeeps
<1>8. CASE UNCHANGED vars
  BY <1>8, StutterKeeps DEF vars
<1>. QED BY <1>1, <1>2, <1>3, <1>4, <1>5, <1>6, <1>7, <1>8 DEF Next, Step

\* The type invariant, and what the properties say of the rows, from the
\* inductive invariant.
LEMMA IInvTypes == IInv => InterpreterTypeOK
<1>. SUFFICES ASSUME IInv PROVE InterpreterTypeOK
  OBVIOUS
<1>1. TypeOK
  BY TypeInvIsTypeOK DEF IInv
<1>2. pc = "create" => \A i \in DOMAIN work : work[i] \in DOMAIN query.columns
  BY ElementOfSeq, LenProperties DEF IInv, Creating
<1>3. pc = "insert" => \A i \in DOMAIN work : work[i] \in Str
  BY ElementOfSeq, LenProperties DEF IInv, Inserting
<1>4. pc = "delete" => \A i \in DOMAIN work : work[i] \in Nat
  BY ElementOfSeq, LenProperties DEF IInv, Deleting
<1>. QED BY <1>1, <1>2, <1>3, <1>4 DEF IInv, Asking, InterpreterTypeOK

LEMMA IInvDeletes == IInv => DeletesStayInRange
BY DEF IInv, Deleting, NoOr, Ascending, RowCount, Slots, DeletesStayInRange

LEMMA IInvInserts == IInv => InsertFillsTheRow
BY DEF IInv, Inserting, InsertFillsTheRow

LEMMA IInvUpdates == IInv => UpdatesTouchExistingCells
<1>. SUFFICES ASSUME IInv, pc = "update" PROVE UpdatesTouchExistingCells
  BY DEF UpdatesTouchExistingCells
<1>1. /\ query \in Queries /\ query.type = "UPDATE" /\ TablesNamed(query.table) # {}
      /\ work \in Seq([row : Slots(RowCount), nth : DOMAIN UpdateColumns])
      /\ Len(UpdateColumns) <= Len(query.values) /\ Distinct(work) /\ TypeInv
  BY DEF IInv, Updating
<1>2. Target \in DOMAIN tables
  BY <1>1, NamedTable DEF Target
<1>3. UpdateColumns \in Seq(Columns(Target)) /\ query.values \in Seq(Str)
  BY <1>1, <1>2, ColumnListFacts, InterpreterAssumption DEF UpdateColumns
<1>4. /\ DOMAIN UpdateColumns = 1 .. Len(UpdateColumns) /\ Len(UpdateColumns) \in Nat
      /\ DOMAIN query.values = 1 .. Len(query.values) /\ Len(query.values) \in Nat
  BY <1>3
<1>5. DOMAIN UpdateColumns \subseteq DOMAIN query.values
  BY <1>1, <1>4
<1>6. ASSUME NEW i \in DOMAIN work
      PROVE  /\ work[i].row \in Slots(RowCount)
             /\ work[i].nth \in DOMAIN UpdateColumns \cap DOMAIN query.values
  <2>1. i \in 1 .. Len(work)
    BY <1>1, <1>6, LenProperties
  <2>2. work[i] \in [row : Slots(RowCount), nth : DOMAIN UpdateColumns]
    BY <1>1, <2>1, ElementOfSeq
  <2>. QED BY <1>5, <2>2
<1>. QED BY <1>1, <1>6 DEF UpdatesTouchExistingCells, RowCount, Distinct

LEMMA AlwaysIInv == Spec => []IInv
BY InitIInv, IStep, PTL DEF Spec

----------------------------------------------------------------------------
(* The theorems.                                                           *)

\* The interpreter keeps the rules of the storage API, for any queries and
\* with allocations that may fail: it completes a row before any other call,
\* replaces values of existing rows with values of the column's type, and
\* calls nothing after storage_deinit.
THEOREM InterpreterKeepsTheRules == Spec => ImplementsStorage
BY InitIInv, IStep, PTL DEF Spec, ImplementsStorage, StorageSpec

\* Every variable of the interpreter has its type; what a loop has left to do
\* is of the kind the loop expects.
THEOREM InterpreterTypes == Spec => []InterpreterTypeOK
BY AlwaysIInv, IInvTypes, PTL

\* With filters joined by AND, the shifted number of every row still to be
\* deleted is that of a row the table has: no index wraps, no delete fails.
THEOREM DeletesAreInRange == Spec => []DeletesStayInRange
BY AlwaysIInv, IInvDeletes, PTL

\* An INSERT has as many values left as the row has unwritten slots, so no
\* query meets an incomplete row.
THEOREM InsertsFillTheirRows == Spec => []InsertFillsTheRow
BY AlwaysIInv, IInvInserts, PTL

\* The cells an UPDATE has still to replace exist, have a value to take, and
\* are all different.
THEOREM UpdatesAreInRange == Spec => []UpdatesTouchExistingCells
BY AlwaysIInv, IInvUpdates, PTL

\* Only queries of the known kinds make the interpreter follow a null pointer.
THEOREM SegfaultsAreReckless == Spec => []OnlyRecklessQueriesSegfault
<1>1. IInv => OnlyRecklessQueriesSegfault
  BY DEF IInv
<1>. QED BY <1>1, AlwaysIInv, PTL

\* For any queries, with any filters joined in any way, a query that is answered
\* has freed each list it allocated, on every way out but the five that are known
\* to leak.  A loop holds just the lists freed after it, which is the count the
\* filters leave, one for any number of them that are joined; and a DELETE runs
\* out of the table only if its filters are joined by OR.
THEOREM OnlyKnownWaysLeak == Spec => []OnlyKnownLeaks
<1>1. IInv => OnlyKnownLeaks
  BY DEF IInv, LeaksInv
<1>. QED BY <1>1, AlwaysIInv, PTL

\* What is proved of the backend under its most general client holds under the
\* interpreter: ids go on designating what they were given to, and a column that
\* lost its data is never read, although allocations may fail.
THEOREM InterpreterIdsDesignate == Spec => []IdsDesignate
BY InterpreterKeepsTheRules, IdsAlwaysDesignate, PTL DEF ImplementsStorage

THEOREM InterpreterNeverReadsLostColumns == Spec => []LostColumnIsNeverRead
BY InterpreterKeepsTheRules, LostColumnsAreNeverRead, PTL DEF ImplementsStorage

\* While memory lasts, no query makes the backend free a string twice or write
\* outside a column, and every query works on a list of tables of rows of
\* values: each step of the interpreter is a step of the row store or changes
\* nothing in it.
THEOREM QueriesAreMemorySafe ==
    ASSUME ~AllocMayFail
    PROVE  Spec => [](NoCrash /\ RowsOwnTheirStrings /\ NoLostStrings /\ NoJunkRead)
<1>1. StorageSpec => []NoCrash
  BY MemorySafe
<1>2. StorageSpec => []RowsOwnTheirStrings
  BY OwnershipCorrect
<1>3. StorageSpec => []NoLostStrings
  BY NoLeak
<1>4. StorageSpec => []NoJunkRead
  BY RowsAreWritten
<1>. QED BY <1>1, <1>2, <1>3, <1>4, InterpreterKeepsTheRules, PTL DEF ImplementsStorage

THEOREM QueriesWorkOnTheRowStore ==
    ASSUME ~AllocMayFail
    PROVE  Spec => ImplementsRowStore
BY InterpreterKeepsTheRules, BackendIsRowStore, PTL DEF ImplementsStorage

============================================================================
