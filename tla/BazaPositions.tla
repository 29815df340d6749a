--------------------------- MODULE BazaPositions ---------------------------
(***************************************************************************)
(* Positions in a list, in order: the reference definitions of what a loop *)
(* over a list keeps of it.                                                *)
(***************************************************************************)
EXTENDS Integers, FiniteSets

\* The k-th of a set of positions, counted from the front.
Nth(positions, k) ==
    CHOOSE n \in positions : Cardinality({m \in positions : m <= n}) = k

\* What stands at these positions of a list.
Kept(list, positions) == [k \in 1 .. Cardinality(positions) |-> list[Nth(positions, k)]]

============================================================================
