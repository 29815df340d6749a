--------------------------- MODULE MCBazaStorage ---------------------------
(* BazaStorage on small instances.                                         *)
EXTENDS BazaStorage, TLC

CONSTANTS a1, a2, a3, a4, a5, a6, s1, s2

\* Addresses are interchangeable: the model never compares them but for
\* equality.
AddrSymmetry == Permutations(Addr)

============================================================================
