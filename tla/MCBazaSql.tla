----------------------------- MODULE MCBazaSql -----------------------------
(* BazaSqlRefinement on the instances of MCBazaInterpreter.                *)
EXTENDS MCBazaInterpreter, BazaSqlRefinement

\* Some of these go wrong always, some depending on the table's rows.
AllQueries == WorkingQueries \cup EveryWay

============================================================================
