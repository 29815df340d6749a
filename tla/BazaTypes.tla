----------------------------- MODULE BazaTypes -----------------------------
(***************************************************************************)
(* The types of values (BaseType, src/storage.h) and the texts queries and *)
(* string slots are made of.  A text is a member of Str: the modules know  *)
(* of it only what the program can tell of it.                             *)
(***************************************************************************)

CONSTANT Str

BaseType == {"INT32", "INT64", "STRING"}

IsIntegral(type) == type \in {"INT32", "INT64"}

============================================================================
