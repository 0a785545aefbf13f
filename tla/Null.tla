-------------------------------- MODULE Null --------------------------------
(***************************************************************************)
(* What is absent: NULL in SQL, None in Python, null in TypeScript.        *)
(***************************************************************************)
CONSTANT None

Optional(S) == S \cup {None}
=============================================================================
