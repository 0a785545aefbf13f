--------------------------- MODULE MCRegistration ---------------------------
(***************************************************************************)
(* Two e-mails, one of them in two spellings, and two usernames.           *)
(***************************************************************************)
EXTENDS Registration, TLC

MCLower == [s \in Spellings |-> IF s = "Ann@x" THEN "ann@x" ELSE s]

Symmetry == Permutations(Workers) \cup Permutations(Usernames) \cup Permutations(Ids)

(* No action reads `answer`. *)
View == <<accounts, req, hits, known>>
=============================================================================
