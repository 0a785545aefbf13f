------------------------------ MODULE Buckets -------------------------------
(***************************************************************************)
(* What the two models of FixedWindowRateLimiter have in common: its dict  *)
(* of buckets, and the record of the requests of a key that it admitted.   *)
(***************************************************************************)
EXTENDS Naturals, Sequences, FiniteSets

NoBuckets == [k \in {} |-> [count |-> 0, start |-> 0]]

Put(b, k, bucket) == [j \in DOMAIN b \cup {k} |-> IF j = k THEN bucket ELSE b[j]]

(* `seconds` are those in which requests were admitted, one for each. *)
AdmittedIn(seconds, times) == Cardinality({i \in DOMAIN seconds : seconds[i] \in times})
=============================================================================
