--------------------------- MODULE MCRateLimiter ----------------------------
(***************************************************************************)
(* The limiters of the server are objects with nothing in common: /send's, *)
(* on the event loop, and /auth/login's, in two worker threads that serve  *)
(* one client address and one e-mail.  A behaviour runs one of the two.    *)
(***************************************************************************)
EXTENDS RateLimiter, RateLimiterThreads, TLC

CONSTANTS address, email

VARIABLE endpoint  \* whose limiter is in use

AddressThenEmail == {<<address, email>>}
AddressOnly == {<<address>>}

MCInit ==
  /\ Init
  /\ SharedInit
  /\ endpoint \in {"send", "login"}

MCNext ==
  \/ endpoint = "send" /\ Next /\ UNCHANGED <<endpoint, sharedvars>>
  \/ endpoint = "login" /\ SharedNext /\ UNCHANGED <<endpoint, vars>>

MCSpec == MCInit /\ [][MCNext]_<<vars, endpoint, sharedvars>>

(* "In-memory fixed-window rate limiter" (rate_limit.py:11): a fixed window  *)
(* of max_requests admits at most 2 * max_requests - 1 requests of a key in *)
(* any window, here those of the login limiter.                            *)
ThreadsBurstBounded ==
  \A k \in SharedKeys, s \in Seconds : AdmittedIn(letIn[k], {s}) <= 2 * SharedLimit - 1

Symmetry == Permutations(Keys) \cup Permutations(Threads)
=============================================================================
