------------------------------ MODULE MCReplay ------------------------------
(***************************************************************************)
(* Accounts with the record of every <<secret, step>> a login ever used:   *)
(* unlike `spent`, an enable request does not shorten it.                  *)
(***************************************************************************)
EXTENDS Accounts

VARIABLES used, reused

InitReplay == Init /\ used = {} /\ reused = FALSE

NextReplay ==
  /\ Next
  /\ used' = used \cup spent'
  /\ reused' = (reused \/ \E w \in Workers, step \in Window :
                           AcceptCode(w, step) /\ <<req[w].seen.totp_secret, step>> \in used)

SpecReplay == InitReplay /\ [][NextReplay]_<<vars, used, reused>>

(* "Anti-replay: each accepted step can be used only once"                  *)
(* (auth/service.py:90): no login is accepted with a secret and a step     *)
(* that an earlier login used.                                             *)
StepUsedOnce == ~reused
=============================================================================
