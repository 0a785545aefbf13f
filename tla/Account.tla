------------------------------ MODULE Account -------------------------------
(***************************************************************************)
(* What an account promises when its requests do not overlap: the second   *)
(* factor goes off -> pending -> on, a secret is on only after a code of   *)
(* it was confirmed, an accepted step moves `floor` up until the secret is *)
(* confirmed again, and failures lock the account at the limit.            *)
(*                                                                         *)
(* A login accepted by code clears the counters in a second step, `Clear`; *)
(* until then its identity is in `accepted`.  A lock reached meanwhile is  *)
(* lifted by that step, and by nothing else.                               *)
(***************************************************************************)
EXTENDS Naturals

CONSTANTS Logins, Secrets, Steps, MaxFailures, None

VARIABLES active, failures, locked, mode, secret, floor, accepted

avars == <<active, failures, locked, mode, secret, floor, accepted>>

AInit ==
  /\ active = TRUE
  /\ failures = 0
  /\ locked = FALSE
  /\ mode = "off"
  /\ secret = None
  /\ floor = None
  /\ accepted = {}

Fail ==
  /\ ~locked
  /\ failures' = failures + 1
  /\ locked' = (failures + 1 >= MaxFailures)
  /\ UNCHANGED <<active, mode, secret, floor, accepted>>

PasswordSuffices ==
  /\ ~locked
  /\ mode # "on"
  /\ failures' = 0
  /\ UNCHANGED <<active, locked, mode, secret, floor, accepted>>

UseCode(login, step) ==
  /\ mode = "on"
  /\ floor # None => step > floor
  /\ floor' = step
  /\ accepted' = accepted \cup {login}
  /\ UNCHANGED <<active, failures, locked, mode, secret>>

Clear(login) ==
  /\ login \in accepted
  /\ accepted' = accepted \ {login}
  /\ failures' = 0
  /\ locked' = FALSE
  /\ UNCHANGED <<active, mode, secret, floor>>

Enrol(new) ==
  /\ mode' = "pending"
  /\ new # secret
  /\ secret' = new
  /\ floor' = None
  /\ UNCHANGED <<active, failures, locked, accepted>>

Confirm ==
  /\ mode # "off"
  /\ mode' = "on"
  /\ floor' = None
  /\ UNCHANGED <<active, failures, locked, secret, accepted>>

Remove ==
  /\ mode = "on"
  /\ mode' = "off"
  /\ secret' = None
  /\ floor' = None
  /\ UNCHANGED <<active, failures, locked, accepted>>

Retire ==
  /\ active' = FALSE
  /\ UNCHANGED <<failures, locked, mode, secret, floor, accepted>>

Forget ==
  /\ accepted' = {}
  /\ UNCHANGED <<active, failures, locked, mode, secret, floor>>

ANext ==
  \/ Fail
  \/ PasswordSuffices
  \/ \E login \in Logins, step \in Steps : UseCode(login, step)
  \/ \E login \in Logins : Clear(login)
  \/ \E new \in Secrets : Enrol(new)
  \/ Confirm
  \/ Remove
  \/ Retire
  \/ Forget

ASpec == AInit /\ [][ANext]_avars
=============================================================================
