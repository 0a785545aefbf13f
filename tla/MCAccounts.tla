----------------------------- MODULE MCAccounts -----------------------------
(***************************************************************************)
(* Accounts on small instances, and what the comments of the repository    *)
(* say of an account that overlapping, or even serial, requests break.     *)
(***************************************************************************)
EXTENDS Accounts, TLC

Symmetry == Permutations(Workers) \cup Permutations(Tokens) \cup Permutations(Secrets)

(* No action reads `answer`, and no property of these runs is about it. *)
View == <<row, expires_at, revoked, req, now, history>>

(* "Uniform error surface: always raise AuthenticationError on auth         *)
(* failure" (auth/service.py:50): no request ends in an unhandled error.   *)
UniformAuthenticationError == answer # "server_error"

(* "not enabled until verified" (twofa/service.py:23), of any interleaving:  *)
(* 2FA is enabled only with a secret of which a code was verified.         *)
AlwaysVerified == row.totp_enabled => row.totp_secret \in verified
=============================================================================
