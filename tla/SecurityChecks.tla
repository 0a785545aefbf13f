--------------------------- MODULE SecurityChecks ---------------------------
(***************************************************************************)
(* The repository's end-to-end script against a server that has just       *)
(* started: the middlewares of Pipeline, and behind them the login limiter *)
(* of the script's address, the lock of the account it logs in to with a   *)
(* wrong password, and the second factor of the other one.                 *)
(***************************************************************************)
EXTENDS Pipeline

CONSTANTS
  LoginLimit,       \* LOGIN_RATE_LIMIT_PER_MINUTE
  MaxFailedLogins,  \* MAX_FAILED_LOGINS
  MaxTries,         \* how often the script tries a wrong password
  MaxMinutes        \* windows that end while the script runs (bound)

VARIABLES
  step,      \* how many steps of the script are done
  verdict,   \* how the script ended, if it has
  tries,     \* wrong passwords tried
  cookie,    \* whether the client has the session cookie
  hits,      \* _login_limiter: the address, and the e-mail whose password is wrong
  failures,  \* failed_login_count of the account that is tried
  twofa,     \* the second factor of the other account
  minutes    \* windows that have ended

svars == <<exchange, step, verdict, tries, cookie, hits, failures, twofa, minutes>>

Scenario == <<"register", "register_other", "login", "setup_no_origin", "setup", "enable", "wrong_login">>

-----------------------------------------------------------------------------
Write(with_cookie, origin) ==
  [api |-> TRUE, method |-> "POST", body |-> "valid", content_type |-> "json", cookie |-> with_cookie,
   origin |-> origin, authenticated |-> TRUE, id |-> None]

SInit ==
  /\ PipelineInit
  /\ step = 0
  /\ verdict = None
  /\ tries = 0
  /\ cookie = FALSE
  /\ hits = [key \in {"address", "email"} |-> 0]
  /\ failures = 0
  /\ twofa = "off"
  /\ minutes = 0

(* The script goes on if it sees the status it expects, and dies otherwise. *)
Expect(status) ==
  /\ step' = step + 1
  /\ verdict' = IF exchange'.result.status = status THEN None ELSE "died"

Handled == exchange'.result.handled

Doing(name) == verdict = None /\ Scenario[step + 1] = name

(* The limiter's checks, of the address first: the outcome they leave to    *)
(* the handler, and the counts when the request has come to it.            *)
Full(keys) == {key \in keys : hits[key] >= LoginLimit}
Limited(keys, outcome) == IF Full(keys) # {} THEN "RateLimitError" ELSE outcome
Counted(keys) ==
  [key \in DOMAIN hits |->
     IF /\ Handled
        /\ key \in keys \ Full(keys)
        /\ key = "email" => "address" \notin Full(keys)
       THEN hits[key] + 1 ELSE hits[key]]

Register ==
  /\ Doing("register") \/ Doing("register_other")
  /\ Serve(Write(cookie, None), "ok")
  /\ Expect(200)
  /\ UNCHANGED <<tries, cookie, hits, failures, twofa, minutes>>

Login ==
  /\ Doing("login")
  /\ Serve(Write(cookie, None), Limited({"address"}, "ok"))
  /\ hits' = Counted({"address"})
  /\ cookie' = (exchange'.result.status = 200)
  /\ Expect(200)
  /\ UNCHANGED <<tries, failures, twofa, minutes>>

(* POST /api/2fa/setup, first without and then with an Origin. *)
Setup ==
  /\ Doing("setup_no_origin") \/ Doing("setup")
  /\ Serve(Write(cookie, IF Doing("setup") THEN "public" ELSE None), "ok")
  /\ twofa' = IF Handled THEN "pending" ELSE twofa
  /\ Expect(IF Doing("setup") THEN 200 ELSE 403)
  /\ UNCHANGED <<tries, cookie, hits, failures, minutes>>

(* The code of the current step verifies. *)
Enable ==
  /\ Doing("enable")
  /\ Serve(Write(cookie, "public"), IF twofa = "off" THEN "ValidationError" ELSE "ok")
  /\ twofa' = IF Handled /\ twofa = "pending" THEN "on" ELSE twofa
  /\ Expect(200)
  /\ UNCHANGED <<tries, cookie, hits, failures, minutes>>

(* The limiter comes first; a locked account ends in the TypeError of       *)
(* is_locked, one that is not counts the failure.                          *)
Outcome ==
  Limited({"address", "email"},
          IF failures >= MaxFailedLogins THEN "Exception" ELSE "AuthenticationError")

(* client.cookies.clear().  Mutant: the cookie is kept. *)
Cleared_Kept == cookie
Cleared == FALSE

WrongLogin ==
  /\ Doing("wrong_login")
  /\ cookie' = Cleared
  /\ Serve(Write(Cleared, None), Outcome)
  /\ tries' = tries + 1
  /\ hits' = Counted({"address", "email"})
  /\ failures' = IF Handled /\ Outcome = "AuthenticationError" THEN failures + 1 ELSE failures
  /\ verdict' = IF exchange'.result.status = 429 THEN "ok"
                ELSE IF tries' = MaxTries THEN "died" ELSE None
  /\ UNCHANGED <<step, twofa, minutes>>

(* The window of a key ends: its next hit will be the first of a new one. *)
NextWindow(key) ==
  /\ verdict = None
  /\ minutes < MaxMinutes
  /\ hits[key] > 0
  /\ minutes' = minutes + 1
  /\ hits' = [hits EXCEPT ![key] = 0]
  /\ UNCHANGED <<exchange, step, verdict, tries, cookie, failures, twofa>>

Run == Register \/ Login \/ Setup \/ Enable \/ WrongLogin

(* Other clients have made requests before. *)
Others == step = 0 /\ verdict = None /\ PipelineNext /\ UNCHANGED <<step, verdict, tries, cookie, hits, failures, twofa, minutes>>

SNext == Run \/ Others \/ \E key \in {"address", "email"} : NextWindow(key)

(* The script does not wait. *)
SFairness == WF_svars(Run)

SSpec == SInit /\ [][SNext]_svars /\ SFairness

-----------------------------------------------------------------------------
(* Properties. *)

(* What security_checks.py expects is what the composed server does: the    *)
(* origin check before the handler, the limiter behind the origin check,   *)
(* and a 429 within its tries although the account is locked on the way.   *)
ScriptEndsOK == <>(verdict = "ok")
=============================================================================
