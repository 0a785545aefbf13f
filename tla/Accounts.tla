------------------------------ MODULE Accounts ------------------------------
(***************************************************************************)
(* One registered account of the server and the requests that work on it:  *)
(* its row of `users`, its rows of `user_sessions`, and the login, logout  *)
(* and two-factor requests that the worker threads serve concurrently.     *)
(*                                                                         *)
(* Each request owns an SQLAlchemy session.  A SELECT copies the row into  *)
(* the request (`seen`), outside any transaction; the handler changes that *)
(* copy; a commit writes, atomically, the columns whose value the handler  *)
(* changed, onto whatever the row holds by then.  A commit also expires    *)
(* the copy, so what is assigned after it is written whatever the row      *)
(* holds.  Every action below is one such SELECT, or the code from there   *)
(* to the next commit or answer.                                           *)
(*                                                                         *)
(* One unit of the clock is one TOTP time step (30 s).  Passwords, codes   *)
(* and cookies are the client's free choice, made where they are read.     *)
(***************************************************************************)
EXTENDS Naturals, FiniteSets, Null

CONSTANTS
  Workers,          \* threads that serve requests
  Tokens,           \* session tokens the server may issue (bound)
  Secrets,          \* TOTP secrets the server may generate (bound)
  Endpoints,        \* the endpoints behind a session that clients call
  MaxFailedLogins,  \* settings.max_failed_logins
  LockoutSeconds,   \* settings.lockout_seconds, in clock units
  SessionTtl,       \* settings.session_ttl_seconds, in clock units
  MaxTime           \* the clock stops here (bound)

ASSUME NoneAssumption ==
  /\ None \notin Nat
  /\ None \notin Secrets
  /\ None \notin Tokens
(* What is asked of the configuration, which may hold any integers.        *)
ASSUME SettingsAssumption ==
  /\ MaxFailedLogins \in Nat \ {0}
  /\ LockoutSeconds \in Nat
  /\ SessionTtl \in Nat
  /\ MaxTime \in Nat \ {0}
ASSUME EndpointsAssumption ==
  Endpoints \subseteq {"status", "logout", "setup", "enable", "disable"}

VARIABLES
  row,        \* the account's row of `users`
  expires_at, \* user_sessions: token -> expiry, None for a token never issued
  revoked,    \* user_sessions: the tokens whose revoked_at is set
  req,        \* the request each worker is serving, and how far it is
  answer,     \* the outcome of the request answered by the last step
  now,        \* the server's clock
  issued,     \* history: secrets generated so far
  verified,   \* history: secrets an accepted enable request proved
  spent,      \* history: <<secret, step>> pairs logins used since enable
  stale       \* history: the parts of which a commit used an outdated copy

vars == <<row, expires_at, revoked, req, answer, now, issued, verified, spent, stale>>
history == <<issued, verified, spent, stale>>

-----------------------------------------------------------------------------
Row == [is_active : BOOLEAN,
        failed_login_count : Nat,
        locked_until : Optional(Nat),
        totp_enabled : BOOLEAN,
        totp_secret : Optional(Secrets),
        totp_last_used_step : Optional(Nat)]

FreshRow == [is_active |-> TRUE,
             failed_login_count |-> 0,
             locked_until |-> None,
             totp_enabled |-> FALSE,
             totp_secret |-> None,
             totp_last_used_step |-> None]

(***************************************************************************)
(* How far a request is: "load" has found its session but not its user;    *)
(* "handle" runs the handler behind get_current_user; "login" has loaded   *)
(* the user whose credentials it checks; "reset" and "session" are a login *)
(* between its commits.                                                    *)
(***************************************************************************)
Places == {"idle", "load", "handle", "login", "reset", "session"}

Request == [at : Places,
            endpoint : Optional(Endpoints),
            token : Optional(Tokens),
            challenge : BOOLEAN,
            seen : Row]

Idle == [at |-> "idle", endpoint |-> None, token |-> None, challenge |-> FALSE,
         seen |-> FreshRow]

Answers == {"none", "ok", "requires_2fa", "bad_request", "unauthorized", "server_error"}

Init ==
  /\ row = FreshRow
  /\ expires_at = [t \in Tokens |-> None]
  /\ revoked = {}
  /\ req = [w \in Workers |-> Idle]
  /\ answer = "none"
  /\ now = 1
  /\ issued = {}
  /\ verified = {}
  /\ spent = {}
  /\ stale = {}

-----------------------------------------------------------------------------
(* The unit of work. *)

Written(new, old, current) == IF new # old THEN new ELSE current

(* The row after a commit by a request that loaded `old` and made it `new`. *)
Flush(old, new) ==
  [is_active |-> Written(new.is_active, old.is_active, row.is_active),
   failed_login_count |->
     Written(new.failed_login_count, old.failed_login_count, row.failed_login_count),
   locked_until |-> Written(new.locked_until, old.locked_until, row.locked_until),
   totp_enabled |-> Written(new.totp_enabled, old.totp_enabled, row.totp_enabled),
   totp_secret |-> Written(new.totp_secret, old.totp_secret, row.totp_secret),
   totp_last_used_step |->
     Written(new.totp_last_used_step, old.totp_last_used_step, row.totp_last_used_step)]

Lockout(r) == <<r.failed_login_count, r.locked_until>>
Totp(r) == <<r.totp_enabled, r.totp_secret, r.totp_last_used_step>>

(* A part of the account is stale once a commit built on an outdated copy   *)
(* of it: the "lockout" or "totp" columns it overwrote, or, as "login", the *)
(* two-factor columns that said a password is enough.                      *)
Parts == {"lockout", "totp", "login"}
Outdated(part, old, current) == IF old = current THEN {} ELSE {part}

-----------------------------------------------------------------------------
Live(t) == expires_at[t] # None /\ t \notin revoked /\ expires_at[t] > now

(* verify_totp_code_and_step with valid_window=1: the steps it accepts now. *)
Window == {now - 1, now, now + 1}

InLogin(w) == req[w].at \in {"login", "reset", "session"}

(* Bounds: a login starts only if a token is left for it, a setup request   *)
(* only if a secret is left for it.                                        *)
TokenLeft ==
  Cardinality({w \in Workers : InLogin(w)})
    < Cardinality({t \in Tokens : expires_at[t] = None})
SecretLeft ==
  Cardinality({w \in Workers : req[w].endpoint = "setup"}) < Cardinality(Secrets \ issued)

Answer(w, outcome) ==
  /\ req' = [req EXCEPT ![w] = Idle]
  /\ answer' = outcome

Continue(w, request) ==
  /\ req' = [req EXCEPT ![w] = request]
  /\ answer' = "none"

-----------------------------------------------------------------------------
(* POST /login and /login/2fa: authenticate_user, then create_session. *)

LoginRefused(w) ==
  /\ req[w].at = "idle"
  /\ ~row.is_active
  /\ Answer(w, "unauthorized")
  /\ UNCHANGED <<row, expires_at, revoked, now, history>>

(* is_locked compares the naive timestamp SQLite returns with an aware one: *)
(* whatever the time is, that raises TypeError.                            *)
LoginLocked(w) ==
  /\ req[w].at = "idle"
  /\ row.is_active
  /\ row.locked_until # None
  /\ Answer(w, "server_error")
  /\ UNCHANGED <<row, expires_at, revoked, now, history>>

LoadLogin(w, allow_2fa_challenge) ==
  /\ req[w].at = "idle"
  /\ TokenLeft
  /\ row.is_active
  /\ row.locked_until = None
  /\ Continue(w, [Idle EXCEPT !.at = "login", !.challenge = allow_2fa_challenge, !.seen = row])
  /\ UNCHANGED <<row, expires_at, revoked, now, history>>

(* Mutant: one failure more than the limit before the lock. *)
ApplyFailedLogin_OffByOne(w) ==
  LET user == req[w].seen
      failed == user.failed_login_count + 1
  IN /\ row' = Flush(user, [user EXCEPT
                 !.failed_login_count = failed,
                 !.locked_until = IF failed > MaxFailedLogins THEN now + LockoutSeconds ELSE @])
     /\ stale' = stale \cup Outdated("lockout", Lockout(user), Lockout(row))
     /\ Answer(w, "unauthorized")
     /\ UNCHANGED <<expires_at, revoked, now, issued, verified, spent>>

ApplyFailedLogin(w) ==
  LET user == req[w].seen
      failed == user.failed_login_count + 1
  IN /\ row' = Flush(user, [user EXCEPT
                 !.failed_login_count = failed,
                 !.locked_until = IF failed >= MaxFailedLogins THEN now + LockoutSeconds ELSE @])
     /\ stale' = stale \cup Outdated("lockout", Lockout(user), Lockout(row))
     /\ Answer(w, "unauthorized")
     /\ UNCHANGED <<expires_at, revoked, now, issued, verified, spent>>

WrongPassword(w) ==
  /\ req[w].at = "login"
  /\ ApplyFailedLogin(w)

MissingCode(w) ==
  /\ req[w].at = "login"
  /\ req[w].seen.totp_enabled
  /\ Answer(w, IF req[w].challenge THEN "requires_2fa" ELSE "unauthorized")
  /\ UNCHANGED <<row, expires_at, revoked, now, history>>

MissingSecret(w) ==
  /\ req[w].at = "login"
  /\ req[w].seen.totp_enabled
  /\ req[w].seen.totp_secret = None
  /\ Answer(w, "unauthorized")
  /\ UNCHANGED <<row, expires_at, revoked, now, history>>

ChecksCode(w) ==
  /\ req[w].at = "login"
  /\ req[w].seen.totp_enabled
  /\ req[w].seen.totp_secret # None

WrongCode(w) ==
  /\ ChecksCode(w)
  /\ ApplyFailedLogin(w)

(* Mutant: the last used step may be used again. *)
Replays_Strict(user, step) == user.totp_last_used_step # None /\ step < user.totp_last_used_step

Replays(user, step) == user.totp_last_used_step # None /\ step <= user.totp_last_used_step

ReplayedCode(w, step) ==
  /\ ChecksCode(w)
  /\ Replays(req[w].seen, step)
  /\ ApplyFailedLogin(w)

(* A valid, unused code: its step is committed before the counters are. *)
AcceptCode(w, step) ==
  LET user == req[w].seen
  IN /\ ChecksCode(w)
     /\ ~Replays(user, step)
     /\ row' = Flush(user, [user EXCEPT !.totp_last_used_step = step])
     /\ spent' = spent \cup {<<user.totp_secret, step>>}
     /\ stale' = stale \cup Outdated("totp", Totp(user), Totp(row))
     /\ Continue(w, [Idle EXCEPT !.at = "reset"])
     /\ UNCHANGED <<expires_at, revoked, now, issued, verified>>

(* Mutant: the reset forgets locked_until. *)
ResetAfterCode_CountOnly(w) ==
  /\ req[w].at = "reset"
  /\ row' = [row EXCEPT !.failed_login_count = 0]
  /\ Continue(w, [Idle EXCEPT !.at = "session"])
  /\ UNCHANGED <<expires_at, revoked, now, history>>

(* "reset counters" after a code: the copy expired, so both are written. *)
ResetAfterCode(w) ==
  /\ req[w].at = "reset"
  /\ row' = [row EXCEPT !.failed_login_count = 0, !.locked_until = None]
  /\ Continue(w, [Idle EXCEPT !.at = "session"])
  /\ UNCHANGED <<expires_at, revoked, now, history>>

(* Mutant: the copy is refreshed first, so NULL is written over any lock. *)
ResetAfterPassword_Blind(w) ==
  /\ req[w].at = "login"
  /\ ~req[w].seen.totp_enabled
  /\ row' = [row EXCEPT !.failed_login_count = 0, !.locked_until = None]
  /\ Continue(w, [Idle EXCEPT !.at = "session"])
  /\ UNCHANGED <<expires_at, revoked, now, history>>

(* "reset counters" without 2FA: only what differs from the copy is written. *)
ResetAfterPassword(w) ==
  LET user == req[w].seen
  IN /\ req[w].at = "login"
     /\ ~user.totp_enabled
     /\ row' = Flush(user, [user EXCEPT !.failed_login_count = 0, !.locked_until = None])
     /\ stale' = stale \cup Outdated("lockout", Lockout(user), Lockout(row))
                       \cup Outdated("login", Totp(user), Totp(row))
     /\ Continue(w, [Idle EXCEPT !.at = "session"])
     /\ UNCHANGED <<expires_at, revoked, now, issued, verified, spent>>

CreateSession(w, token) ==
  /\ req[w].at = "session"
  /\ expires_at[token] = None
  /\ expires_at' = [expires_at EXCEPT ![token] = now + SessionTtl]
  /\ Answer(w, "ok")
  /\ UNCHANGED <<row, revoked, now, history>>

-----------------------------------------------------------------------------
(* get_current_user: the dependency of every endpoint behind a session. *)

NoSession(w) ==
  /\ req[w].at = "idle"
  /\ Answer(w, "unauthorized")
  /\ UNCHANGED <<row, expires_at, revoked, now, history>>

FindSession(w, endpoint, token) ==
  /\ req[w].at = "idle"
  /\ Live(token)
  /\ endpoint = "setup" => SecretLeft
  /\ Continue(w, [Idle EXCEPT !.at = "load", !.endpoint = endpoint, !.token = token])
  /\ UNCHANGED <<row, expires_at, revoked, now, history>>

(* Mutants: is_active is not looked at; the session is not attached; the    *)
(* inactive user gets no answer.                                           *)
LoadUser_AnyUser(w) ==
  /\ req[w].at = "load"
  /\ Continue(w, [req[w] EXCEPT !.at = "handle", !.seen = row])
  /\ UNCHANGED <<row, expires_at, revoked, now, history>>
LoadUser_NoSession(w) ==
  /\ req[w].at = "load"
  /\ IF row.is_active
       THEN Continue(w, [req[w] EXCEPT !.at = "handle", !.seen = row, !.token = None])
       ELSE Answer(w, "unauthorized")
  /\ UNCHANGED <<row, expires_at, revoked, now, history>>
LoadUser_NoAnswer(w) ==
  /\ req[w].at = "load"
  /\ row.is_active
  /\ Continue(w, [req[w] EXCEPT !.at = "handle", !.seen = row])
  /\ UNCHANGED <<row, expires_at, revoked, now, history>>

LoadUser(w) ==
  /\ req[w].at = "load"
  /\ IF row.is_active
       THEN Continue(w, [req[w] EXCEPT !.at = "handle", !.seen = row])
       ELSE Answer(w, "unauthorized")
  /\ UNCHANGED <<row, expires_at, revoked, now, history>>

Handles(w, endpoint) == req[w].at = "handle" /\ req[w].endpoint = endpoint

Status(w) ==
  /\ Handles(w, "status")
  /\ Answer(w, "ok")
  /\ UNCHANGED <<row, expires_at, revoked, now, history>>

Logout(w) ==
  /\ Handles(w, "logout")
  /\ revoked' = revoked \cup {req[w].token}
  /\ Answer(w, "ok")
  /\ UNCHANGED <<row, expires_at, now, history>>

-----------------------------------------------------------------------------
(* /2fa/setup, /2fa/enable and /2fa/disable. *)

(* Mutant: the new secret keeps the old totp_enabled. *)
SetupTotp_StaysEnabled(w, secret) ==
  LET user == req[w].seen
  IN /\ Handles(w, "setup")
     /\ secret \notin issued
     /\ row' = Flush(user, [user EXCEPT !.totp_secret = secret, !.totp_last_used_step = None])
     /\ issued' = issued \cup {secret}
     /\ stale' = stale \cup Outdated("totp", Totp(user), Totp(row))
     /\ Answer(w, "ok")
     /\ UNCHANGED <<expires_at, revoked, now, verified, spent>>

SetupTotp(w, secret) ==
  LET user == req[w].seen
  IN /\ Handles(w, "setup")
     /\ secret \notin issued
     /\ row' = Flush(user, [user EXCEPT
                 !.totp_secret = secret, !.totp_enabled = FALSE, !.totp_last_used_step = None])
     /\ issued' = issued \cup {secret}
     /\ stale' = stale \cup Outdated("totp", Totp(user), Totp(row))
     /\ Answer(w, "ok")
     /\ UNCHANGED <<expires_at, revoked, now, verified, spent>>

EnableUninitialized(w) ==
  /\ Handles(w, "enable")
  /\ req[w].seen.totp_secret = None
  /\ Answer(w, "bad_request")
  /\ UNCHANGED <<row, expires_at, revoked, now, history>>

EnableTotp(w) ==
  LET user == req[w].seen
  IN /\ Handles(w, "enable")
     /\ user.totp_secret # None
     /\ row' = Flush(user, [user EXCEPT !.totp_enabled = TRUE, !.totp_last_used_step = None])
     /\ verified' = verified \cup {user.totp_secret}
     /\ spent' = {p \in spent : p[1] # user.totp_secret}
     /\ stale' = stale \cup Outdated("totp", Totp(user), Totp(row))
     /\ Answer(w, "ok")
     /\ UNCHANGED <<expires_at, revoked, now, issued>>

DisableNoop(w) ==
  /\ Handles(w, "disable")
  /\ ~req[w].seen.totp_enabled
  /\ Answer(w, "ok")
  /\ UNCHANGED <<row, expires_at, revoked, now, history>>

(* Mutant: disabling leaves the secret behind. *)
DisableTotp_KeepsSecret(w) ==
  LET user == req[w].seen
  IN /\ Handles(w, "disable")
     /\ user.totp_enabled
     /\ user.totp_secret # None
     /\ row' = Flush(user, [user EXCEPT !.totp_enabled = FALSE, !.totp_last_used_step = None])
     /\ stale' = stale \cup Outdated("totp", Totp(user), Totp(row))
     /\ Answer(w, "ok")
     /\ UNCHANGED <<expires_at, revoked, now, issued, verified, spent>>

DisableTotp(w) ==
  LET user == req[w].seen
  IN /\ Handles(w, "disable")
     /\ user.totp_enabled
     /\ user.totp_secret # None
     /\ row' = Flush(user, [user EXCEPT
                 !.totp_enabled = FALSE, !.totp_secret = None, !.totp_last_used_step = None])
     /\ stale' = stale \cup Outdated("totp", Totp(user), Totp(row))
     /\ Answer(w, "ok")
     /\ UNCHANGED <<expires_at, revoked, now, issued, verified, spent>>

(* An enable or disable request whose code, or whose secret, is missing or wrong. *)
TwoFaRefused(w) ==
  /\ \/ Handles(w, "enable") /\ req[w].seen.totp_secret # None
     \/ Handles(w, "disable") /\ req[w].seen.totp_enabled
  /\ Answer(w, "unauthorized")
  /\ UNCHANGED <<row, expires_at, revoked, now, history>>

-----------------------------------------------------------------------------
(* The environment. *)

(* Nothing under src/ clears is_active: an operator does, in the database. *)
Deactivate ==
  /\ row.is_active
  /\ row' = [row EXCEPT !.is_active = FALSE]
  /\ answer' = "none"
  /\ UNCHANGED <<expires_at, revoked, req, now, history>>

(* The process dies and is restarted: the database stays, requests are lost. *)
Crash ==
  /\ req' = [w \in Workers |-> Idle]
  /\ answer' = "none"
  /\ UNCHANGED <<row, expires_at, revoked, now, history>>

Tick ==
  /\ now < MaxTime
  /\ now' = now + 1
  /\ answer' = "none"
  /\ UNCHANGED <<row, expires_at, revoked, req, history>>

-----------------------------------------------------------------------------
Client(w) ==
  \/ LoginRefused(w)
  \/ LoginLocked(w)
  \/ \E allow_2fa_challenge \in BOOLEAN : LoadLogin(w, allow_2fa_challenge)
  \/ NoSession(w)
  \/ \E endpoint \in Endpoints, token \in Tokens : FindSession(w, endpoint, token)

Login(w) ==
  \/ WrongPassword(w)
  \/ MissingCode(w)
  \/ MissingSecret(w)
  \/ WrongCode(w)
  \/ \E step \in Window : ReplayedCode(w, step)
  \/ \E step \in Window : AcceptCode(w, step)
  \/ ResetAfterCode(w)
  \/ ResetAfterPassword(w)
  \/ \E token \in Tokens : CreateSession(w, token)

Handler(w) ==
  \/ LoadUser(w)
  \/ Status(w)
  \/ Logout(w)
  \/ \E secret \in Secrets : SetupTotp(w, secret)
  \/ EnableUninitialized(w)
  \/ EnableTotp(w)
  \/ DisableNoop(w)
  \/ DisableTotp(w)
  \/ TwoFaRefused(w)

Next ==
  \/ \E w \in Workers : Client(w) \/ Login(w) \/ Handler(w)
  \/ Deactivate
  \/ Crash
  \/ Tick

Spec == Init /\ [][Next]_vars

(* A worker thread that holds a request runs it to its answer. *)
FairSpec == Spec /\ \A w \in Workers : WF_vars(Login(w) \/ Handler(w))

-----------------------------------------------------------------------------
(* Properties. *)

(* The row, the sessions and the requests hold values of their columns' types. *)
TypeOK ==
  /\ row \in Row
  /\ expires_at \in [Tokens -> Optional(Nat)]
  /\ revoked \subseteq Tokens
  /\ req \in [Workers -> Request]
  /\ answer \in Answers
  /\ now \in 1 .. MaxTime
  /\ issued \subseteq Secrets
  /\ verified \subseteq Secrets
  /\ spent \subseteq Secrets \X Nat
  /\ stale \subseteq Parts

(* Whatever the interleaving, an account that has counted MaxFailedLogins   *)
(* failures is locked, and the count never passes the limit                *)
(* (_apply_failed_login writes both columns in one commit).                *)
LimitReachedLocks ==
  /\ row.failed_login_count <= MaxFailedLogins
  /\ row.failed_login_count = MaxFailedLogins => row.locked_until # None

(* As long as no commit counted from an outdated copy, a locked account is  *)
(* one that has MaxFailedLogins failures on record: successes and failures *)
(* of other requests never leave a lock without its cause.                 *)
LockHasCause ==
  "lockout" \notin stale /\ row.locked_until # None
    => row.failed_login_count = MaxFailedLogins

(* A lock is lifted only by a login whose code was accepted before: no      *)
(* password-only login, and no handler, ever writes locked_until back to   *)
(* NULL over a lock that another request set meanwhile.                    *)
OnlyAcceptedLoginUnlocks ==
  [][row.locked_until # None /\ row'.locked_until = None
       => \E w \in Workers : req[w].at = "reset"]_vars

(* As long as no two-factor commit used an outdated copy, 2FA is enabled    *)
(* only with a secret whose code an enable request has verified            *)
(* ("not enabled until verified" in setup_totp).                           *)
NotEnabledUntilVerified ==
  "totp" \notin stale /\ row.totp_enabled => row.totp_secret \in verified

(* As long as no two-factor commit used an outdated copy, a login accepts   *)
(* each time step at most once between two confirmations of the secret     *)
(* (the anti-replay check of authenticate_user).                           *)
StepSpentOnce ==
  [][\A w \in Workers :
       req[w].at = "login" /\ req'[w].at = "reset" /\ "totp" \notin stale' => spent' # spent]_vars

(* Once an account is inactive and the requests that had loaded it are      *)
(* done, nothing changes it: no login, logout or two-factor request does,  *)
(* and no session is issued.                                               *)
Drained == \A w \in Workers : req[w].at \in {"idle", "load"}
DeactivatedAccountFrozen ==
  [][~row.is_active /\ Drained => UNCHANGED <<row, expires_at, revoked>> /\ Drained']_vars

(* Without outdated copies the columns behave as the abstract account does: *)
(* every commit is one of its steps and everything else a stutter.         *)
A == INSTANCE Account WITH
  Logins <- Workers,
  Steps <- 0 .. MaxTime + 1,
  MaxFailures <- MaxFailedLogins,
  active <- row.is_active,
  failures <- row.failed_login_count,
  locked <- row.locked_until # None,
  mode <- IF row.totp_enabled THEN "on" ELSE IF row.totp_secret = None THEN "off" ELSE "pending",
  secret <- row.totp_secret,
  floor <- row.totp_last_used_step,
  accepted <- {w \in Workers : req[w].at = "reset"}
ImplementsAccount ==
  /\ A!AInit
  /\ [][stale' = {} => A!ANext \/ UNCHANGED A!avars]_vars

(* Every request is answered: each state of the row that a request can load *)
(* has a branch of the handlers that ends it.                              *)
EveryRequestAnswered ==
  \A w \in Workers : req[w].at # "idle" ~> req[w].at = "idle"
=============================================================================
