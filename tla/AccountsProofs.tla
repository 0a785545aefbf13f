--------------------------- MODULE AccountsProofs ---------------------------
(***************************************************************************)
(* What holds of an account for any number of workers, tokens and secrets. *)
(***************************************************************************)
EXTENDS Accounts, TLAPS

-----------------------------------------------------------------------------
(* Types. *)

(* A commit turns a row, a loaded copy and its changed version into a row. *)
LEMMA FlushType ==
  ASSUME row \in Row, NEW old \in Row, NEW new \in Row
  PROVE  Flush(old, new) \in Row
BY DEF Flush, Written, Row, Optional

(* The request record every answered request goes back to is well typed. *)
LEMMA IdleType == Idle \in Request
BY DEF Idle, Request, Places, Optional, FreshRow, Row

(* Answering and continuing a request keep the requests well typed. *)
LEMMA AnswerType ==
  ASSUME TypeOK, NEW w \in Workers, NEW outcome \in Answers, Answer(w, outcome)
  PROVE  req' \in [Workers -> Request] /\ answer' \in Answers
BY IdleType DEF Answer, TypeOK

LEMMA ContinueType ==
  ASSUME TypeOK, NEW w \in Workers, NEW request \in Request, Continue(w, request)
  PROVE  req' \in [Workers -> Request] /\ answer' \in Answers
BY DEF Continue, TypeOK, Answers

(* The initial state is well typed. *)
LEMMA InitType == Init => TypeOK
BY IdleType, SettingsAssumption
   DEF Init, TypeOK, Row, FreshRow, Optional, Answers

(* Changing the lockout or the two-factor columns of a row gives a row. *)
LEMMA LockoutColumnsType ==
  ASSUME NEW user \in Row, NEW count \in Nat, NEW until \in Optional(Nat)
  PROVE  [user EXCEPT !.failed_login_count = count, !.locked_until = until] \in Row
BY DEF Row

LEMMA TotpColumnsType ==
  ASSUME NEW user \in Row, NEW enabled \in BOOLEAN, NEW secret \in Optional(Secrets),
         NEW step \in Optional(Nat)
  PROVE  [user EXCEPT !.totp_secret = secret, !.totp_enabled = enabled,
                      !.totp_last_used_step = step] \in Row
BY DEF Row

(* A step of a client's new request keeps the types. *)
LEMMA ClientType ==
  ASSUME TypeOK, NEW w \in Workers, Client(w)
  PROVE  TypeOK'
<1>1. CASE LoginRefused(w) \/ LoginLocked(w) \/ NoSession(w)
  <2>1. \E outcome \in Answers : Answer(w, outcome)
    BY <1>1 DEF LoginRefused, LoginLocked, NoSession, Answers
  <2> QED
    BY <1>1, <2>1, AnswerType DEF LoginRefused, LoginLocked, NoSession, TypeOK, history
<1>2. ASSUME NEW challenge \in BOOLEAN, LoadLogin(w, challenge)
      PROVE  TypeOK'
  <2>1. [Idle EXCEPT !.at = "login", !.challenge = challenge, !.seen = row] \in Request
    BY IdleType DEF Request, TypeOK, Places
  <2> QED
    BY <1>2, <2>1, ContinueType DEF LoadLogin, TypeOK, history
<1>3. ASSUME NEW endpoint \in Endpoints, NEW token \in Tokens, FindSession(w, endpoint, token)
      PROVE  TypeOK'
  <2>1. [Idle EXCEPT !.at = "load", !.endpoint = endpoint, !.token = token] \in Request
    BY IdleType DEF Request, TypeOK, Places, Optional
  <2> QED
    BY <1>3, <2>1, ContinueType DEF FindSession, TypeOK, history
<1> QED
  BY <1>1, <1>2, <1>3 DEF Client

(* A counted failure keeps the types. *)
LEMMA FailedLoginType ==
  ASSUME TypeOK, NEW w \in Workers, ApplyFailedLogin(w)
  PROVE  TypeOK'
<1> DEFINE user == req[w].seen
           failed == user.failed_login_count + 1
           until == IF failed >= MaxFailedLogins THEN now + LockoutSeconds ELSE user.locked_until
           new == [user EXCEPT !.failed_login_count = failed, !.locked_until = until]
<1>1. user \in Row
  BY DEF TypeOK, Request
<1>2. failed \in Nat
  BY <1>1 DEF Row
<1>3. until \in Optional(Nat)
  BY <1>1, SettingsAssumption DEF TypeOK, Row, Optional
<1>4. new \in Row
  BY <1>1, <1>2, <1>3, LockoutColumnsType
<1>5. row' \in Row
  BY <1>1, <1>4, FlushType DEF ApplyFailedLogin, TypeOK
<1>6. stale' \subseteq Parts
  BY DEF ApplyFailedLogin, Outdated, Parts, TypeOK
<1>7. req' \in [Workers -> Request] /\ answer' \in Answers
  BY AnswerType DEF ApplyFailedLogin, Answers
<1> QED
  BY <1>5, <1>6, <1>7 DEF ApplyFailedLogin, TypeOK

(* A step of a login keeps the types. *)
LEMMA LoginType ==
  ASSUME TypeOK, NEW w \in Workers, Login(w)
  PROVE  TypeOK'
<1> DEFINE user == req[w].seen
<1>1. user \in Row
  BY DEF TypeOK, Request
<1>2. [Idle EXCEPT !.at = "reset"] \in Request /\ [Idle EXCEPT !.at = "session"] \in Request
  BY IdleType DEF Request, Places
<1>3. CASE ApplyFailedLogin(w)
  BY <1>3, FailedLoginType
<1>4. CASE MissingCode(w) \/ MissingSecret(w)
  <2>1. \E outcome \in Answers : Answer(w, outcome)
    BY <1>4 DEF MissingCode, MissingSecret, Answers
  <2> QED
    BY <1>4, <2>1, AnswerType DEF MissingCode, MissingSecret, TypeOK, history
<1>5. ASSUME NEW step \in Window, AcceptCode(w, step)
      PROVE  TypeOK'
  <2>1. step \in Nat
    BY DEF Window, TypeOK
  <2>2. [user EXCEPT !.totp_last_used_step = step] \in Row
    BY <1>1, <2>1 DEF Row, Optional
  <2>3. row' \in Row
    BY <1>5, <1>1, <2>2, FlushType DEF AcceptCode, TypeOK
  <2>4. user.totp_secret \in Secrets
    BY <1>5, <1>1 DEF AcceptCode, ChecksCode, Row, Optional
  <2>5. spent' \subseteq Secrets \X Nat
    BY <1>5, <2>1, <2>4 DEF AcceptCode, TypeOK
  <2>6. stale' \subseteq Parts
    BY <1>5 DEF AcceptCode, Outdated, Parts, TypeOK
  <2>7. req' \in [Workers -> Request] /\ answer' \in Answers
    BY <1>5, <1>2, ContinueType DEF AcceptCode
  <2> QED
    BY <1>5, <2>3, <2>5, <2>6, <2>7 DEF AcceptCode, TypeOK
<1>6. CASE ResetAfterCode(w)
  <2>1. row' \in Row
    BY <1>6, LockoutColumnsType DEF ResetAfterCode, TypeOK, Optional
  <2>2. req' \in [Workers -> Request] /\ answer' \in Answers
    BY <1>6, <1>2, ContinueType DEF ResetAfterCode
  <2> QED
    BY <1>6, <2>1, <2>2 DEF ResetAfterCode, TypeOK, history
<1>7. CASE ResetAfterPassword(w)
  <2>1. [user EXCEPT !.failed_login_count = 0, !.locked_until = None] \in Row
    BY <1>1, LockoutColumnsType DEF Optional
  <2>2. row' \in Row
    BY <1>7, <1>1, <2>1, FlushType DEF ResetAfterPassword, TypeOK
  <2>3. stale' \subseteq Parts
    BY <1>7 DEF ResetAfterPassword, Outdated, Parts, TypeOK
  <2>4. req' \in [Workers -> Request] /\ answer' \in Answers
    BY <1>7, <1>2, ContinueType DEF ResetAfterPassword
  <2> QED
    BY <1>7, <2>2, <2>3, <2>4 DEF ResetAfterPassword, TypeOK
<1>8. ASSUME NEW token \in Tokens, CreateSession(w, token)
      PROVE  TypeOK'
  <2>1. now + SessionTtl \in Optional(Nat)
    BY SettingsAssumption DEF TypeOK, Optional
  <2>2. req' \in [Workers -> Request] /\ answer' \in Answers
    BY <1>8, AnswerType DEF CreateSession, Answers
  <2> QED
    BY <1>8, <2>1, <2>2 DEF CreateSession, TypeOK, history
<1> QED
  BY <1>3, <1>4, <1>5, <1>6, <1>7, <1>8 DEF Login, WrongPassword, WrongCode, ReplayedCode

(* What a request in flight has loaded: a login, an account that was not    *)
(* locked; a request behind a session, the token it was found by; each, a  *)
(* secret that was generated, if any.                                      *)
RequestOK(r, generated) ==
  /\ r.at = "login" => /\ r.seen.locked_until = None
                       /\ r.seen.failed_login_count < MaxFailedLogins
  /\ r.at \in {"load", "handle"} => r.token \in Tokens
  /\ r.seen.totp_secret \in Optional(generated)
RequestsOK == \A w \in Workers : RequestOK(req[w], issued)

(* A commit of changed two-factor columns writes a row. *)
LEMMA TotpCommitType ==
  ASSUME TypeOK, NEW w \in Workers, NEW enabled \in BOOLEAN, NEW secret \in Optional(Secrets),
         row' = Flush(req[w].seen, [req[w].seen EXCEPT
                  !.totp_secret = secret, !.totp_enabled = enabled, !.totp_last_used_step = None])
  PROVE  row' \in Row
<1>1. req[w].seen \in Row
  BY DEF TypeOK, Request
<1>2. [req[w].seen EXCEPT !.totp_secret = secret, !.totp_enabled = enabled,
                          !.totp_last_used_step = None] \in Row
  BY <1>1, TotpColumnsType DEF Optional
<1> QED
  BY <1>1, <1>2, FlushType DEF TypeOK

(* A step of a request behind a session keeps the types. *)
LEMMA HandlerType ==
  ASSUME TypeOK, RequestsOK, NEW w \in Workers, Handler(w)
  PROVE  TypeOK'
<1> DEFINE user == req[w].seen
<1>1. user \in Row
  BY DEF TypeOK, Request
<1>2. ASSUME NEW outcome \in Answers, Answer(w, outcome),
             UNCHANGED <<row, expires_at, revoked, now, history>>
      PROVE  TypeOK'
  BY <1>2, AnswerType DEF TypeOK, history
<1>3. CASE Status(w) \/ EnableUninitialized(w) \/ DisableNoop(w) \/ TwoFaRefused(w)
  BY <1>2, <1>3 DEF Status, EnableUninitialized, DisableNoop, TwoFaRefused, Answers
<1>4. CASE LoadUser(w)
  <2>1. CASE row.is_active
    <3>1. [req[w] EXCEPT !.at = "handle", !.seen = row] \in Request
      BY DEF TypeOK, Request, Places
    <3>2. req' \in [Workers -> Request] /\ answer' \in Answers
      BY <1>4, <2>1, <3>1, ContinueType DEF LoadUser
    <3> QED
      BY <1>4, <3>2 DEF LoadUser, TypeOK, history
  <2>2. CASE ~row.is_active
    BY <1>2, <1>4, <2>2 DEF LoadUser, Answers
  <2> QED
    BY <2>1, <2>2
<1>5. CASE Logout(w)
  <2>1. req' \in [Workers -> Request] /\ answer' \in Answers
    BY <1>5, AnswerType DEF Logout, Answers
  <2>2. revoked' \subseteq Tokens
    BY <1>5 DEF Logout, Handles, RequestsOK, RequestOK, TypeOK
  <2> QED
    BY <1>5, <2>1, <2>2 DEF Logout, TypeOK, history
<1>6. ASSUME NEW secret \in Secrets, SetupTotp(w, secret)
      PROVE  TypeOK'
  <2>1. row' \in Row
    BY <1>6, TotpCommitType DEF SetupTotp, Optional
  <2>2. req' \in [Workers -> Request] /\ answer' \in Answers
    BY <1>6, AnswerType DEF SetupTotp, Answers
  <2> QED
    BY <1>6, <2>1, <2>2 DEF SetupTotp, TypeOK, Outdated, Parts
<1>7. CASE EnableTotp(w)
  <2>1. user.totp_secret \in Secrets
    BY <1>1, <1>7 DEF EnableTotp, Row, Optional
  <2>2. [user EXCEPT !.totp_enabled = TRUE, !.totp_last_used_step = None] \in Row
    BY <1>1 DEF Row, Optional
  <2>3. row' \in Row
    BY <1>1, <1>7, <2>2, FlushType DEF EnableTotp, TypeOK
  <2>4. req' \in [Workers -> Request] /\ answer' \in Answers
    BY <1>7, AnswerType DEF EnableTotp, Answers
  <2> QED
    BY <1>7, <2>1, <2>3, <2>4 DEF EnableTotp, TypeOK, Outdated, Parts
<1>8. CASE DisableTotp(w)
  <2>1. row' \in Row
    <3>1. row' = Flush(user, [user EXCEPT
                   !.totp_secret = None, !.totp_enabled = FALSE, !.totp_last_used_step = None])
      BY <1>1, <1>8 DEF DisableTotp, Row
    <3> QED
      BY <3>1, TotpCommitType DEF Optional
  <2>2. req' \in [Workers -> Request] /\ answer' \in Answers
    BY <1>8, AnswerType DEF DisableTotp, Answers
  <2> QED
    BY <1>8, <2>1, <2>2 DEF DisableTotp, TypeOK, Outdated, Parts
<1> QED
  BY <1>3, <1>4, <1>5, <1>6, <1>7, <1>8 DEF Handler

(* What the environment does keeps the types. *)
LEMMA EnvironmentType ==
  ASSUME TypeOK, Deactivate \/ Crash \/ Tick
  PROVE  TypeOK'
<1>1. CASE Deactivate
  BY <1>1 DEF Deactivate, TypeOK, Row, Answers, history
<1>2. CASE Crash
  BY <1>2, IdleType DEF Crash, TypeOK, Answers, history
<1>3. CASE Tick
  BY <1>3, SettingsAssumption DEF Tick, TypeOK, Answers, history
<1> QED
  BY <1>1, <1>2, <1>3

-----------------------------------------------------------------------------
(* The inductive invariant. *)

(* Only generated secrets are stored, verified or spent. *)
SecretsIssued ==
  /\ row.totp_secret \in Optional(issued)
  /\ verified \subseteq issued
  /\ spent \subseteq issued \X Nat

(* The counter of the stored secret is at or above every step spent with it. *)
SpentBelowCounter ==
  "totp" \notin stale =>
    \A p \in spent : p[1] = row.totp_secret =>
      row.totp_last_used_step # None /\ p[2] <= row.totp_last_used_step

RowOK ==
  /\ LimitReachedLocks
  /\ LockHasCause
  /\ SecretsIssued
  /\ NotEnabledUntilVerified
  /\ SpentBelowCounter

IInv == TypeOK /\ RequestsOK /\ RowOK

(* The initial state satisfies it. *)
LEMMA InitIInv == Init => IInv
<1> SUFFICES ASSUME Init PROVE IInv
  OBVIOUS
<1>1. RequestsOK
  BY DEF Init, RequestsOK, RequestOK, Idle, FreshRow, Optional
<1>2. RowOK
  BY SettingsAssumption
     DEF Init, RowOK, LimitReachedLocks, LockHasCause, SecretsIssued, NotEnabledUntilVerified,
         SpentBelowCounter, FreshRow, Optional
<1> QED
  BY <1>1, <1>2, InitType DEF IInv

(* Replacing one request by a sound one keeps all of them sound. *)
LEMMA RequestsStep ==
  ASSUME TypeOK, RequestsOK, NEW w \in Workers, NEW r, RequestOK(r, issued'),
         req' = [req EXCEPT ![w] = r], issued \subseteq issued'
  PROVE  RequestsOK'
BY DEF TypeOK, RequestsOK, RequestOK, Optional

(* An answered request, and a login between its commits, hold nothing. *)
LEMMA IdleOK ==
  ASSUME NEW at \in {"idle", "reset", "session"}, NEW generated
  PROVE  RequestOK([Idle EXCEPT !.at = at], generated)
BY DEF RequestOK, Idle, FreshRow, Optional

LEMMA AnswerOK ==
  ASSUME TypeOK, RequestsOK, NEW w \in Workers, NEW outcome, Answer(w, outcome),
         issued \subseteq issued'
  PROVE  RequestsOK'
<1>1. RequestOK(Idle, issued')
  BY DEF RequestOK, Idle, FreshRow, Optional
<1> QED
  BY <1>1, RequestsStep DEF Answer

(* A step that leaves the row and the history alone keeps the row sound. *)
LEMMA RowUnchanged ==
  ASSUME RowOK, row' = row, UNCHANGED history
  PROVE  RowOK'
BY DEF RowOK, LimitReachedLocks, LockHasCause, SecretsIssued, NotEnabledUntilVerified,
       SpentBelowCounter, history
(* A step of a client's new request. *)
LEMMA ClientIInv ==
  ASSUME IInv, NEW w \in Workers, Client(w)
  PROVE  IInv'
<1>1. TypeOK'
  BY ClientType DEF IInv
<1>2. row' = row /\ UNCHANGED history
  BY DEF Client, LoginRefused, LoginLocked, LoadLogin, NoSession, FindSession, history
<1>3. RowOK'
  BY <1>2, RowUnchanged DEF IInv
<1>4. RequestsOK'
  <2>1. CASE LoginRefused(w) \/ LoginLocked(w) \/ NoSession(w)
    <3>1. \E outcome \in Answers : Answer(w, outcome)
      BY <2>1 DEF LoginRefused, LoginLocked, NoSession, Answers
    <3> QED
      BY <1>2, <3>1, AnswerOK DEF IInv, history
  <2>2. ASSUME NEW challenge \in BOOLEAN, LoadLogin(w, challenge)
        PROVE  RequestsOK'
    <3> DEFINE r == [Idle EXCEPT !.at = "login", !.challenge = challenge, !.seen = row]
    <3>1. r.at = "login" /\ r.seen = row
      BY DEF Idle
    <3>2. row.failed_login_count < MaxFailedLogins
      BY <2>2, SettingsAssumption
         DEF LoadLogin, IInv, RowOK, LimitReachedLocks, TypeOK, Row
    <3>3. RequestOK(r, issued')
      BY <1>2, <2>2, <3>1, <3>2
         DEF LoadLogin, RequestOK, IInv, RowOK, SecretsIssued, history
    <3> QED
      BY <1>2, <2>2, <3>3, RequestsStep DEF LoadLogin, Continue, IInv, history
  <2>3. ASSUME NEW endpoint \in Endpoints, NEW token \in Tokens, FindSession(w, endpoint, token)
        PROVE  RequestsOK'
    <3> DEFINE r == [Idle EXCEPT !.at = "load", !.endpoint = endpoint, !.token = token]
    <3>1. RequestOK(r, issued')
      BY DEF RequestOK, Idle, FreshRow, Optional
    <3> QED
      BY <1>2, <2>3, <3>1, RequestsStep DEF FindSession, Continue, IInv, history
  <2> QED
    BY <2>1, <2>2, <2>3 DEF Client
<1> QED
  BY <1>1, <1>3, <1>4 DEF IInv

(* A counted failure. *)
LEMMA FailedLoginIInv ==
  ASSUME IInv, NEW w \in Workers, req[w].at = "login", ApplyFailedLogin(w)
  PROVE  IInv'
<1> DEFINE user == req[w].seen
           failed == user.failed_login_count + 1
<1>1. TypeOK'
  BY FailedLoginType DEF IInv
<1>2. RequestsOK'
  BY AnswerOK DEF ApplyFailedLogin, IInv
<1>3. /\ user \in Row
      /\ row \in Row
      /\ user.failed_login_count < MaxFailedLogins
      /\ user.locked_until = None
  BY DEF IInv, TypeOK, Request, RequestsOK, RequestOK
<1>4. failed \in Nat /\ failed # user.failed_login_count /\ failed <= MaxFailedLogins
  BY <1>3, SettingsAssumption DEF Row
<1>5. row'.failed_login_count = failed
  BY <1>3, <1>4 DEF ApplyFailedLogin, Flush, Written, Row
<1>6. row'.locked_until = IF failed = MaxFailedLogins THEN now + LockoutSeconds ELSE row.locked_until
  BY <1>3, <1>4, SettingsAssumption, NoneAssumption
     DEF ApplyFailedLogin, Flush, Written, Row, IInv, TypeOK
<1>7. Totp(row') = Totp(row)
  BY <1>3 DEF ApplyFailedLogin, Flush, Written, Row, Totp
<1>8. LimitReachedLocks'
  BY <1>4, <1>5, <1>6, SettingsAssumption, NoneAssumption DEF LimitReachedLocks, IInv, TypeOK
<1>9. LockHasCause'
  <2> SUFFICES ASSUME "lockout" \notin stale', row'.locked_until # None
               PROVE  failed = MaxFailedLogins
    BY <1>5 DEF LockHasCause
  <2>1. row.locked_until = None
    BY <1>3 DEF ApplyFailedLogin, Outdated, Lockout
  <2> QED
    BY <1>6, <2>1
<1>10. SecretsIssued' /\ NotEnabledUntilVerified' /\ SpentBelowCounter'
  BY <1>7 DEF Totp, ApplyFailedLogin, Outdated, IInv, RowOK, SecretsIssued,
              NotEnabledUntilVerified, SpentBelowCounter
<1> QED
  BY <1>1, <1>2, <1>8, <1>9, <1>10 DEF IInv, RowOK
(* An accepted code: only the counter is written, above all spent steps. *)
LEMMA AcceptCodeIInv ==
  ASSUME IInv, NEW w \in Workers, NEW step \in Window, AcceptCode(w, step)
  PROVE  IInv'
<1> DEFINE user == req[w].seen
<1>1. TypeOK'
  BY LoginType DEF Login, IInv
<1>2. RequestsOK'
  BY IdleOK, RequestsStep DEF AcceptCode, Continue, IInv
<1>3. /\ user \in Row /\ row \in Row /\ step \in Nat
      /\ user.totp_secret \in issued
      /\ spent \subseteq issued \X Nat
  BY DEF AcceptCode, ChecksCode, Window, IInv, TypeOK, Request, RequestsOK, RequestOK, Optional,
         RowOK, SecretsIssued
<1>4. step # user.totp_last_used_step
  BY <1>3, NoneAssumption DEF AcceptCode, Replays
<1>5. /\ Lockout(row') = Lockout(row)
      /\ row'.totp_enabled = row.totp_enabled
      /\ row'.totp_secret = row.totp_secret
      /\ row'.totp_last_used_step = step
  BY <1>3, <1>4 DEF AcceptCode, Flush, Written, Row, Lockout
<1>6. LimitReachedLocks' /\ LockHasCause' /\ NotEnabledUntilVerified'
  BY <1>5 DEF Lockout, AcceptCode, Outdated, IInv, RowOK, LimitReachedLocks, LockHasCause,
              NotEnabledUntilVerified
<1>7. SecretsIssued'
  BY <1>3, <1>5 DEF AcceptCode, IInv, RowOK, SecretsIssued
<1>8. SpentBelowCounter'
  <2> SUFFICES ASSUME "totp" \notin stale', NEW p \in spent', p[1] = row.totp_secret
               PROVE  step # None /\ p[2] <= step
    BY <1>5 DEF SpentBelowCounter
  <2>1. step # None
    BY <1>3, NoneAssumption
  <2>2. "totp" \notin stale /\ user.totp_last_used_step = row.totp_last_used_step
    BY DEF AcceptCode, Outdated, Totp
  <2>3. CASE p \in spent
    <3>1. row.totp_last_used_step # None /\ p[2] <= row.totp_last_used_step
      BY <2>2, <2>3 DEF IInv, RowOK, SpentBelowCounter
    <3>2. row.totp_last_used_step \in Nat /\ p[2] \in Nat
      BY <1>3, <2>3, <3>1 DEF Row, Optional
    <3>3. step > row.totp_last_used_step
      BY <1>3, <2>2, <3>1, <3>2 DEF AcceptCode, Replays
    <3> QED
      BY <1>3, <2>1, <3>1, <3>2, <3>3
  <2>4. CASE p \notin spent
    BY <1>3, <2>1, <2>4 DEF AcceptCode
  <2> QED
    BY <2>3, <2>4
<1> QED
  BY <1>1, <1>2, <1>6, <1>7, <1>8 DEF IInv, RowOK

(* A successful login resets the counters. *)
LEMMA ResetIInv ==
  ASSUME IInv, NEW w \in Workers, ResetAfterCode(w) \/ ResetAfterPassword(w)
  PROVE  IInv'
<1> DEFINE user == req[w].seen
<1>1. TypeOK'
  BY LoginType DEF Login, IInv
<1>2. RequestsOK'
  BY IdleOK, RequestsStep DEF ResetAfterCode, ResetAfterPassword, Continue, IInv, history
<1>3. user \in Row /\ row \in Row
  BY DEF IInv, TypeOK, Request
<1>4. Totp(row') = Totp(row)
  <2>1. CASE ResetAfterCode(w)
    BY <1>3, <2>1 DEF ResetAfterCode, Row, Totp
  <2>2. CASE ResetAfterPassword(w)
    BY <1>3, <2>2 DEF ResetAfterPassword, Flush, Written, Row, Totp
  <2> QED
    BY <2>1, <2>2
<1>5. SecretsIssued' /\ NotEnabledUntilVerified' /\ SpentBelowCounter'
  BY <1>4 DEF Totp, ResetAfterCode, ResetAfterPassword, Outdated, IInv, RowOK, SecretsIssued,
              NotEnabledUntilVerified, SpentBelowCounter, history
<1>6. LimitReachedLocks' /\ LockHasCause'
  <2>1. CASE ResetAfterCode(w)
    BY <1>3, <2>1, SettingsAssumption DEF ResetAfterCode, Row, LimitReachedLocks, LockHasCause
  <2>2. CASE ResetAfterPassword(w)
    <3>1. user.locked_until = None
      BY <2>2 DEF ResetAfterPassword, IInv, RequestsOK, RequestOK
    <3>2. /\ row'.locked_until = row.locked_until
          /\ row'.failed_login_count = row.failed_login_count \/ row'.failed_login_count = 0
      BY <1>3, <2>2, <3>1 DEF ResetAfterPassword, Flush, Written, Row
    <3>3. LimitReachedLocks'
      BY <3>2, SettingsAssumption DEF IInv, RowOK, LimitReachedLocks
    <3>4. LockHasCause'
      BY <2>2, <3>1, <3>2 DEF ResetAfterPassword, Outdated, Lockout, LockHasCause
    <3> QED
      BY <3>3, <3>4
  <2> QED
    BY <2>1, <2>2
<1> QED
  BY <1>1, <1>2, <1>5, <1>6 DEF IInv, RowOK

(* A step of a login. *)
LEMMA LoginIInv ==
  ASSUME IInv, NEW w \in Workers, Login(w)
  PROVE  IInv'
<1>1. TypeOK'
  BY LoginType DEF IInv
<1>2. CASE WrongPassword(w) \/ WrongCode(w) \/ \E step \in Window : ReplayedCode(w, step)
  BY <1>2, FailedLoginIInv DEF WrongPassword, WrongCode, ReplayedCode, ChecksCode
<1>3. CASE MissingCode(w) \/ MissingSecret(w)
  <2>1. \E outcome \in Answers : Answer(w, outcome)
    BY <1>3 DEF MissingCode, MissingSecret, Answers
  <2>2. row' = row /\ UNCHANGED history
    BY <1>3 DEF MissingCode, MissingSecret
  <2> QED
    BY <1>1, <2>1, <2>2, AnswerOK, RowUnchanged DEF IInv, history
<1>4. CASE \E token \in Tokens : CreateSession(w, token)
  BY <1>1, <1>4, AnswerOK, RowUnchanged DEF CreateSession, IInv, history
<1> QED
  BY <1>2, <1>3, <1>4, AcceptCodeIInv, ResetIInv DEF Login
(* A new secret: whatever was copied, it is stored, and switched off unless *)
(* the copy had 2FA off already.                                           *)
LEMMA SetupIInv ==
  ASSUME IInv, NEW w \in Workers, NEW secret \in Secrets, SetupTotp(w, secret)
  PROVE  IInv'
<1> DEFINE user == req[w].seen
<1>1. TypeOK'
  BY HandlerType DEF Handler, IInv
<1>2. RequestsOK'
  BY AnswerOK DEF SetupTotp, IInv
<1>3. /\ user \in Row /\ row \in Row
      /\ user.totp_secret \in Optional(issued)
      /\ issued \subseteq Secrets
  BY DEF IInv, TypeOK, Request, RequestsOK, RequestOK
<1>4. secret # user.totp_secret
  BY <1>3, NoneAssumption DEF SetupTotp, Optional
<1>5. Lockout(row') = Lockout(row) /\ row'.totp_secret = secret
  BY <1>3, <1>4 DEF SetupTotp, Flush, Written, Row, Lockout
<1>6. LimitReachedLocks' /\ LockHasCause'
  BY <1>5 DEF Lockout, SetupTotp, Outdated, IInv, RowOK, LimitReachedLocks, LockHasCause
<1>7. SecretsIssued'
  BY <1>5 DEF SetupTotp, IInv, RowOK, SecretsIssued, Optional
<1>8. NotEnabledUntilVerified'
  <2> SUFFICES ASSUME "totp" \notin stale'
               PROVE  ~row'.totp_enabled
    BY DEF NotEnabledUntilVerified
  <2>1. user.totp_enabled = row.totp_enabled
    BY DEF SetupTotp, Outdated, Totp
  <2> QED
    BY <1>3, <2>1 DEF SetupTotp, Flush, Written, Row
<1>9. SpentBelowCounter'
  BY <1>5 DEF SetupTotp, IInv, RowOK, SecretsIssued, SpentBelowCounter
<1> QED
  BY <1>1, <1>2, <1>6, <1>7, <1>8, <1>9 DEF IInv, RowOK

(* A confirmed secret: it becomes verified, and its spent steps forgotten. *)
LEMMA EnableIInv ==
  ASSUME IInv, NEW w \in Workers, EnableTotp(w)
  PROVE  IInv'
<1> DEFINE user == req[w].seen
<1>1. TypeOK'
  BY HandlerType DEF Handler, IInv
<1>2. RequestsOK'
  BY AnswerOK DEF EnableTotp, IInv
<1>3. /\ user \in Row /\ row \in Row
      /\ user.totp_secret \in issued
  BY DEF EnableTotp, IInv, TypeOK, Request, RequestsOK, RequestOK, Optional
<1>4. Lockout(row') = Lockout(row) /\ row'.totp_secret = row.totp_secret
  BY <1>3 DEF EnableTotp, Flush, Written, Row, Lockout
<1>5. LimitReachedLocks' /\ LockHasCause'
  BY <1>4 DEF Lockout, EnableTotp, Outdated, IInv, RowOK, LimitReachedLocks, LockHasCause
<1>6. SecretsIssued'
  BY <1>3, <1>4 DEF EnableTotp, IInv, RowOK, SecretsIssued
<1>7. ASSUME "totp" \notin stale'
      PROVE  user.totp_secret = row.totp_secret
  BY <1>7 DEF EnableTotp, Outdated, Totp
<1>8. NotEnabledUntilVerified'
  BY <1>4, <1>7 DEF EnableTotp, NotEnabledUntilVerified
<1>9. SpentBelowCounter'
  BY <1>4, <1>7 DEF EnableTotp, SpentBelowCounter
<1> QED
  BY <1>1, <1>2, <1>5, <1>6, <1>8, <1>9 DEF IInv, RowOK

(* 2FA switched off: without a secret nothing is spent with it. *)
LEMMA DisableIInv ==
  ASSUME IInv, NEW w \in Workers, DisableTotp(w)
  PROVE  IInv'
<1> DEFINE user == req[w].seen
<1>1. TypeOK'
  BY HandlerType DEF Handler, IInv
<1>2. RequestsOK'
  BY AnswerOK DEF DisableTotp, IInv
<1>3. user \in Row /\ row \in Row
  BY DEF IInv, TypeOK, Request
<1>4. /\ Lockout(row') = Lockout(row)
      /\ row'.totp_secret = None
      /\ row'.totp_enabled = FALSE
  BY <1>3 DEF DisableTotp, Flush, Written, Row, Lockout
<1>5. LimitReachedLocks' /\ LockHasCause' /\ NotEnabledUntilVerified'
  BY <1>4 DEF Lockout, DisableTotp, Outdated, IInv, RowOK, LimitReachedLocks, LockHasCause,
              NotEnabledUntilVerified
<1>6. SecretsIssued' /\ None \notin issued
  BY <1>4, NoneAssumption DEF DisableTotp, IInv, TypeOK, RowOK, SecretsIssued, Optional
<1>7. SpentBelowCounter'
  BY <1>4, <1>6 DEF DisableTotp, IInv, RowOK, SecretsIssued, SpentBelowCounter
<1> QED
  BY <1>1, <1>2, <1>5, <1>6, <1>7 DEF IInv, RowOK

(* A step of a request behind a session. *)
LEMMA HandlerIInv ==
  ASSUME IInv, NEW w \in Workers, Handler(w)
  PROVE  IInv'
<1>1. TypeOK'
  BY HandlerType DEF IInv
<1>2. ASSUME NEW outcome \in Answers, Answer(w, outcome), row' = row, UNCHANGED history
      PROVE  IInv'
  BY <1>1, <1>2, AnswerOK, RowUnchanged DEF IInv, history
<1>3. CASE Status(w) \/ Logout(w) \/ EnableUninitialized(w) \/ DisableNoop(w) \/ TwoFaRefused(w)
  BY <1>2, <1>3 DEF Status, Logout, EnableUninitialized, DisableNoop, TwoFaRefused, Answers
<1>4. CASE LoadUser(w)
  <2>1. CASE row.is_active
    <3> DEFINE r == [req[w] EXCEPT !.at = "handle", !.seen = row]
    <3>1. req[w] \in Request /\ req[w].token \in Tokens
      BY <1>4 DEF LoadUser, IInv, TypeOK, RequestsOK, RequestOK
    <3>2. r.at = "handle" /\ r.seen = row /\ r.token = req[w].token
      BY <3>1 DEF Request
    <3>3. RequestOK(r, issued')
      BY <1>4, <3>1, <3>2 DEF LoadUser, RequestOK, IInv, RowOK, SecretsIssued, history
    <3> QED
      BY <1>1, <1>4, <2>1, <3>3, RequestsStep, RowUnchanged DEF LoadUser, Continue, IInv, history
  <2>2. CASE ~row.is_active
    BY <1>2, <1>4, <2>2 DEF LoadUser, Answers
  <2> QED
    BY <2>1, <2>2
<1> QED
  BY <1>3, <1>4, SetupIInv, EnableIInv, DisableIInv DEF Handler

(* What the environment does. *)
LEMMA EnvironmentIInv ==
  ASSUME IInv, Deactivate \/ Crash \/ Tick
  PROVE  IInv'
<1>1. TypeOK'
  BY EnvironmentType DEF IInv
<1>2. Lockout(row') = Lockout(row) /\ Totp(row') = Totp(row) /\ UNCHANGED history
  BY DEF Deactivate, Crash, Tick, IInv, TypeOK, Row, Lockout, Totp
<1>3. RowOK'
  BY <1>2 DEF Lockout, Totp, IInv, RowOK, LimitReachedLocks, LockHasCause, SecretsIssued,
              NotEnabledUntilVerified, SpentBelowCounter, history
<1>4. RequestsOK'
  <2>1. CASE Crash
    BY <1>2, <2>1, IdleOK DEF Crash, RequestsOK, RequestOK, Idle, FreshRow, Optional
  <2>2. CASE Deactivate \/ Tick
    BY <1>2, <2>2 DEF Deactivate, Tick, IInv, RequestsOK, history
  <2> QED
    BY <2>1, <2>2
<1> QED
  BY <1>1, <1>3, <1>4 DEF IInv

(* Every step keeps the inductive invariant. *)
LEMMA NextIInv == IInv /\ [Next]_vars => IInv'
<1> SUFFICES ASSUME IInv, [Next]_vars PROVE IInv'
  OBVIOUS
<1>1. CASE Next
  BY <1>1, ClientIInv, LoginIInv, HandlerIInv, EnvironmentIInv DEF Next
<1>2. CASE UNCHANGED vars
  BY <1>2 DEF vars, IInv, TypeOK, RequestsOK, RequestOK, RowOK, LimitReachedLocks, LockHasCause,
              SecretsIssued, NotEnabledUntilVerified, SpentBelowCounter
<1> QED
  BY <1>1, <1>2

-----------------------------------------------------------------------------
(* The theorems. *)

(* The inductive invariant holds in every reachable state. *)
THEOREM Invariance == Spec => []IInv
BY InitIInv, NextIInv, PTL DEF Spec

(* The columns, the sessions and the requests always have their types. *)
THEOREM Typing == Spec => []TypeOK
<1>1. IInv => TypeOK
  BY DEF IInv
<1> QED
  BY <1>1, Invariance, PTL

(* An account at the failure limit is locked, whatever the interleaving:    *)
(* _apply_failed_login raises the count and sets the lock in one commit,   *)
(* and the only commit that clears the lock also clears the count.         *)
THEOREM LimitTheorem == Spec => []LimitReachedLocks
<1>1. IInv => LimitReachedLocks
  BY DEF IInv, RowOK
<1> QED
  BY <1>1, Invariance, PTL

(* Until a commit counts from an outdated copy, a locked account has        *)
(* MaxFailedLogins failures on record.                                     *)
THEOREM LockTheorem == Spec => []LockHasCause
<1>1. IInv => LockHasCause
  BY DEF IInv, RowOK
<1> QED
  BY <1>1, Invariance, PTL

(* Until a two-factor commit uses an outdated copy, 2FA is enabled only     *)
(* with a secret an enable request verified.                               *)
THEOREM VerifiedTheorem == Spec => []NotEnabledUntilVerified
<1>1. IInv => NotEnabledUntilVerified
  BY DEF IInv, RowOK
<1> QED
  BY <1>1, Invariance, PTL

(* Only a login whose code was accepted ever lifts a lock. *)
THEOREM UnlockTheorem == Spec => OnlyAcceptedLoginUnlocks
<1> DEFINE Unlocks == row.locked_until # None /\ row'.locked_until = None
           Accepted == \E w \in Workers : req[w].at = "reset"
<1>1. IInv /\ [Next]_vars => [Unlocks => Accepted]_vars
  <2> SUFFICES ASSUME IInv, Next, Unlocks PROVE Accepted
    BY DEF vars
  <2>1. ASSUME NEW w \in Workers, Client(w) PROVE FALSE
    BY <2>1 DEF Client, LoginRefused, LoginLocked, LoadLogin, NoSession, FindSession
  <2>2. CASE Deactivate \/ Crash \/ Tick
    BY <2>2 DEF Deactivate, Crash, Tick, IInv, TypeOK, Row
  <2>3. ASSUME NEW w \in Workers, Handler(w) PROVE FALSE
    <3>1. req[w].seen \in Row /\ row \in Row
      BY DEF IInv, TypeOK, Request
    <3>2. row'.locked_until = row.locked_until
      <4>1. CASE \E secret \in Secrets : SetupTotp(w, secret)
        BY <3>1, <4>1 DEF SetupTotp, Flush, Written, Row
      <4>2. CASE EnableTotp(w)
        BY <3>1, <4>2 DEF EnableTotp, Flush, Written, Row
      <4>3. CASE DisableTotp(w)
        BY <3>1, <4>3 DEF DisableTotp, Flush, Written, Row
      <4> QED
        BY <2>3, <4>1, <4>2, <4>3
           DEF Handler, LoadUser, Status, Logout, EnableUninitialized, DisableNoop, TwoFaRefused
    <3> QED
      BY <3>2
  <2>4. ASSUME NEW w \in Workers, Login(w) PROVE req[w].at = "reset"
    <3> SUFFICES ASSUME req[w].at # "reset" PROVE row'.locked_until # None
      OBVIOUS
    <3>1. /\ req[w].seen \in Row /\ row \in Row /\ now \in Nat
          /\ req[w].at = "login" => req[w].seen.locked_until = None
      BY SettingsAssumption DEF IInv, TypeOK, Request, RequestsOK, RequestOK
    <3>2. CASE ApplyFailedLogin(w)
      BY <3>1, <3>2, SettingsAssumption, NoneAssumption DEF ApplyFailedLogin, Flush, Written, Row
    <3>3. CASE \E step \in Window : AcceptCode(w, step)
      BY <3>1, <3>3 DEF AcceptCode, Flush, Written, Row
    <3>4. CASE ResetAfterPassword(w)
      BY <3>1, <3>4 DEF ResetAfterPassword, Flush, Written, Row
    <3> QED
      BY <2>4, <3>2, <3>3, <3>4
         DEF Login, WrongPassword, WrongCode, ReplayedCode, MissingCode, MissingSecret,
             ResetAfterCode, CreateSession
  <2> QED
    BY <2>1, <2>2, <2>3, <2>4 DEF Next
<1>2. Spec => []IInv /\ [][Next]_vars
  BY Invariance DEF Spec
<1> QED
  BY <1>1, <1>2, PTL DEF OnlyAcceptedLoginUnlocks
(* Until a two-factor commit uses an outdated copy, a login is accepted only *)
(* with a step not spent since the secret was confirmed.                   *)
THEOREM ReplayTheorem == Spec => StepSpentOnce
<1> DEFINE Once == \A w \in Workers :
             req[w].at = "login" /\ req'[w].at = "reset" /\ "totp" \notin stale' => spent' # spent
<1>1. IInv /\ [Next]_vars => [Once]_vars
  <2> SUFFICES ASSUME IInv, Next, NEW w \in Workers,
                      req[w].at = "login", req'[w].at = "reset", "totp" \notin stale'
               PROVE  spent' # spent
    BY DEF vars
  <2> DEFINE user == req[w].seen
  <2>1. ASSUME NEW v \in Workers, v # w, Client(v) \/ Login(v) \/ Handler(v)
        PROVE  FALSE
    <3>1. req'[w] = req[w]
      BY <2>1 DEF Client, Login, Handler, LoginRefused, LoginLocked, LoadLogin, NoSession,
           FindSession, WrongPassword, WrongCode, ReplayedCode, ApplyFailedLogin, MissingCode,
           MissingSecret, AcceptCode, ResetAfterCode, ResetAfterPassword, CreateSession, LoadUser,
           Status, Logout, SetupTotp, EnableUninitialized, EnableTotp, DisableNoop, DisableTotp,
           TwoFaRefused, Answer, Continue, IInv, TypeOK
    <3> QED
      BY <3>1
  <2>2. ~(Deactivate \/ Crash \/ Tick)
    BY DEF Deactivate, Crash, Tick, Idle
  <2>3. ~Client(w) /\ ~Handler(w)
    BY DEF Client, Handler, LoginRefused, LoginLocked, LoadLogin, NoSession, FindSession, LoadUser,
           Status, Logout, SetupTotp, EnableUninitialized, EnableTotp, DisableNoop, DisableTotp,
           TwoFaRefused, Handles
  <2>4. Login(w)
    BY <2>1, <2>2, <2>3 DEF Next
  <2>5. \A r : Continue(w, r) => req'[w] = r
    BY DEF Continue, IInv, TypeOK
  <2>6. \A outcome : ~Answer(w, outcome)
    BY DEF Answer, Idle, IInv, TypeOK
  <2>7. PICK step \in Window : AcceptCode(w, step)
    BY <2>4, <2>5, <2>6
       DEF Login, WrongPassword, WrongCode, ReplayedCode, ApplyFailedLogin, MissingCode,
           MissingSecret, ResetAfterCode, ResetAfterPassword, CreateSession, Idle
  <2>8. Totp(user) = Totp(row) /\ "totp" \notin stale
    BY <2>7 DEF AcceptCode, Outdated
  <2>9. row \in Row /\ step \in Nat /\ spent \subseteq issued \X Nat
    BY DEF IInv, TypeOK, RowOK, SecretsIssued, Window
  <2>10. <<user.totp_secret, step>> \notin spent
    <3> SUFFICES ASSUME <<user.totp_secret, step>> \in spent PROVE FALSE
      OBVIOUS
    <3>1. row.totp_last_used_step # None /\ step <= row.totp_last_used_step
      BY <2>8 DEF IInv, RowOK, SpentBelowCounter, Totp
    <3> QED
      BY <2>7, <2>8, <3>1 DEF AcceptCode, Replays, Totp
  <2> QED
    BY <2>7, <2>10 DEF AcceptCode
<1>2. Spec => []IInv /\ [][Next]_vars
  BY Invariance DEF Spec
<1> QED
  BY <1>1, <1>2, PTL DEF StepSpentOnce

(* A deactivated account, once its requests are done, never changes again. *)
THEOREM FrozenTheorem == Spec => DeactivatedAccountFrozen
<1> DEFINE Frozen == ~row.is_active /\ Drained => UNCHANGED <<row, expires_at, revoked>> /\ Drained'
<1>1. TypeOK /\ [Next]_vars => [Frozen]_vars
  <2> SUFFICES ASSUME TypeOK, Next, ~row.is_active, Drained
               PROVE  UNCHANGED <<row, expires_at, revoked>> /\ Drained'
    BY DEF vars
  <2>1. ASSUME NEW w \in Workers, NEW outcome, Answer(w, outcome) PROVE Drained'
    BY <2>1 DEF Answer, Drained, Idle, TypeOK
  <2>2. ASSUME NEW w \in Workers, Client(w)
        PROVE  UNCHANGED <<row, expires_at, revoked>> /\ Drained'
    <3>1. CASE LoginRefused(w) \/ LoginLocked(w) \/ NoSession(w)
      BY <2>1, <3>1 DEF LoginRefused, LoginLocked, NoSession
    <3>2. CASE \E endpoint \in Endpoints, token \in Tokens : FindSession(w, endpoint, token)
      BY <3>2 DEF FindSession, Continue, Drained, Idle, TypeOK
    <3> QED
      BY <2>2, <3>1, <3>2 DEF Client, LoadLogin
  <2>3. ASSUME NEW w \in Workers, Login(w) PROVE FALSE
    BY <2>3 DEF Login, Drained, WrongPassword, WrongCode, ReplayedCode, ChecksCode, MissingCode,
                MissingSecret, AcceptCode, ResetAfterCode, ResetAfterPassword, CreateSession
  <2>4. ASSUME NEW w \in Workers, Handler(w)
        PROVE  UNCHANGED <<row, expires_at, revoked>> /\ Drained'
    <3>1. LoadUser(w)
      BY <2>4 DEF Handler, Drained, Handles, Status, Logout, SetupTotp, EnableUninitialized,
                  EnableTotp, DisableNoop, DisableTotp, TwoFaRefused
    <3> QED
      BY <2>1, <3>1 DEF LoadUser
  <2>5. CASE Deactivate \/ Crash \/ Tick
    BY <2>5 DEF Deactivate, Crash, Tick, Drained, Idle
  <2> QED
    BY <2>2, <2>3, <2>4, <2>5 DEF Next
<1>2. Spec => []TypeOK /\ [][Next]_vars
  BY Typing DEF Spec
<1> QED
  BY <1>1, <1>2, PTL DEF DeactivatedAccountFrozen
-----------------------------------------------------------------------------
(* Without outdated copies an account implements the abstract one. *)

AccountStep == A!ANext \/ UNCHANGED A!avars
Accepted == {w \in Workers : req[w].at = "reset"}

(* Only a request that enters or leaves "reset" changes the accepted logins. *)
LEMMA AcceptedUnchanged ==
  ASSUME TypeOK, NEW w \in Workers, NEW r, req' = [req EXCEPT ![w] = r],
         req[w].at # "reset", r.at # "reset"
  PROVE  Accepted' = Accepted
<1>1. ASSUME NEW v \in Workers
      PROVE  req'[v].at = "reset" <=> req[v].at = "reset"
  <2>1. CASE v = w
    BY <2>1 DEF TypeOK
  <2>2. CASE v # w
    BY <2>2 DEF TypeOK
  <2> QED
    BY <2>1, <2>2
<1>2. Accepted' = {v \in Workers : req'[v].at = "reset"}
  BY DEF Accepted
<1> QED
  BY <1>1, <1>2 DEF Accepted

(* Answering a request that is not in "reset" keeps the accepted logins. *)
LEMMA AnswerAccepted ==
  ASSUME TypeOK, NEW w \in Workers, NEW outcome, Answer(w, outcome), req[w].at # "reset"
  PROVE  Accepted' = Accepted
<1>1. Idle.at # "reset"
  BY DEF Idle
<1> QED
  BY <1>1, AcceptedUnchanged DEF Answer

(* A step that keeps the row and the accepted logins is a stutter. *)
LEMMA Stutter ==
  ASSUME row' = row, Accepted' = Accepted
  PROVE  AccountStep
BY DEF AccountStep, Accepted, A!avars

(* A client's new request is a stutter. *)
LEMMA ClientRefines ==
  ASSUME TypeOK, NEW w \in Workers, Client(w)
  PROVE  AccountStep
<1>1. row' = row /\ req[w].at = "idle"
  BY DEF Client, LoginRefused, LoginLocked, LoadLogin, NoSession, FindSession
<1>2. CASE LoginRefused(w) \/ LoginLocked(w) \/ NoSession(w)
  BY <1>1, <1>2, AnswerAccepted, Stutter DEF LoginRefused, LoginLocked, NoSession
<1>3. ASSUME NEW challenge \in BOOLEAN, LoadLogin(w, challenge)
      PROVE  AccountStep
  <2>1. [Idle EXCEPT !.at = "login", !.challenge = challenge, !.seen = row].at = "login"
    BY DEF Idle
  <2> QED
    BY <1>1, <1>3, <2>1, AcceptedUnchanged, Stutter DEF LoadLogin, Continue
<1>4. ASSUME NEW endpoint \in Endpoints, NEW token \in Tokens, FindSession(w, endpoint, token)
      PROVE  AccountStep
  <2>1. [Idle EXCEPT !.at = "load", !.endpoint = endpoint, !.token = token].at = "load"
    BY DEF Idle
  <2> QED
    BY <1>1, <1>4, <2>1, AcceptedUnchanged, Stutter DEF FindSession, Continue
<1> QED
  BY <1>2, <1>3, <1>4 DEF Client

(* A failure counted from an up-to-date copy is Fail. *)
LEMMA FailedLoginRefines ==
  ASSUME IInv, NEW w \in Workers, req[w].at = "login", ApplyFailedLogin(w), stale' = {}
  PROVE  AccountStep
<1> DEFINE user == req[w].seen
           failed == user.failed_login_count + 1
<1>1. /\ user \in Row /\ row \in Row
      /\ user.locked_until = None
  BY DEF IInv, TypeOK, Request, RequestsOK, RequestOK
<1>2. Lockout(user) = Lockout(row)
  BY DEF ApplyFailedLogin, Outdated
<1>3. /\ row.locked_until = None
      /\ row.failed_login_count = user.failed_login_count
  BY <1>1, <1>2 DEF Lockout
<1>4. failed \in Nat /\ failed # user.failed_login_count
  BY <1>1 DEF Row
<1>5. row'.failed_login_count = row.failed_login_count + 1
  BY <1>1, <1>3, <1>4 DEF ApplyFailedLogin, Flush, Written, Row
<1>6. (row'.locked_until # None) = (row.failed_login_count + 1 >= MaxFailedLogins)
  <2>1. now + LockoutSeconds # None
    BY NoneAssumption, SettingsAssumption DEF IInv, TypeOK
  <2> QED
    BY <1>1, <1>3, <1>4, <2>1 DEF ApplyFailedLogin, Flush, Written, Row
<1>7. row'.is_active = row.is_active /\ Totp(row') = Totp(row)
  BY <1>1 DEF ApplyFailedLogin, Flush, Written, Row, Totp
<1>8. Accepted' = Accepted
  BY AnswerAccepted DEF ApplyFailedLogin, IInv
<1>9. A!Fail
  BY <1>3, <1>5, <1>6, <1>7, <1>8 DEF A!Fail, Totp, Accepted
<1> QED
  BY <1>9 DEF AccountStep, A!ANext
(* A step of a login: UseCode, Clear, PasswordSuffices, Fail or a stutter. *)
LEMMA LoginRefines ==
  ASSUME IInv, NEW w \in Workers, Login(w), stale' = {}
  PROVE  AccountStep
<1> DEFINE user == req[w].seen
<1>1. user \in Row /\ row \in Row /\ TypeOK
  BY DEF IInv, TypeOK, Request
<1>2. CASE WrongPassword(w) \/ WrongCode(w) \/ \E step \in Window : ReplayedCode(w, step)
  BY <1>2, FailedLoginRefines DEF WrongPassword, WrongCode, ReplayedCode, ChecksCode
<1>3. CASE MissingCode(w) \/ MissingSecret(w) \/ \E token \in Tokens : CreateSession(w, token)
  <2>1. row' = row /\ req[w].at # "reset" /\ \E outcome : Answer(w, outcome)
    BY <1>3 DEF MissingCode, MissingSecret, CreateSession
  <2> QED
    BY <1>1, <2>1, AnswerAccepted, Stutter
<1>4. ASSUME NEW step \in Window, AcceptCode(w, step)
      PROVE  AccountStep
  <2>1. Totp(user) = Totp(row)
    BY <1>4 DEF AcceptCode, Outdated
  <2>2. step \in 0 .. MaxTime + 1
    BY SettingsAssumption, <1>1 DEF Window, TypeOK
  <2>3. /\ row.totp_enabled
        /\ row.totp_last_used_step # None => step > row.totp_last_used_step
    BY <1>1, <1>4, <2>1, <2>2, SettingsAssumption
       DEF AcceptCode, ChecksCode, Replays, Totp, Row, Optional
  <2>4. step # user.totp_last_used_step
    BY <1>4, <2>2, NoneAssumption, SettingsAssumption DEF AcceptCode, Replays
  <2>5. /\ row'.is_active = row.is_active /\ Lockout(row') = Lockout(row)
        /\ row'.totp_enabled = row.totp_enabled /\ row'.totp_secret = row.totp_secret
        /\ row'.totp_last_used_step = step
    BY <1>1, <1>4, <2>4 DEF AcceptCode, Flush, Written, Row, Lockout
  <2>6. Accepted' = Accepted \cup {w}
    <3>1. [Idle EXCEPT !.at = "reset"].at = "reset"
      BY DEF Idle
    <3> QED
      BY <1>1, <1>4, <3>1 DEF AcceptCode, Continue, Accepted, TypeOK
  <2>7. A!UseCode(w, step)
    BY <2>3, <2>5, <2>6 DEF A!UseCode, Lockout, Accepted
  <2> QED
    BY <2>2, <2>7 DEF AccountStep, A!ANext
<1>5. CASE ResetAfterCode(w)
  <2>1. /\ row'.failed_login_count = 0 /\ row'.locked_until = None
        /\ row'.is_active = row.is_active /\ Totp(row') = Totp(row)
    BY <1>1, <1>5 DEF ResetAfterCode, Row, Totp
  <2>2. w \in Accepted /\ Accepted' = Accepted \ {w}
    <3>1. [Idle EXCEPT !.at = "session"].at = "session"
      BY DEF Idle
    <3> QED
      BY <1>1, <1>5, <3>1 DEF ResetAfterCode, Continue, Accepted, TypeOK
  <2>3. A!Clear(w)
    BY <2>1, <2>2 DEF A!Clear, Totp, Accepted
  <2> QED
    BY <2>3 DEF AccountStep, A!ANext
<1>6. CASE ResetAfterPassword(w)
  <2>1. Totp(user) = Totp(row) /\ Lockout(user) = Lockout(row)
    BY <1>6 DEF ResetAfterPassword, Outdated
  <2>2. row.locked_until = None /\ ~row.totp_enabled
    BY <1>6, <2>1 DEF ResetAfterPassword, IInv, RequestsOK, RequestOK, Totp, Lockout
  <2>3. /\ row'.failed_login_count = 0 /\ row'.locked_until = None
        /\ row'.is_active = row.is_active /\ Totp(row') = Totp(row)
    BY <1>1, <1>6, <2>1, <2>2 DEF ResetAfterPassword, Flush, Written, Row, Totp, Lockout
  <2>4. Accepted' = Accepted
    <3>1. [Idle EXCEPT !.at = "session"].at = "session"
      BY DEF Idle
    <3> QED
      BY <1>1, <1>6, <3>1, AcceptedUnchanged DEF ResetAfterPassword, Continue
  <2>5. A!PasswordSuffices
    BY <2>2, <2>3, <2>4 DEF A!PasswordSuffices, Totp, Accepted
  <2> QED
    BY <2>5 DEF AccountStep, A!ANext
<1> QED
  BY <1>2, <1>3, <1>4, <1>5, <1>6 DEF Login
(* A step of a request behind a session: Enrol, Confirm, Remove or a stutter. *)
LEMMA HandlerRefines ==
  ASSUME IInv, NEW w \in Workers, Handler(w), stale' = {}
  PROVE  AccountStep
<1> DEFINE user == req[w].seen
<1>1. /\ user \in Row /\ row \in Row /\ TypeOK
      /\ row.totp_secret \in Optional(issued)
      /\ issued \subseteq Secrets
  BY DEF IInv, TypeOK, Request, RowOK, SecretsIssued
<1>2. CASE LoadUser(w)
  <2>1. row' = row
    BY <1>2 DEF LoadUser
  <2>2. Accepted' = Accepted
    <3>1. [req[w] EXCEPT !.at = "handle", !.seen = row].at = "handle"
      BY <1>1 DEF TypeOK, Request
    <3>2. CASE row.is_active
      BY <1>1, <1>2, <3>1, <3>2, AcceptedUnchanged DEF LoadUser, Continue
    <3>3. CASE ~row.is_active
      BY <1>1, <1>2, <3>3, AnswerAccepted DEF LoadUser
    <3> QED
      BY <3>2, <3>3
  <2> QED
    BY <2>1, <2>2, Stutter
<1>3. ASSUME NEW outcome, Answer(w, outcome), req[w].at = "handle"
      PROVE  Accepted' = Accepted
  BY <1>1, <1>3, AnswerAccepted
<1>4. CASE Status(w) \/ Logout(w) \/ EnableUninitialized(w) \/ DisableNoop(w) \/ TwoFaRefused(w)
  BY <1>3, <1>4, Stutter
     DEF Status, Logout, EnableUninitialized, DisableNoop, TwoFaRefused, Handles
<1>5. ASSUME NEW secret \in Secrets, SetupTotp(w, secret)
      PROVE  AccountStep
  <2>1. Totp(user) = Totp(row)
    BY <1>5 DEF SetupTotp, Outdated
  <2>2. secret # row.totp_secret /\ secret # None
    BY <1>1, <1>5, NoneAssumption DEF SetupTotp, Optional
  <2>3. /\ row'.totp_secret = secret /\ row'.totp_enabled = FALSE
        /\ row'.totp_last_used_step = None
        /\ row'.is_active = row.is_active /\ Lockout(row') = Lockout(row)
    BY <1>1, <1>5, <2>1, <2>2 DEF SetupTotp, Flush, Written, Row, Totp, Lockout
  <2>4. Accepted' = Accepted
    BY <1>3, <1>5 DEF SetupTotp, Handles
  <2>5. A!Enrol(secret)
    BY <2>2, <2>3, <2>4 DEF A!Enrol, Lockout, Accepted
  <2> QED
    BY <2>5 DEF AccountStep, A!ANext
<1>6. CASE EnableTotp(w)
  <2>1. Totp(user) = Totp(row) /\ user.totp_secret # None
    BY <1>6 DEF EnableTotp, Outdated
  <2>2. /\ row'.totp_secret = row.totp_secret /\ row'.totp_enabled = TRUE
        /\ row'.totp_last_used_step = None
        /\ row'.is_active = row.is_active /\ Lockout(row') = Lockout(row)
    BY <1>1, <1>6, <2>1 DEF EnableTotp, Flush, Written, Row, Totp, Lockout
  <2>3. Accepted' = Accepted
    BY <1>3, <1>6 DEF EnableTotp, Handles
  <2>4. A!Confirm
    BY <2>1, <2>2, <2>3 DEF A!Confirm, Lockout, Totp, Accepted
  <2> QED
    BY <2>4 DEF AccountStep, A!ANext
<1>7. CASE DisableTotp(w)
  <2>1. Totp(user) = Totp(row) /\ user.totp_enabled
    BY <1>7 DEF DisableTotp, Outdated
  <2>2. /\ row'.totp_secret = None /\ row'.totp_enabled = FALSE
        /\ row'.totp_last_used_step = None
        /\ row'.is_active = row.is_active /\ Lockout(row') = Lockout(row)
    BY <1>1, <1>7, <2>1 DEF DisableTotp, Flush, Written, Row, Totp, Lockout
  <2>3. Accepted' = Accepted
    BY <1>3, <1>7 DEF DisableTotp, Handles
  <2>4. A!Remove
    BY <2>1, <2>2, <2>3 DEF A!Remove, Lockout, Totp, Accepted
  <2> QED
    BY <2>4 DEF AccountStep, A!ANext
<1> QED
  BY <1>2, <1>4, <1>5, <1>6, <1>7 DEF Handler

(* What the environment does: Retire, Forget or a stutter. *)
LEMMA EnvironmentRefines ==
  ASSUME IInv, Deactivate \/ Crash \/ Tick
  PROVE  AccountStep
<1>1. CASE Deactivate
  <2>1. A!Retire
    BY <1>1 DEF Deactivate, IInv, TypeOK, Row, A!Retire
  <2> QED
    BY <2>1 DEF AccountStep, A!ANext
<1>2. CASE Crash
  <2>1. A!Forget
    BY <1>2 DEF Crash, Idle, A!Forget
  <2> QED
    BY <2>1 DEF AccountStep, A!ANext
<1>3. CASE Tick
  BY <1>3, Stutter DEF Tick, Accepted
<1> QED
  BY <1>1, <1>2, <1>3

(* The account's columns follow the abstract account, step by step, until a *)
(* commit uses an outdated copy: with requests that do not overlap, login,  *)
(* lockout and enrolment are the atomic operations of Account.             *)
THEOREM RefinementTheorem == Spec => ImplementsAccount
<1>1. Init => A!AInit
  BY DEF Init, Idle, FreshRow, A!AInit
<1>2. IInv /\ [Next]_vars => [stale' = {} => A!ANext \/ UNCHANGED A!avars]_vars
  <2> SUFFICES ASSUME IInv, Next, stale' = {} PROVE AccountStep
    BY DEF AccountStep, vars
  <2> QED
    BY ClientRefines, LoginRefines, HandlerRefines, EnvironmentRefines DEF Next, IInv
<1>3. Spec => []IInv /\ [][Next]_vars
  BY Invariance DEF Spec
<1> QED
  BY <1>1, <1>2, <1>3, PTL DEF ImplementsAccount, Spec
-----------------------------------------------------------------------------
(* With one worker no request is between another's SELECT and commit. *)

OneWorker == \A v, w \in Workers : v = w

Same(old, current) == Lockout(old) = Lockout(current) /\ Totp(old) = Totp(current)

(* The copy a request will commit from is the row, `is_active` excepted: an *)
(* operator may have cleared it, and no commit writes it.                  *)
SerialIInv ==
  /\ OneWorker
  /\ IInv
  /\ stale = {}
  /\ \A w \in Workers : req[w].at \in {"login", "handle"} => Same(req[w].seen, row)

(* A step after which the worker holds no copy keeps it. *)
LEMMA CopyGone ==
  ASSUME SerialIInv, IInv', stale' = {}, NEW w \in Workers, NEW r,
         req' = [req EXCEPT ![w] = r], r.at \notin {"login", "handle"}
  PROVE  SerialIInv'
<1>1. OneWorker'
  BY DEF SerialIInv, OneWorker
<1>2. \A v \in Workers : req'[v] = r
  BY DEF SerialIInv, OneWorker, IInv, TypeOK
<1> QED
  BY <1>1, <1>2 DEF SerialIInv

LEMMA AnsweredGone ==
  ASSUME SerialIInv, IInv', stale' = {}, NEW w \in Workers, NEW outcome, Answer(w, outcome)
  PROVE  SerialIInv'
<1>1. Idle.at \notin {"login", "handle"}
  BY DEF Idle
<1> QED
  BY <1>1, CopyGone DEF Answer

(* A step that takes a copy of the row takes it of the row as it is. *)
LEMMA CopyTaken ==
  ASSUME SerialIInv, IInv', stale' = {}, row' = row, NEW w \in Workers, NEW r,
         req' = [req EXCEPT ![w] = r], r.seen = row
  PROVE  SerialIInv'
<1>1. OneWorker'
  BY DEF SerialIInv, OneWorker
<1>2. \A v \in Workers : req'[v] = r
  BY DEF SerialIInv, OneWorker, IInv, TypeOK
<1>3. \A v \in Workers : Same(req'[v].seen, row')
  BY <1>2 DEF Same
<1> QED
  BY <1>1, <1>3 DEF SerialIInv

(* A client's new request. *)
LEMMA ClientSerial ==
  ASSUME SerialIInv, IInv', NEW w \in Workers, Client(w)
  PROVE  SerialIInv'
<1>1. stale' = {} /\ row' = row
  BY DEF SerialIInv, Client, LoginRefused, LoginLocked, LoadLogin, NoSession, FindSession, history
<1>2. CASE LoginRefused(w) \/ LoginLocked(w) \/ NoSession(w)
  BY <1>1, <1>2, AnsweredGone DEF LoginRefused, LoginLocked, NoSession
<1>3. ASSUME NEW challenge \in BOOLEAN, LoadLogin(w, challenge)
      PROVE  SerialIInv'
  <2>1. [Idle EXCEPT !.at = "login", !.challenge = challenge, !.seen = row].seen = row
    BY DEF Idle
  <2> QED
    BY <1>1, <1>3, <2>1, CopyTaken DEF LoadLogin, Continue
<1>4. ASSUME NEW endpoint \in Endpoints, NEW token \in Tokens, FindSession(w, endpoint, token)
      PROVE  SerialIInv'
  <2>1. [Idle EXCEPT !.at = "load", !.endpoint = endpoint, !.token = token].at = "load"
    BY DEF Idle
  <2> QED
    BY <1>1, <1>4, <2>1, CopyGone DEF FindSession, Continue
<1> QED
  BY <1>2, <1>3, <1>4 DEF Client

(* A step of a login: what it compares its copy with is that copy. *)
LEMMA LoginSerial ==
  ASSUME SerialIInv, IInv', NEW w \in Workers, Login(w)
  PROVE  SerialIInv'
<1>1. req[w].at = "login" => Same(req[w].seen, row)
  BY DEF SerialIInv
<1>2. CASE WrongPassword(w) \/ WrongCode(w) \/ \E step \in Window : ReplayedCode(w, step)
  <2>1. req[w].at = "login" /\ ApplyFailedLogin(w)
    BY <1>2 DEF WrongPassword, WrongCode, ReplayedCode, ChecksCode
  <2>2. stale' = {}
    BY <1>1, <2>1 DEF ApplyFailedLogin, Outdated, Same, SerialIInv
  <2> QED
    BY <2>1, <2>2, AnsweredGone DEF ApplyFailedLogin
<1>3. CASE MissingCode(w) \/ MissingSecret(w) \/ \E token \in Tokens : CreateSession(w, token)
  <2>1. stale' = {} /\ \E outcome : Answer(w, outcome)
    BY <1>3 DEF MissingCode, MissingSecret, CreateSession, SerialIInv, history
  <2> QED
    BY <2>1, AnsweredGone
<1>4. ASSUME NEW step \in Window, AcceptCode(w, step)
      PROVE  SerialIInv'
  <2>1. stale' = {}
    BY <1>1, <1>4 DEF AcceptCode, ChecksCode, Outdated, Same, SerialIInv
  <2>2. [Idle EXCEPT !.at = "reset"].at = "reset"
    BY DEF Idle
  <2> QED
    BY <1>4, <2>1, <2>2, CopyGone DEF AcceptCode, Continue
<1>5. CASE ResetAfterCode(w) \/ ResetAfterPassword(w)
  <2>1. stale' = {}
    BY <1>1, <1>5 DEF ResetAfterCode, ResetAfterPassword, Outdated, Same, SerialIInv, history
  <2>2. [Idle EXCEPT !.at = "session"].at = "session"
    BY DEF Idle
  <2> QED
    BY <1>5, <2>1, <2>2, CopyGone DEF ResetAfterCode, ResetAfterPassword, Continue
<1> QED
  BY <1>2, <1>3, <1>4, <1>5 DEF Login

(* A step of a request behind a session. *)
LEMMA HandlerSerial ==
  ASSUME SerialIInv, IInv', NEW w \in Workers, Handler(w)
  PROVE  SerialIInv'
<1>1. req[w].at = "handle" => Same(req[w].seen, row)
  BY DEF SerialIInv
<1>2. CASE LoadUser(w)
  <2>1. stale' = {} /\ row' = row
    BY <1>2 DEF LoadUser, SerialIInv, history
  <2>2. [req[w] EXCEPT !.at = "handle", !.seen = row].seen = row
    BY DEF SerialIInv, IInv, TypeOK, Request
  <2>3. CASE row.is_active
    BY <1>2, <2>1, <2>2, <2>3, CopyTaken DEF LoadUser, Continue
  <2>4. CASE ~row.is_active
    BY <1>2, <2>1, <2>4, AnsweredGone DEF LoadUser
  <2> QED
    BY <2>3, <2>4
<1>3. CASE ~LoadUser(w)
  <2>1. req[w].at = "handle" /\ \E outcome : Answer(w, outcome)
    BY <1>3 DEF Handler, Handles, Status, Logout, SetupTotp, EnableUninitialized, EnableTotp,
                DisableNoop, DisableTotp, TwoFaRefused
  <2>2. stale' = {}
    BY <1>1, <1>3, <2>1
       DEF Handler, Status, Logout, SetupTotp, EnableUninitialized, EnableTotp, DisableNoop,
           DisableTotp, TwoFaRefused, Outdated, Same, SerialIInv, history
  <2> QED
    BY <2>1, <2>2, AnsweredGone
<1> QED
  BY <1>2, <1>3

(* What the environment does. *)
LEMMA EnvironmentSerial ==
  ASSUME SerialIInv, IInv', Deactivate \/ Crash \/ Tick
  PROVE  SerialIInv'
<1>1. OneWorker' /\ stale' = {}
  BY DEF SerialIInv, OneWorker, Deactivate, Crash, Tick, history
<1>2. CASE Deactivate
  <2>1. Lockout(row') = Lockout(row) /\ Totp(row') = Totp(row)
    BY <1>2 DEF Deactivate, SerialIInv, IInv, TypeOK, Row, Lockout, Totp
  <2>2. req' = req
    BY <1>2 DEF Deactivate
  <2> QED
    BY <1>1, <2>1, <2>2 DEF SerialIInv, Same
<1>3. CASE Crash
  BY <1>1, <1>3 DEF Crash, Idle, SerialIInv
<1>4. CASE Tick
  BY <1>1, <1>4 DEF Tick, SerialIInv
<1> QED
  BY <1>2, <1>3, <1>4

(* Every step keeps it. *)
LEMMA NextSerial == SerialIInv /\ [Next]_vars => SerialIInv'
<1> SUFFICES ASSUME SerialIInv, [Next]_vars PROVE SerialIInv'
  OBVIOUS
<1>1. IInv'
  BY NextIInv DEF SerialIInv
<1>2. CASE Next
  BY <1>1, <1>2, ClientSerial, LoginSerial, HandlerSerial, EnvironmentSerial DEF Next
<1>3. CASE UNCHANGED vars
  BY <1>1, <1>3 DEF vars, SerialIInv, OneWorker
<1> QED
  BY <1>2, <1>3

(* A server with one worker thread implements the abstract account, without *)
(* a proviso: whatever goes wrong with an account takes two requests of    *)
(* which one commits between the other's SELECT and commit.  A deactivation *)
(* and a crash at any point are included.                                  *)
THEOREM SerialTheorem == OneWorker /\ Spec => A!ASpec
<1>1. OneWorker /\ Init => SerialIInv
  <2> SUFFICES ASSUME OneWorker, Init PROVE SerialIInv
    OBVIOUS
  <2>1. IInv
    BY InitIInv
  <2> QED
    BY <2>1 DEF SerialIInv, Init, Idle
<1>2. Init => A!AInit
  BY DEF Init, Idle, FreshRow, A!AInit
<1>3. SerialIInv /\ SerialIInv' /\ [Next]_vars => [A!ANext]_(A!avars)
  <2> SUFFICES ASSUME SerialIInv, SerialIInv', [Next]_vars PROVE AccountStep
    BY DEF AccountStep
  <2>1. IInv /\ stale' = {}
    BY DEF SerialIInv
  <2>2. CASE Next
    BY <2>1, <2>2, ClientRefines, LoginRefines, HandlerRefines, EnvironmentRefines DEF Next, IInv
  <2>3. CASE UNCHANGED vars
    BY <2>3, Stutter DEF vars, Accepted
  <2> QED
    BY <2>2, <2>3
<1> QED
  BY <1>1, <1>2, <1>3, NextSerial, PTL DEF Spec, A!ASpec
=============================================================================
