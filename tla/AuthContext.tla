---------------------------- MODULE AuthContext ----------------------------
(***************************************************************************)
(* Who the single-page application says is logged in, and who is: the      *)
(* `user` of AuthContext against the session cookie of the browser and the *)
(* sessions of the server.  A flow is an async function of the page with a *)
(* call under way; flows overlap, calls are answered in any order, fail,   *)
(* or lose their answer.                                                   *)
(***************************************************************************)
EXTENDS Naturals, Null

CONSTANTS
  Users,   \* accounts
  Tokens,  \* session tokens the server may hand out (bound)
  Logins,  \* login forms: /login and /2fa; each disables its own button only
  Logouts  \* clicks on Logout, which is not disabled while one is under way

VARIABLES
  owner,    \* user_sessions: the user of each live token, None for the others
  used,     \* the tokens that have been handed out
  cookie,   \* the session cookie in the browser
  flow,     \* what each flow waits for
  user, loading, error,  \* the state of AuthProvider
  lapsed,   \* history: tokens whose session ended without the page being told
  doubt     \* history: what the page heard last failed, or was about another cookie

vars == <<owner, used, cookie, flow, user, loading, error, lapsed, doubt>>

-----------------------------------------------------------------------------
Flows == {"mount"} \cup Logins \cup Logouts

(* A call carries the cookie of the time it is sent; its answer ("ok",      *)
(* "unauthorized", "failed") is None until the server has handled it, `who`  *)
(* the user it names, `set` the cookie it sets; it has arrived when the     *)
(* browser has done so, before the page goes on with the body.             *)
Sent(op, token) ==
  [op |-> op, token |-> token, answer |-> None, who |-> None, set |-> None, arrived |-> FALSE]

Answers == {"ok", "unauthorized", "failed"}
Call ==
  [op : {"me", "login", "logout"}, token : Optional(Tokens), answer : Optional(Answers),
   who : Optional(Users), set : Optional(Tokens), arrived : BOOLEAN]

ASSUME AuthAssumption ==
  /\ None \notin Users \cup Tokens \cup Answers \cup Call
  /\ "mount" \notin Logins \cup Logouts
  /\ Logins \cap Logouts = {}

UserOf(token) == IF token = None THEN None ELSE owner[token]
Waiting(f) == flow[f] # None

(* The page is opened with no cookie, or one that is live or no longer. *)
Init ==
  /\ \E t \in Tokens, u \in Users :
       \/ cookie = None /\ used = {} /\ owner = [x \in Tokens |-> None]
       \/ cookie = t /\ used = {t} /\ owner \in {[x \in Tokens |-> None], [x \in Tokens |-> IF x = t THEN u ELSE None]}
  /\ flow = [f \in Flows |-> IF f = "mount" THEN Sent("me", cookie) ELSE None]
  /\ user = None
  /\ loading = TRUE
  /\ error = FALSE
  /\ lapsed = {}
  /\ doubt = FALSE

-----------------------------------------------------------------------------
(* The user.  LoginPage and TwoFaPage are not behind RequireAuth: they can  *)
(* be used while the page is loading, and by a user who is logged in.      *)
Begin(f, op) ==
  /\ ~Waiting(f)
  /\ flow' = [flow EXCEPT ![f] = Sent(op, cookie)]
  /\ UNCHANGED <<owner, used, cookie, user, loading, lapsed, doubt>>

SubmitLogin(f) == Begin(f, "login") /\ UNCHANGED error

ClickLogout(f) == user # None /\ Begin(f, "logout") /\ error' = FALSE

-----------------------------------------------------------------------------
(* The server.  A login that is asked for a code ends like a refused one. *)
Pending(f, op) == Waiting(f) /\ flow[f].op = op /\ flow[f].answer = None
Answered(f, answer, who, set) ==
  flow' = [flow EXCEPT ![f].answer = answer, ![f].who = who, ![f].set = set]

HandleMe(f) ==
  LET who == UserOf(flow[f].token)
  IN /\ Pending(f, "me")
     /\ Answered(f, IF who = None THEN "unauthorized" ELSE "ok", who, None)
     /\ UNCHANGED <<owner, used, cookie, user, loading, error, lapsed, doubt>>

AcceptLogin(f, u, t) ==
  /\ Pending(f, "login")
  /\ t \notin used
  /\ used' = used \cup {t}
  /\ owner' = [owner EXCEPT ![t] = u]
  /\ Answered(f, "ok", None, t)
  /\ UNCHANGED <<cookie, user, loading, error, lapsed, doubt>>

RefuseLogin(f) ==
  /\ Pending(f, "login")
  /\ Answered(f, "unauthorized", None, None)
  /\ UNCHANGED <<owner, used, cookie, user, loading, error, lapsed, doubt>>

HandleLogout(f) ==
  /\ Pending(f, "logout")
  /\ IF UserOf(flow[f].token) = None
       THEN Answered(f, "unauthorized", None, None) /\ UNCHANGED owner
       ELSE Answered(f, "ok", None, None) /\ owner' = [owner EXCEPT ![flow[f].token] = None]
  /\ UNCHANGED <<used, cookie, user, loading, error, lapsed, doubt>>

(* Its time is up; or a logout is handled that the page has given up.       *)
Expire(t) ==
  /\ owner[t] # None
  /\ owner' = [owner EXCEPT ![t] = None]
  /\ lapsed' = lapsed \cup {t}
  /\ UNCHANGED <<used, cookie, flow, user, loading, error, doubt>>

-----------------------------------------------------------------------------
(* The browser. *)
Has(f, op) == Waiting(f) /\ flow[f].op = op /\ flow[f].answer # None

(* The Set-Cookie of a login, the delete_cookie of a logout. *)
Arrive(f) ==
  /\ Waiting(f) /\ flow[f].op # "me" /\ flow[f].answer = "ok" /\ ~flow[f].arrived
  /\ flow' = [flow EXCEPT ![f].arrived = TRUE]
  /\ cookie' = flow[f].set
  /\ UNCHANGED <<owner, used, user, loading, error, lapsed, doubt>>

(* The request or its answer is lost, if only the body of the answer, or it *)
(* is answered with a 429 or 5xx: no more is known of the call.            *)
Unanswered(call) == [Sent(call.op, None) EXCEPT !.answer = "failed", !.arrived = call.arrived]
UntoldLogout(call) == call.op = "logout" /\ call.answer = "ok" /\ ~call.arrived
Fail(f) ==
  /\ Waiting(f) /\ flow[f].answer # "failed"
  /\ flow' = [flow EXCEPT ![f] = Unanswered(@)]
  /\ lapsed' = IF UntoldLogout(flow[f]) THEN lapsed \cup {flow[f].token} ELSE lapsed
  /\ UNCHANGED <<owner, used, cookie, user, loading, error, doubt>>

-----------------------------------------------------------------------------
(* The page goes on with the answer of a call. *)
Ended(f) == flow' = [flow EXCEPT ![f] = None]
Broken(f) == flow[f].answer = "failed"

(* refreshMe: only a 401 says that nobody is logged in.  Mutant: the        *)
(* failure is not caught.                                                  *)
RefreshMe_Rethrows(f) ==
  /\ user' = IF Broken(f) THEN user ELSE flow[f].who
  /\ error' = Broken(f)
  /\ loading' = (loading /\ (f # "mount" \/ Broken(f)))
RefreshMe(f) ==
  /\ user' = IF Broken(f) THEN user ELSE flow[f].who
  /\ error' = Broken(f)
  /\ loading' = (loading /\ f # "mount")

ReceiveMe(f) ==
  /\ Has(f, "me")
  /\ RefreshMe(f)
  /\ doubt' = (Broken(f) \/ flow[f].token # cookie)
  /\ Ended(f)
  /\ UNCHANGED <<owner, used, cookie, lapsed>>

(* Mutant: the page shows what it showed before. *)
ReceiveLogin_NoRefresh(f) ==
  /\ Has(f, "login")
  /\ flow[f].answer = "ok" => flow[f].arrived
  /\ doubt' = (doubt \/ (Broken(f) /\ flow[f].arrived))
  /\ Ended(f)
  /\ UNCHANGED <<owner, used, cookie, user, loading, error, lapsed>>
ReceiveLogin(f) ==
  /\ Has(f, "login")
  /\ \/ /\ flow[f].answer = "ok" /\ flow[f].arrived
        /\ flow' = [flow EXCEPT ![f] = Sent("me", cookie)]
        /\ UNCHANGED doubt
     \/ /\ flow[f].answer # "ok"
        /\ Ended(f)
        /\ doubt' = (doubt \/ (Broken(f) /\ flow[f].arrived))
  /\ UNCHANGED <<owner, used, cookie, user, loading, error, lapsed>>

(* setUser(null) is in a `finally`. *)
ReceiveLogout(f) ==
  /\ Has(f, "logout")
  /\ flow[f].answer = "ok" => flow[f].arrived
  /\ user' = None
  /\ doubt' = (cookie # IF flow[f].answer = "unauthorized" THEN flow[f].token ELSE None)
  /\ Ended(f)
  /\ UNCHANGED <<owner, used, cookie, loading, error, lapsed>>

-----------------------------------------------------------------------------
Handle(f) ==
  \/ HandleMe(f)
  \/ \E u \in Users, t \in Tokens : AcceptLogin(f, u, t)
  \/ RefuseLogin(f)
  \/ HandleLogout(f)
Receive(f) == Arrive(f) \/ ReceiveMe(f) \/ ReceiveLogin(f) \/ ReceiveLogout(f)

Next ==
  \/ \E f \in Logins : SubmitLogin(f)
  \/ \E f \in Logouts : ClickLogout(f)
  \/ \E f \in Flows : Handle(f) \/ Receive(f) \/ Fail(f)
  \/ \E t \in Tokens : Expire(t)

(* The first call is handled and answered, or fails: a browser gives up in  *)
(* the end.                                                                *)
Fairness == WF_vars(Handle("mount") \/ Receive("mount"))

Spec == Init /\ [][Next]_vars /\ Fairness

-----------------------------------------------------------------------------
(* Properties. *)

(* When the page is at rest, it shows the user its cookie stands for, in    *)
(* whatever order logins, logouts and their answers have overtaken each    *)
(* other.  Only three things leave it wrong: what it heard last failed,    *)
(* what it heard last was about a cookie that has been replaced since, or  *)
(* the session ended without its being told.  An answer about the cookie   *)
(* it has puts the first two right.                                        *)
ShowsSessionUser ==
  (\A f \in Flows : ~Waiting(f)) /\ ~doubt /\ cookie \notin lapsed => user = UserOf(cookie)

(* RequireAuth lets nobody wait for ever: whatever becomes of the first     *)
(* GET /users/me, `loading` ends.                                          *)
LoadingEnds == <>~loading
=============================================================================
