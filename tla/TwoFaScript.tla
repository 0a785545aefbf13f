---------------------------- MODULE TwoFaScript -----------------------------
(***************************************************************************)
(* The repository's two-factor script as the one client of Accounts: what   *)
(* it sends, which answer it expects, and the code it holds.  Its account  *)
(* is registered when it starts.  A request is answered within the         *)
(* client's timeout of 20 seconds, so the clock passes at most one step of *)
(* 30 seconds while a request is under way.                                *)
(***************************************************************************)
EXTENDS Accounts, Sequences

CONSTANT Worker  \* the thread that serves the script

ASSUME WorkerAssumption == Workers = {Worker}

VARIABLES
  step,    \* how many requests of the script have been answered as expected
  sent,    \* how far the next one is: "no", "sent", "arrived"
  ticked,  \* whether the clock has moved on since it was sent
  cookie,  \* the session token the client keeps
  code,    \* the time step of the code it last computed
  verdict  \* how the script ended, if it has

client == <<step, sent, ticked, cookie, code, verdict>>

Script == <<"login", "me", "setup", "enable", "logout",
            "login again", "login/2fa", "me", "replay">>
Doing == Script[step + 1]

StartScript ==
  /\ Init
  /\ step = 0 /\ sent = "no" /\ ticked = FALSE
  /\ cookie = None /\ code = None /\ verdict = None

(* The client computes a code for two of its requests, and clears its       *)
(* cookies before two.                                                     *)
Send ==
  /\ verdict = None
  /\ sent = "no"
  /\ sent' = "sent"
  /\ ticked' = FALSE
  /\ code' = IF Doing \in {"enable", "login/2fa"} THEN now ELSE code
  /\ cookie' = IF Doing \in {"login again", "replay"} THEN None ELSE cookie
  /\ UNCHANGED <<vars, step, verdict>>

LogsIn == Doing \in {"login", "login again", "login/2fa", "replay"}
WithCode == Doing \in {"login/2fa", "replay"}

(* GET /users/me reads what GET /2fa/status reads. *)
Endpoint == IF Doing = "me" THEN "status" ELSE Doing

Arrive ==
  /\ sent = "sent"
  /\ sent' = "arrived"
  /\ \/ LogsIn /\ (LoginRefused(Worker) \/ LoginLocked(Worker))
     \/ LogsIn /\ LoadLogin(Worker, ~WithCode)
     \/ ~LogsIn /\ cookie # None /\ FindSession(Worker, Endpoint, cookie)
     \/ ~LogsIn /\ (cookie = None \/ ~Live(cookie)) /\ NoSession(Worker)
  /\ UNCHANGED <<step, ticked, cookie, code, verdict>>

(* authenticate_user with the right password. *)
CheckLogin ==
  \/ ~WithCode /\ MissingCode(Worker)
  \/ WithCode /\ MissingSecret(Worker)
  \/ WithCode /\ code \notin Window /\ WrongCode(Worker)
  \/ WithCode /\ code \in Window /\ (ReplayedCode(Worker, code) \/ AcceptCode(Worker, code))
  \/ ResetAfterCode(Worker)
  \/ ResetAfterPassword(Worker)

CheckCode ==
  \/ EnableUninitialized(Worker)
  \/ IF code \in Window THEN EnableTotp(Worker) ELSE TwoFaRefused(Worker)

Serve ==
  /\ sent = "arrived"
  /\ \/ CheckLogin /\ UNCHANGED cookie
     \/ \E token \in Tokens : CreateSession(Worker, token) /\ cookie' = token
     \/ /\ \/ LoadUser(Worker)
           \/ Status(Worker)
           \/ \E secret \in Secrets : SetupTotp(Worker, secret)
           \/ CheckCode
        /\ UNCHANGED cookie
     \/ Logout(Worker) /\ cookie' = None
  /\ UNCHANGED <<step, sent, ticked, code, verdict>>

(* The script dies of an answer it does not expect; a replayed code may be  *)
(* refused in any way.                                                     *)
AsExpected ==
  CASE Doing = "login again" -> answer = "requires_2fa" /\ cookie = None
    [] Doing = "replay" -> answer # "ok"
    [] OTHER -> answer = "ok"

Read ==
  /\ sent = "arrived"
  /\ req[Worker] = Idle
  /\ answer # "none"
  /\ sent' = "no"
  /\ step' = step + 1
  /\ verdict' = IF ~AsExpected THEN "died" ELSE IF step' = Len(Script) THEN "ok" ELSE None
  /\ UNCHANGED <<vars, ticked, cookie, code>>

(* Nothing happens between an answer and its reading: a tick erases it. *)
Wait ==
  /\ verdict = None
  /\ sent # "no" => ~ticked
  /\ sent = "arrived" => answer = "none"
  /\ Tick
  /\ ticked' = (sent # "no")
  /\ UNCHANGED <<step, sent, cookie, code, verdict>>

ScriptNext == Send \/ Arrive \/ Serve \/ Read \/ Wait

(* The script does not pause, and its worker runs. *)
ScriptSpec ==
  StartScript /\ [][ScriptNext]_<<vars, client>>
    /\ WF_<<vars, client>>(Send \/ Arrive \/ Serve \/ Read)

-----------------------------------------------------------------------------
(* Properties. *)

(* What e2e_2fa_test.py expects is what the account does, whenever the time *)
(* step ends: the same code confirms the secret and then logs in, a second *)
(* session works after the first was revoked, and the code that logged in  *)
(* is refused the second time.                                             *)
ScriptEndsOK == <>(verdict = "ok")
=============================================================================
