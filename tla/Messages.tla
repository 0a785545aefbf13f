------------------------------ MODULE Messages ------------------------------
(***************************************************************************)
(* The message store and the requests that work on it: send, inbox, sent,  *)
(* read, download, delete.  Requests come from users with a live session;  *)
(* a user's request can overlap with the others', and with the user's own. *)
(*                                                                         *)
(* As in Accounts, every action is one SELECT, or the code from there to   *)
(* the next commit or answer; a commit writes only what the handler set.   *)
(* Encryption is abstracted: a message is its id.  The HMAC is the tuple   *)
(* of what it is computed from, so that it verifies exactly when the same  *)
(* sender, recipients and attachments are put together again; sorted lists *)
(* of ids are sets.                                                        *)
(***************************************************************************)
EXTENDS Naturals, FiniteSets, Null

CONSTANTS
  Workers,  \* threads that serve requests
  Users,    \* registered accounts
  Ids,      \* ids of the messages that may be sent (bound)
  Files,    \* ids of attachments (bound)
  MaxLeft   \* how many users may be deactivated (bound)

ASSUME BoundAssumption == MaxLeft \in Nat

VARIABLES
  messages,  \* messages, message_recipients and attachments: id -> a record or None
  active,    \* the users whose is_active is set
  req,       \* the request each worker is serving, and how far it is
  answer,    \* the outcome of the request answered by the last step
  gone       \* history: the <<id, user>> whose deletion was acknowledged

vars == <<messages, active, req, answer, gone>>

-----------------------------------------------------------------------------
(* A row of message_recipients: read_at and deleted_at are set or not. *)
Copy == [read : BOOLEAN, deleted : BOOLEAN, authenticity_verified : BOOLEAN]

Hmac == [id : Ids, key : Users, recipients : SUBSET Users, files : SUBSET Files]

(* `copies` is a function from the recipients to their rows. *)
Message == [sender : Users, copies : UNION {[S -> Copy] : S \in SUBSET Users},
            files : SUBSET Files, deleted_by_sender : BOOLEAN, hmac : Hmac]

Operations == {"send", "inbox", "sent", "read", "download", "delete"}

ASSUME NoneAssumption == None \notin Users \cup Ids \cup Operations \cup Copy \cup Message

(* "start" has its user; "found" has loaded the message and, unless the     *)
(* user is its sender, their row; "ready" and "done" have an answer to give.*)
Places == {"idle", "start", "found", "ready", "done"}

(* `shown` is what the answer will show; `late` what the user had deleted   *)
(* by the time the request arrived (history).                              *)
Request == [at : Places, op : Optional(Operations), user : Optional(Users), id : Optional(Ids),
            recipients : SUBSET Users, copy : Optional(Copy), shown : SUBSET Ids, late : SUBSET Ids]

Idle == [at |-> "idle", op |-> None, user |-> None, id |-> None,
         recipients |-> {}, copy |-> None, shown |-> {}, late |-> {}]

Init ==
  /\ messages = [m \in Ids |-> None]
  /\ active = Users
  /\ req = [w \in Workers |-> Idle]
  /\ answer = "none"
  /\ gone = {}

-----------------------------------------------------------------------------
Stored == {m \in Ids : messages[m] # None}
Recipients(m) == DOMAIN messages[m].copies

(* A user's own row of message_recipients, unless deleted. *)
HasCopy(user, m) == user \in Recipients(m) /\ ~messages[m].copies[user].deleted

Answer(w, outcome) ==
  /\ req' = [req EXCEPT ![w] = Idle]
  /\ answer' = outcome

Continue(w, request) ==
  /\ req' = [req EXCEPT ![w] = request]
  /\ answer' = "none"

(* The message a send request makes gets an id nobody has. *)
Fresh(m) == m \notin Stored /\ \A w \in Workers : req[w].op = "send" => req[w].id # m

Arrive(w, user, op, m) ==
  /\ req[w].at = "idle"
  /\ user \in active
  /\ op = "send" => Fresh(m)
  /\ Continue(w, [Idle EXCEPT !.at = "start", !.op = op, !.user = user,
                              !.id = IF op \in {"inbox", "sent"} THEN None ELSE m,
                              !.late = {i \in Ids : <<i, user>> \in gone}])
  /\ UNCHANGED <<messages, active, gone>>

Starts(w, ops) == req[w].at = "start" /\ req[w].op \in ops

-----------------------------------------------------------------------------
(* POST /messages/send. *)

(* The limiter, the caps, an unknown or inactive recipient, the sender as   *)
(* recipient: an error before the commit leaves no row behind.  Mutant: a   *)
(* check that comes after the commit.                                      *)
SendRefused_AfterCommit(w) ==
  /\ req[w].at \in {"start", "done"}
  /\ req[w].op = "send"
  /\ Answer(w, "refused")
  /\ UNCHANGED <<messages, active, gone>>

SendRefused(w) ==
  /\ Starts(w, {"send"})
  /\ Answer(w, "refused")
  /\ UNCHANGED <<messages, active, gone>>

ResolveRecipient(w, user) ==
  /\ Starts(w, {"send"})
  /\ user \in active \ {req[w].user}
  /\ user \notin req[w].recipients
  /\ Continue(w, [req[w] EXCEPT !.recipients = @ \cup {user}])
  /\ UNCHANGED <<messages, active, gone>>

(* _message_hmac_payload, under the key of the sender. *)
Payload(m, sender, recipients, files) ==
  [id |-> m, key |-> sender, recipients |-> recipients, files |-> files]

NewCopy == [read |-> FALSE, deleted |-> FALSE, authenticity_verified |-> FALSE]

(* Mutant: the commit comes before "set after attachments are ready". *)
CommitSend_NoHmac(w, files) ==
  /\ Starts(w, {"send"})
  /\ req[w].recipients # {}
  /\ messages' = [messages EXCEPT ![req[w].id] =
       [sender |-> req[w].user,
        copies |-> [u \in req[w].recipients |-> NewCopy],
        files |-> files,
        deleted_by_sender |-> FALSE,
        hmac |-> None]]
  /\ Continue(w, [req[w] EXCEPT !.at = "done", !.recipients = {}])
  /\ UNCHANGED <<active, gone>>

CommitSend(w, files) ==
  /\ Starts(w, {"send"})
  /\ req[w].recipients # {}
  /\ messages' = [messages EXCEPT ![req[w].id] =
       [sender |-> req[w].user,
        copies |-> [u \in req[w].recipients |-> NewCopy],
        files |-> files,
        deleted_by_sender |-> FALSE,
        hmac |-> Payload(req[w].id, req[w].user, req[w].recipients, files)]]
  /\ Continue(w, [req[w] EXCEPT !.at = "done", !.recipients = {}])
  /\ UNCHANGED <<active, gone>>

-----------------------------------------------------------------------------
(* GET /messages/inbox and /messages/sent. *)

ListInbox(w) ==
  /\ Starts(w, {"inbox"})
  /\ Continue(w, [req[w] EXCEPT !.at = "ready",
                    !.shown = {m \in Stored : HasCopy(req[w].user, m)}])
  /\ UNCHANGED <<messages, active, gone>>

(* Mutant: the filter on deleted_by_sender_at is missing. *)
ListSent_All(w) ==
  /\ Starts(w, {"sent"})
  /\ Continue(w, [req[w] EXCEPT !.at = "ready",
                    !.shown = {m \in Stored : messages[m].sender = req[w].user}])
  /\ UNCHANGED <<messages, active, gone>>

ListSent(w) ==
  /\ Starts(w, {"sent"})
  /\ Continue(w, [req[w] EXCEPT !.at = "ready",
                    !.shown = {m \in Stored : /\ messages[m].sender = req[w].user
                                              /\ ~messages[m].deleted_by_sender}])
  /\ UNCHANGED <<messages, active, gone>>

ShowList(w) ==
  /\ req[w].at = "ready"
  /\ req[w].op \in {"inbox", "sent"}
  /\ Answer(w, "ok")
  /\ UNCHANGED <<messages, active, gone>>

-----------------------------------------------------------------------------
(* GET and DELETE /messages/{id}, GET .../attachments/{file}. *)

(* get_message_for_user, and the same queries in delete_message_for_user. *)
GetMessage(w) ==
  LET m == req[w].id
      user == req[w].user
  IN /\ Starts(w, {"read", "download", "delete"})
     /\ \/ /\ m \in Stored
           /\ messages[m].sender = user
           /\ Continue(w, [req[w] EXCEPT !.at = "found"])
        \/ /\ m \in Stored
           /\ messages[m].sender # user
           /\ HasCopy(user, m)
           /\ Continue(w, [req[w] EXCEPT !.at = "found", !.copy = messages[m].copies[user]])
        \/ /\ ~(m \in Stored /\ (messages[m].sender = user \/ HasCopy(user, m)))
           /\ Answer(w, "not_found")
     /\ UNCHANGED <<messages, active, gone>>

(* Mutant: the HMAC is recomputed over the recipients who still have a copy. *)
Expected_LiveCopies(m) ==
  Payload(m, messages[m].sender, {u \in Recipients(m) : HasCopy(u, m)}, messages[m].files)

Expected(m) == Payload(m, messages[m].sender, Recipients(m), messages[m].files)

VerifyAuthenticity(w) ==
  /\ req[w].at = "found"
  /\ req[w].op \in {"read", "download"}
  /\ IF Expected(req[w].id) = messages[req[w].id].hmac
       THEN Continue(w, [req[w] EXCEPT !.at = "ready", !.shown = {req[w].id}])
       ELSE Answer(w, "integrity_error")
  /\ UNCHANGED <<messages, active, gone>>

(* Mutants: the whole loaded row is written back; the flag is forgotten. *)
MarkRead_WholeRow(m, user, copy) ==
  [messages EXCEPT ![m].copies[user] = [copy EXCEPT !.read = TRUE, !.authenticity_verified = TRUE]]
MarkRead_NoFlag(m, user, copy) == [messages EXCEPT ![m].copies[user].read = TRUE]

MarkRead(m, user, copy) ==
  [messages EXCEPT ![m].copies[user].read = TRUE,
                   ![m].copies[user].authenticity_verified = TRUE]

ReadDetail(w) ==
  /\ req[w].at = "ready"
  /\ req[w].op = "read"
  /\ messages' = IF req[w].copy # None /\ ~req[w].copy.read
                   THEN MarkRead(req[w].id, req[w].user, req[w].copy)
                   ELSE messages
  /\ Answer(w, "ok")
  /\ UNCHANGED <<active, gone>>

DownloadAttachment(w, file) ==
  /\ req[w].at = "ready"
  /\ req[w].op = "download"
  /\ Answer(w, IF file \in messages[req[w].id].files THEN "ok" ELSE "not_found")
  /\ UNCHANGED <<messages, active, gone>>

Deleted(m, user) ==
  IF messages[m].sender = user
    THEN [messages EXCEPT ![m].deleted_by_sender = TRUE]
    ELSE [messages EXCEPT ![m].copies[user].deleted = TRUE]

DeleteMessage(w) ==
  /\ req[w].at = "found"
  /\ req[w].op = "delete"
  /\ messages' = Deleted(req[w].id, req[w].user)
  /\ Continue(w, [req[w] EXCEPT !.at = "done", !.copy = None])
  /\ UNCHANGED <<active, gone>>

(* A committed send or delete is answered. *)
Acknowledge(w) ==
  /\ req[w].at = "done"
  /\ gone' = IF req[w].op = "delete" THEN gone \cup {<<req[w].id, req[w].user>>} ELSE gone
  /\ Answer(w, "ok")
  /\ UNCHANGED <<messages, active>>

(* A statement finds the database locked for longer than the driver waits,  *)
(* or no connection within the pool's time-out: nothing is committed.  For  *)
(* a send it can also be db.refresh, after the commit.                     *)
StorageFails(w) ==
  /\ \/ req[w].at \in {"start", "found"}
     \/ req[w].at = "ready" /\ req[w].op \in {"read", "download"}
     \/ req[w].at = "done" /\ req[w].op = "send"
  /\ Answer(w, "server_error")
  /\ UNCHANGED <<messages, active, gone>>

-----------------------------------------------------------------------------
(* The environment: an operator clears is_active; the process is restarted. *)

Deactivate(user) ==
  /\ user \in active
  /\ Cardinality(Users \ active) < MaxLeft
  /\ active' = active \ {user}
  /\ answer' = "none"
  /\ UNCHANGED <<messages, req, gone>>

Crash ==
  /\ req' = [w \in Workers |-> Idle]
  /\ answer' = "none"
  /\ UNCHANGED <<messages, active, gone>>

-----------------------------------------------------------------------------
Step(w) ==
  \/ SendRefused(w)
  \/ \E user \in Users : ResolveRecipient(w, user)
  \/ \E files \in SUBSET Files : CommitSend(w, files)
  \/ ListInbox(w)
  \/ ListSent(w)
  \/ ShowList(w)
  \/ GetMessage(w)
  \/ VerifyAuthenticity(w)
  \/ ReadDetail(w)
  \/ \E file \in Files : DownloadAttachment(w, file)
  \/ DeleteMessage(w)
  \/ Acknowledge(w)
  \/ StorageFails(w)

Next ==
  \/ \E w \in Workers :
       \/ Step(w)
       \/ \E user \in Users, op \in Operations, m \in Ids : Arrive(w, user, op, m)
  \/ \E user \in Users : Deactivate(user)
  \/ Crash

Spec == Init /\ [][Next]_vars

-----------------------------------------------------------------------------
(* Properties. *)

(* The tables and the requests hold values of their columns' types. *)
TypeOK ==
  /\ messages \in [Ids -> Optional(Message)]
  /\ active \subseteq Users
  /\ req \in [Workers -> Request]
  /\ answer \in {"none", "ok", "refused", "not_found", "integrity_error", "server_error"}
  /\ gone \subseteq Ids \X Users

(* Whoever deletes their copy, and however that overlaps with a read, the   *)
(* HMAC stored with a message goes on to verify for everybody else         *)
(* (_verify_authenticity takes all rows, deleted or not).                  *)
AlwaysAuthentic == [][answer' # "integrity_error"]_vars

(* What the client is told of a send is what happened: "ok" means that all  *)
(* of the message is stored, an error of the client's own that nothing is,  *)
(* and ever will be.  Only a server error leaves it open.                  *)
SendAnswerTruthful ==
  [][\A w \in Workers :
       req[w].op = "send" /\ req'[w].at = "idle" =>
         /\ answer' = "ok" => req[w].id \in Stored
         /\ answer' = "refused" => req[w].id \notin Stored']_vars

(* The inbox says of a message that it is authentic exactly when its        *)
(* recipient has read it, which takes a read whose HMAC verified: both      *)
(* columns change in one commit, and stay.                                 *)
ReadIffVerified ==
  \A m \in Stored : \A u \in Recipients(m) :
    messages[m].copies[u].read = messages[m].copies[u].authenticity_verified

(* A request answered with messages shows their sender's and recipients'    *)
(* requests only, and none whose deletion the user had been told of before  *)
(* the request arrived; their sender alone can still open such a message.   *)
DeletedStaysGone ==
  [][\A w \in Workers :
       req[w].at = "ready" /\ req'[w].at = "idle" /\ answer' = "ok" =>
         \A m \in req[w].shown :
           /\ req[w].user \in {messages[m].sender} \cup Recipients(m)
           /\ m \in req[w].late => req[w].op \notin {"inbox", "sent"} /\ messages[m].sender = req[w].user]_vars

(* A message reaches all its recipients at once, and each copy goes its own *)
(* way from unread over read to deleted: no racing read brings a deleted    *)
(* copy back, no deletion touches another user's copy.                      *)
StateOf(m, u) ==
  IF messages[m] = None \/ u \notin {messages[m].sender} \cup Recipients(m) THEN "absent"
  ELSE IF u = messages[m].sender THEN IF messages[m].deleted_by_sender THEN "deleted" ELSE "sent"
  ELSE IF messages[m].copies[u].deleted THEN "deleted"
  ELSE IF messages[m].copies[u].read THEN "read" ELSE "unread"
MB == INSTANCE Mailbox WITH
  Messages <- Ids,
  box <- [m \in Ids |-> [u \in Users |-> StateOf(m, u)]]
ImplementsMailbox == MB!MSpec
=============================================================================
