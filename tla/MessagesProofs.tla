--------------------------- MODULE MessagesProofs ---------------------------
(***************************************************************************)
(* What holds of the message store for any number of workers, users,       *)
(* messages and attachments.                                               *)
(***************************************************************************)
EXTENDS Messages, TLAPS

-----------------------------------------------------------------------------
(* The inductive invariant. *)

(* A message in a table, seen by one user: who has a part in it, and to     *)
(* whom it is closed because they have deleted it.                         *)
Party(table, m, u) == table[m] # None /\ u \in {table[m].sender} \cup DOMAIN table[m].copies
Shut(table, m, u) ==
  /\ Party(table, m, u)
  /\ IF u = table[m].sender THEN table[m].deleted_by_sender ELSE table[m].copies[u].deleted

(* A stored message has recipients, its sender is none of them, its HMAC is *)
(* over its own rows, and the two columns that a read sets agree.          *)
MessageOK(m) ==
  /\ Recipients(m) # {}
  /\ messages[m].sender \notin Recipients(m)
  /\ messages[m].hmac = Expected(m)
  /\ \A u \in Recipients(m) :
       messages[m].copies[u].read = messages[m].copies[u].authenticity_verified
MessagesOK == \A m \in Stored : MessageOK(m)

(* Which operations come to which place. *)
PlaceOK(r) ==
  /\ r.at = "idle" => r = Idle
  /\ r.at # "idle" => /\ r.op \in Operations
                      /\ r.user \in Users \ r.recipients
                      /\ r.op \notin {"inbox", "sent"} => r.id \in Ids
  /\ r.at = "start" => r.copy = None
  /\ r.at = "found" => r.op \in {"read", "download", "delete"}
  /\ r.at = "ready" => r.op \in {"inbox", "sent", "read", "download"}
  /\ r.at = "done" => r.op \in {"send", "delete"}

(* What a request has loaded is still true of the rows: the user has a part *)
(* in the message, and only a sender still opens what they had deleted.    *)
(* `past` are the deletions acknowledged so far.                           *)
LoadedOK(r, table, past) ==
  /\ \A m \in r.late : <<m, r.user>> \in past
  /\ r.at \in {"found", "ready"} /\ r.op \in {"read", "download", "delete"} =>
       /\ Party(table, r.id, r.user)
       /\ r.copy # None => table[r.id].sender # r.user
       /\ r.id \in r.late => table[r.id].sender = r.user
  /\ r.at = "ready" =>
       \A m \in r.shown :
         /\ Party(table, m, r.user)
         /\ m \in r.late => r.op \notin {"inbox", "sent"} /\ table[m].sender = r.user
  /\ r.at = "done" /\ r.op = "delete" => Shut(table, r.id, r.user)

RequestsOK == \A w \in Workers : PlaceOK(req[w]) /\ LoadedOK(req[w], messages, gone)

(* A message that is being sent is not stored before its commit, is stored  *)
(* after it, and is sent by one request.                                   *)
SendsOK ==
  \A w \in Workers : req[w].op = "send" =>
    /\ req[w].at = "start" => req[w].id \notin Stored
    /\ req[w].at = "done" => req[w].id \in Stored
    /\ \A v \in Workers \ {w} : req[v].op = "send" => req[v].id # req[w].id

(* What was acknowledged as deleted is closed to whoever deleted it. *)
GoneOK == \A p \in gone : Shut(messages, p[1], p[2])

IInv == TypeOK /\ MessagesOK /\ RequestsOK /\ SendsOK /\ GoneOK

-----------------------------------------------------------------------------
(* Steps of one request that leave the rows alone. *)

Outcomes == {"none", "ok", "refused", "not_found", "integrity_error", "server_error"}

(* Rows change in one direction: what a message is and who has a part in it *)
(* stays, what is closed stays closed.                                     *)
Evolves(old, new) ==
  /\ \A m \in Ids : old[m] # None =>
       /\ new[m] # None
       /\ new[m].sender = old[m].sender
       /\ DOMAIN new[m].copies = DOMAIN old[m].copies
  /\ \A m \in Ids, u \in Users : Shut(old, m, u) => Shut(new, m, u)

(* A worker with nothing to do has read nothing.                            *)
LEMMA IdleOK ==
  /\ Idle \in Request
  /\ PlaceOK(Idle)
  /\ \A table, past : LoadedOK(Idle, table, past)
BY DEF Idle, Request, Places, Optional, PlaceOK, LoadedOK

(* What a worker has read stays sound while the table evolves.              *)
LEMMA LoadedStep ==
  ASSUME NEW r \in Request, PlaceOK(r), NEW old, NEW new, NEW past, NEW later,
         LoadedOK(r, old, past), Evolves(old, new), past \subseteq later
  PROVE  LoadedOK(r, new, later)
<1>1. CASE r.at = "idle"
  BY <1>1, IdleOK DEF PlaceOK
<1>2. CASE r.at # "idle"
  <2>1. r.user \in Users /\ r.shown \subseteq Ids /\ r.late \subseteq Ids
    BY <1>2 DEF PlaceOK, Request
  <2>2. r.op \in {"read", "download", "delete"} => r.id \in Ids
    BY <1>2 DEF PlaceOK
  <2>3. \A m \in Ids : Party(old, m, r.user) =>
          Party(new, m, r.user) /\ new[m].sender = old[m].sender
    BY DEF Evolves, Party
  <2> QED
    BY <2>1, <2>2, <2>3 DEF LoadedOK, Evolves
<1> QED
  BY <1>1, <1>2

(* One request goes on; the others are served from the changed rows. *)
LEMMA RequestStep ==
  ASSUME TypeOK, RequestsOK, Evolves(messages, messages'), gone \subseteq gone',
         NEW w \in Workers, NEW r \in Request, PlaceOK(r), LoadedOK(r, messages', gone'),
         req' = [req EXCEPT ![w] = r]
  PROVE  req' \in [Workers -> Request] /\ RequestsOK'
<1>1. req' \in [Workers -> Request]
  BY DEF TypeOK
<1>2. ASSUME NEW v \in Workers
      PROVE  PlaceOK(req'[v]) /\ LoadedOK(req'[v], messages', gone')
  <2>1. CASE v = w
    BY <2>1 DEF TypeOK
  <2>2. CASE v # w
    <3>1. req'[v] = req[v] /\ req[v] \in Request
      BY <2>2 DEF TypeOK
    <3> QED
      BY <3>1, LoadedStep DEF RequestsOK
  <2> QED
    BY <2>1, <2>2
<1> QED
  BY <1>1, <1>2 DEF RequestsOK

(* A request sends the same message as before, and has not gone on from its *)
(* start to "done", or none.                                               *)
SameSend(old, new) ==
  new.op = "send" => /\ old.op = "send" /\ new.id = old.id
                     /\ new.at \in {"start", "done"} => new.at = old.at

(* A step of one worker that does not send keeps the sends apart.           *)
LEMMA SendsStep ==
  ASSUME TypeOK, SendsOK, Stored' = Stored,
         NEW w \in Workers, NEW r, SameSend(req[w], r), req' = [req EXCEPT ![w] = r]
  PROVE  SendsOK'
<1>1. \A v \in Workers : SameSend(req[v], req'[v])
  BY DEF TypeOK, SameSend
<1> QED
  BY <1>1 DEF SendsOK, SameSend

(* A step of one request that leaves the rows and the history alone. *)
LEMMA ArrivalStep ==
  ASSUME IInv, UNCHANGED <<messages, active, gone>>, answer' \in Outcomes,
         NEW w \in Workers, NEW r \in Request, PlaceOK(r), LoadedOK(r, messages, gone),
         req' = [req EXCEPT ![w] = r], SendsOK'
  PROVE  IInv'
<1>1. Evolves(messages, messages')
  BY DEF Evolves
<1>2. req' \in [Workers -> Request] /\ RequestsOK'
  BY <1>1, RequestStep DEF IInv
<1>3. TypeOK'
  BY <1>2 DEF IInv, TypeOK, Outcomes
<1>4. MessagesOK' /\ GoneOK'
  BY DEF IInv, MessagesOK, MessageOK, GoneOK, Stored, Recipients, Expected, Payload
<1> QED
  BY <1>2, <1>3, <1>4 DEF IInv

(* A step that writes no row keeps the invariant.                           *)
LEMMA QuietStep ==
  ASSUME IInv, UNCHANGED <<messages, active, gone>>,
         NEW w \in Workers, NEW r \in Request, PlaceOK(r), LoadedOK(r, messages, gone),
         SameSend(req[w], r), Continue(w, r)
  PROVE  IInv'
<1>1. SendsOK'
  BY SendsStep DEF IInv, Stored, Continue
<1> QED
  BY <1>1, ArrivalStep DEF Continue, Outcomes

(* So does an answer.                                                       *)
LEMMA QuietAnswer ==
  ASSUME IInv, UNCHANGED <<messages, active, gone>>,
         NEW w \in Workers, NEW outcome \in Outcomes, Answer(w, outcome)
  PROVE  IInv'
<1>1. SameSend(req[w], Idle)
  BY NoneAssumption DEF SameSend, Idle, Operations
<1>2. SendsOK'
  BY <1>1, SendsStep DEF IInv, Stored, Answer
<1> QED
  BY <1>2, IdleOK, ArrivalStep DEF Answer

-----------------------------------------------------------------------------
(* The actions. *)

(* A request arrives.                                                       *)
LEMMA ArriveIInv ==
  ASSUME IInv, NEW w \in Workers, NEW user \in Users, NEW op \in Operations, NEW m \in Ids,
         Arrive(w, user, op, m)
  PROVE  IInv'
<1> DEFINE r == [Idle EXCEPT !.at = "start", !.op = op, !.user = user,
                             !.id = IF op \in {"inbox", "sent"} THEN None ELSE m,
                             !.late = {i \in Ids : <<i, user>> \in gone}]
<1>1. r \in Request
  BY DEF Idle, Request, Places, Optional
<1>2. PlaceOK(r) /\ LoadedOK(r, messages, gone)
  BY DEF PlaceOK, LoadedOK, Idle
<1>3. req' = [req EXCEPT ![w] = r]
  BY DEF Arrive, Continue
<1>4. SendsOK'
  <2>1. op = "send" => Fresh(m) /\ r.id = m
    BY DEF Arrive, Idle
  <2>2. r.op = op /\ r.at = "start"
    BY DEF Idle
  <2> QED
    BY <1>3, <2>1, <2>2 DEF IInv, TypeOK, SendsOK, Fresh, Stored, Arrive
<1> QED
  BY <1>1, <1>2, <1>3, <1>4, ArrivalStep DEF Arrive, Continue, Outcomes

(* A recipient is looked up.                                                *)
LEMMA ResolveIInv ==
  ASSUME IInv, NEW w \in Workers, NEW user \in Users, ResolveRecipient(w, user)
  PROVE  IInv'
<1> DEFINE r == [req[w] EXCEPT !.recipients = @ \cup {user}]
<1>1. req[w] \in Request /\ PlaceOK(req[w]) /\ LoadedOK(req[w], messages, gone)
  BY DEF IInv, TypeOK, RequestsOK
<1>2. r \in Request
  BY <1>1 DEF Request
<1>3. PlaceOK(r) /\ LoadedOK(r, messages, gone) /\ SameSend(req[w], r)
  BY <1>1 DEF ResolveRecipient, Starts, PlaceOK, LoadedOK, SameSend, Request
<1> QED
  BY <1>2, <1>3, QuietStep DEF ResolveRecipient

(* A listing shows what its user has a part in and has not deleted: nothing *)
(* of what was acknowledged as deleted before the request came.            *)
LEMMA ListIInv ==
  ASSUME IInv, NEW w \in Workers, ListInbox(w) \/ ListSent(w)
  PROVE  IInv'
<1> DEFINE user == req[w].user
           shown == IF req[w].op = "inbox" THEN {m \in Stored : HasCopy(user, m)}
                    ELSE {m \in Stored : messages[m].sender = user /\ ~messages[m].deleted_by_sender}
           r == [req[w] EXCEPT !.at = "ready", !.shown = shown]
<1>1. req[w] \in Request /\ PlaceOK(req[w]) /\ LoadedOK(req[w], messages, gone)
  BY DEF IInv, TypeOK, RequestsOK
<1>2. shown \subseteq Ids
  BY DEF Stored
<1>3. r \in Request
  BY <1>1, <1>2 DEF Request, Places
<1>4. PlaceOK(r) /\ SameSend(req[w], r)
  BY <1>1 DEF ListInbox, ListSent, Starts, PlaceOK, SameSend, Request
<1>5. ASSUME NEW m \in shown
      PROVE  Party(messages, m, user) /\ m \notin req[w].late
  <2>1. Party(messages, m, user) /\ ~Shut(messages, m, user)
    BY <1>5 DEF Stored, HasCopy, Recipients, Party, Shut, IInv, MessagesOK, MessageOK
  <2>2. m \in req[w].late => <<m, user>> \in gone
    BY <1>1 DEF LoadedOK
  <2>3. <<m, user>> \in gone => Shut(messages, m, user)
    BY DEF IInv, GoneOK
  <2> QED
    BY <2>1, <2>2, <2>3
<1>6. LoadedOK(r, messages, gone)
  <2>1. r.at = "ready" /\ r.op \in {"inbox", "sent"} /\ r.shown = shown /\ r.user = user /\ r.late = req[w].late
    BY <1>1 DEF ListInbox, ListSent, Starts, Request
  <2> QED
    BY <1>1, <1>5, <2>1 DEF LoadedOK
<1>7. Continue(w, r)
  BY DEF ListInbox, ListSent, Starts
<1> QED
  BY <1>3, <1>4, <1>6, <1>7, QuietStep DEF ListInbox, ListSent

(* Who finds a message is its sender or has a copy that is not deleted. *)
LEMMA GetMessageIInv ==
  ASSUME IInv, NEW w \in Workers, GetMessage(w)
  PROVE  IInv'
<1> DEFINE m == req[w].id
           user == req[w].user
<1>1. req[w] \in Request /\ PlaceOK(req[w]) /\ LoadedOK(req[w], messages, gone)
  BY DEF IInv, TypeOK, RequestsOK
<1>2. CASE Answer(w, "not_found")
  BY <1>2, QuietAnswer DEF GetMessage, Outcomes
<1>3. ASSUME NEW copy \in Optional(Copy), m \in Stored,
             \/ messages[m].sender = user /\ copy = None
             \/ messages[m].sender # user /\ HasCopy(user, m),
             Continue(w, [req[w] EXCEPT !.at = "found", !.copy = copy])
      PROVE  IInv'
  <2> DEFINE r == [req[w] EXCEPT !.at = "found", !.copy = copy]
  <2>1. r \in Request
    BY <1>1 DEF Request, Places
  <2>2. PlaceOK(r) /\ SameSend(req[w], r)
    BY <1>1 DEF GetMessage, Starts, PlaceOK, SameSend, Request
  <2>3. Party(messages, m, user) /\ (copy # None => messages[m].sender # user)
    BY <1>3 DEF Party, Stored, HasCopy, Recipients
  <2>4. m \in req[w].late => messages[m].sender = user
    <3>1. m \in req[w].late => Shut(messages, m, user)
      BY <1>1 DEF LoadedOK, IInv, GoneOK
    <3> QED
      BY <1>3, <3>1 DEF Shut, HasCopy
  <2>5. LoadedOK(r, messages, gone)
    BY <1>1, <2>3, <2>4 DEF LoadedOK, Request
  <2> QED
    BY <1>3, <2>1, <2>2, <2>5, QuietStep DEF GetMessage
<1>4. CASE m \in Stored /\ messages[m].sender = user /\ Continue(w, [req[w] EXCEPT !.at = "found"])
  <2>1. [req[w] EXCEPT !.at = "found"] = [req[w] EXCEPT !.at = "found", !.copy = None]
    BY <1>1 DEF GetMessage, Starts, PlaceOK, Request
  <2> QED
    BY <1>3, <1>4, <2>1 DEF Optional
<1>5. CASE /\ m \in Stored /\ messages[m].sender # user /\ HasCopy(user, m)
           /\ Continue(w, [req[w] EXCEPT !.at = "found", !.copy = messages[m].copies[user]])
  <2>1. messages[m].copies[user] \in Optional(Copy)
    BY <1>5 DEF IInv, TypeOK, Stored, HasCopy, Recipients, Message, Optional
  <2> QED
    BY <1>3, <1>5, <2>1
<1> QED
  BY <1>2, <1>4, <1>5 DEF GetMessage

(* The HMAC of a stored message verifies. *)
LEMMA VerifyIInv ==
  ASSUME IInv, NEW w \in Workers, VerifyAuthenticity(w)
  PROVE  IInv'
<1> DEFINE m == req[w].id
           r == [req[w] EXCEPT !.at = "ready", !.shown = {m}]
<1>1. req[w] \in Request /\ PlaceOK(req[w]) /\ LoadedOK(req[w], messages, gone)
  BY DEF IInv, TypeOK, RequestsOK
<1>2. CASE Answer(w, "integrity_error")
  BY <1>2, QuietAnswer DEF VerifyAuthenticity, Outcomes
<1>3. CASE Continue(w, r)
  <2>1. m \in Ids /\ r \in Request
    BY <1>1 DEF VerifyAuthenticity, PlaceOK, Request, Places
  <2>2. PlaceOK(r) /\ SameSend(req[w], r)
    BY <1>1 DEF VerifyAuthenticity, PlaceOK, SameSend, Request
  <2>3. LoadedOK(r, messages, gone)
    BY <1>1 DEF VerifyAuthenticity, LoadedOK, Request
  <2> QED
    BY <1>3, <2>1, <2>2, <2>3, QuietStep DEF VerifyAuthenticity
<1> QED
  BY <1>2, <1>3 DEF VerifyAuthenticity

(* A step that changes one stored message, and the worker's request. *)
LEMMA RowStep ==
  ASSUME IInv, NEW w \in Workers, NEW r \in Request, PlaceOK(r), SameSend(req[w], r),
         req' = [req EXCEPT ![w] = r], LoadedOK(r, messages', gone),
         answer' \in Outcomes, UNCHANGED <<active, gone>>,
         NEW m \in Stored, NEW row \in Message, messages' = [messages EXCEPT ![m] = row],
         row.sender = messages[m].sender, DOMAIN row.copies = Recipients(m),
         row.files = messages[m].files, row.hmac = messages[m].hmac,
         messages[m].deleted_by_sender => row.deleted_by_sender,
         \A u \in Recipients(m) :
           /\ messages[m].copies[u].deleted => row.copies[u].deleted
           /\ row.copies[u].read = row.copies[u].authenticity_verified
  PROVE  IInv'
<1>1. m \in Ids /\ row # None /\ messages' \in [Ids -> Optional(Message)]
  BY NoneAssumption DEF IInv, TypeOK, Stored, Optional
<1>2. \A i \in Ids : messages'[i] = IF i = m THEN row ELSE messages[i]
  BY DEF IInv, TypeOK
<1>3. Stored' = Stored
  BY <1>1, <1>2 DEF Stored
<1>4. Evolves(messages, messages')
  BY <1>1, <1>2 DEF Evolves, Shut, Party, Recipients
<1>5. req' \in [Workers -> Request] /\ RequestsOK'
  BY <1>4, RequestStep DEF IInv
<1>6. SendsOK'
  BY <1>3, SendsStep DEF IInv
<1>7. TypeOK'
  BY <1>1, <1>5 DEF IInv, TypeOK, Outcomes
<1>8. MessagesOK'
  BY <1>1, <1>2, <1>3 DEF IInv, MessagesOK, MessageOK, Recipients, Expected, Payload, Stored
<1>9. GoneOK'
  BY <1>4 DEF IInv, TypeOK, GoneOK, Evolves
<1> QED
  BY <1>5, <1>6, <1>7, <1>8, <1>9 DEF IInv

(* Reading sets both columns of the reader's row as it is then. *)
LEMMA ReadIInv ==
  ASSUME IInv, NEW w \in Workers, ReadDetail(w)
  PROVE  IInv'
<1> DEFINE m == req[w].id
           user == req[w].user
           copy == [messages[m].copies[user] EXCEPT !.read = TRUE, !.authenticity_verified = TRUE]
           row == [messages[m] EXCEPT !.copies = [messages[m].copies EXCEPT ![user] = copy]]
<1>1. req[w] \in Request /\ PlaceOK(req[w]) /\ LoadedOK(req[w], messages, gone)
  BY DEF IInv, TypeOK, RequestsOK
<1>2. CASE messages' = messages
  BY <1>2, QuietAnswer DEF ReadDetail, Outcomes
<1>3. CASE req[w].copy # None /\ messages' = MarkRead(m, user, req[w].copy)
  <2>1. m \in Stored /\ messages[m] \in Message /\ user \in Recipients(m)
    BY <1>1, <1>3 DEF ReadDetail, PlaceOK, LoadedOK, Party, Stored, Recipients, IInv, TypeOK, Optional
  <2>2. messages[m].copies \in [Recipients(m) -> Copy] /\ Recipients(m) \subseteq Users
    BY <2>1 DEF Message, Recipients
  <2>3. [messages[m].copies EXCEPT ![user] = copy] \in [Recipients(m) -> Copy]
    BY <2>1, <2>2 DEF Copy
  <2>4. row \in Message
    BY <2>1, <2>2, <2>3 DEF Message
  <2>5. messages' = [messages EXCEPT ![m] = row]
    BY <1>3, <2>1, <2>2 DEF MarkRead, Message, Copy, IInv, TypeOK
  <2>6. ASSUME NEW u \in Recipients(m)
        PROVE  /\ messages[m].copies[u].deleted => row.copies[u].deleted
               /\ row.copies[u].read = row.copies[u].authenticity_verified
    <3>1. /\ messages[m].copies[u] \in Copy
          /\ messages[m].copies[u].read = messages[m].copies[u].authenticity_verified
      BY <2>1, <2>2 DEF IInv, MessagesOK, MessageOK
    <3>2. row.copies[u] = IF u = user THEN copy ELSE messages[m].copies[u]
      BY <2>1, <2>2 DEF Message
    <3> HIDE DEF row
    <3> QED
      BY <3>1, <3>2 DEF Copy
  <2>7. SameSend(req[w], Idle)
    BY NoneAssumption DEF SameSend, Idle, Operations
  <2>8. req' = [req EXCEPT ![w] = Idle] /\ answer' \in Outcomes /\ UNCHANGED <<active, gone>>
    BY DEF ReadDetail, Answer, Outcomes
  <2> QED
    BY <2>1, <2>2, <2>3, <2>4, <2>5, <2>6, <2>7, <2>8, IdleOK, RowStep DEF Message, Recipients
<1> QED
  BY <1>2, <1>3 DEF ReadDetail

(* Deleting closes the message to the user, and to nobody else. *)
LEMMA DeleteIInv ==
  ASSUME IInv, NEW w \in Workers, DeleteMessage(w)
  PROVE  IInv'
<1> DEFINE m == req[w].id
           user == req[w].user
           copy == [messages[m].copies[user] EXCEPT !.deleted = TRUE]
           row == IF messages[m].sender = user
                    THEN [messages[m] EXCEPT !.deleted_by_sender = TRUE]
                    ELSE [messages[m] EXCEPT !.copies = [messages[m].copies EXCEPT ![user] = copy]]
           r == [req[w] EXCEPT !.at = "done", !.copy = None]
<1>1. req[w] \in Request /\ PlaceOK(req[w]) /\ LoadedOK(req[w], messages, gone)
  BY DEF IInv, TypeOK, RequestsOK
<1>2. m \in Stored /\ messages[m] \in Message /\ user \in {messages[m].sender} \cup Recipients(m)
  BY <1>1 DEF DeleteMessage, PlaceOK, LoadedOK, Party, Stored, Recipients, IInv, TypeOK, Optional
<1>3. messages[m].copies \in [Recipients(m) -> Copy] /\ Recipients(m) \subseteq Users
  BY <1>2 DEF Message, Recipients
<1>4. user \in Recipients(m) =>
        [messages[m].copies EXCEPT ![user] = copy] \in [Recipients(m) -> Copy]
  BY <1>3 DEF Copy
<1>5. row \in Message
  BY <1>2, <1>3, <1>4 DEF Message
<1>6. messages' = [messages EXCEPT ![m] = row]
  BY <1>2, <1>3 DEF DeleteMessage, Deleted, Message, Copy, IInv, TypeOK
<1>7. DOMAIN row.copies = Recipients(m)
  BY <1>2, <1>3 DEF Message, Recipients
<1>8. ASSUME NEW u \in Recipients(m)
      PROVE  /\ messages[m].copies[u].deleted => row.copies[u].deleted
             /\ row.copies[u].read = row.copies[u].authenticity_verified
  <2>1. /\ messages[m].copies[u] \in Copy
        /\ messages[m].copies[u].read = messages[m].copies[u].authenticity_verified
    BY <1>2, <1>3 DEF IInv, MessagesOK, MessageOK
  <2>2. row.copies[u] \in {messages[m].copies[u], [messages[m].copies[u] EXCEPT !.deleted = TRUE]}
    BY <1>2, <1>3 DEF Message
  <2> QED
    BY <2>1, <2>2 DEF Copy
<1>9. Shut(messages', m, user)
  <2>1. messages'[m] = row /\ row # None
    BY <1>2, <1>5, <1>6, NoneAssumption DEF IInv, TypeOK, Stored
  <2>2. CASE messages[m].sender = user
    BY <1>2, <2>1, <2>2 DEF Shut, Party, Message
  <2>3. CASE messages[m].sender # user
    <3>1. user \in DOMAIN row.copies /\ row.sender # user /\ row.copies[user].deleted
      BY <1>2, <1>3, <2>3 DEF Message, Copy
    <3> HIDE DEF row
    <3>2. /\ user \in DOMAIN messages'[m].copies /\ messages'[m].sender # user
          /\ messages'[m].copies[user].deleted
      BY <2>1, <3>1
    <3> QED
      BY <2>1, <3>2 DEF Shut, Party
  <2> QED
    BY <2>2, <2>3
<1>10. r \in Request /\ PlaceOK(r) /\ SameSend(req[w], r)
  BY <1>1 DEF DeleteMessage, PlaceOK, SameSend, Request, Places, Optional
<1>11. LoadedOK(r, messages', gone)
  BY <1>1, <1>9 DEF DeleteMessage, LoadedOK, Request
<1>12. row.sender = messages[m].sender /\ row.files = messages[m].files /\ row.hmac = messages[m].hmac
       /\ (messages[m].deleted_by_sender => row.deleted_by_sender)
  BY <1>2 DEF Message
<1>13. req' = [req EXCEPT ![w] = r] /\ answer' \in Outcomes /\ UNCHANGED <<active, gone>>
  BY DEF DeleteMessage, Continue, Outcomes
<1> QED
  BY <1>2, <1>5, <1>6, <1>7, <1>8, <1>10, <1>11, <1>12, <1>13, RowStep

(* A message appears with all its rows, under an id nobody has. *)
LEMMA CommitIInv ==
  ASSUME IInv, NEW w \in Workers, NEW files \in SUBSET Files, CommitSend(w, files)
  PROVE  IInv'
<1> DEFINE m == req[w].id
           row == [sender |-> req[w].user,
                   copies |-> [u \in req[w].recipients |-> NewCopy],
                   files |-> files,
                   deleted_by_sender |-> FALSE,
                   hmac |-> Payload(m, req[w].user, req[w].recipients, files)]
           r == [req[w] EXCEPT !.at = "done", !.recipients = {}]
<1>1. req[w] \in Request /\ PlaceOK(req[w]) /\ LoadedOK(req[w], messages, gone)
  BY DEF IInv, TypeOK, RequestsOK
<1>2. m \in Ids \ Stored
  BY <1>1 DEF CommitSend, Starts, PlaceOK, IInv, SendsOK
<1>3. req[w].user \in Users /\ req[w].recipients \subseteq Users \ {req[w].user} /\ req[w].recipients # {}
  BY <1>1 DEF CommitSend, Starts, PlaceOK, Request
<1>4. row \in Message /\ row # None
  <2>1. [u \in req[w].recipients |-> NewCopy] \in UNION {[S -> Copy] : S \in SUBSET Users}
    <3>1. [u \in req[w].recipients |-> NewCopy] \in [req[w].recipients -> Copy]
      BY DEF NewCopy, Copy
    <3> QED
      BY <1>3, <3>1
  <2>2. Payload(m, req[w].user, req[w].recipients, files) \in Hmac
    BY <1>2, <1>3 DEF Payload, Hmac
  <2>3. \A copies \in UNION {[S -> Copy] : S \in SUBSET Users}, hmac \in Hmac :
          [sender |-> req[w].user, copies |-> copies, files |-> files,
           deleted_by_sender |-> FALSE, hmac |-> hmac] \in Message
    BY <1>3 DEF Message
  <2> QED
    BY <2>1, <2>2, <2>3, NoneAssumption
<1>5. messages' = [messages EXCEPT ![m] = row]
  BY DEF CommitSend
<1>6. messages' \in [Ids -> Optional(Message)] /\ \A i \in Ids : messages'[i] = IF i = m THEN row ELSE messages[i]
  BY <1>2, <1>4, <1>5 DEF IInv, TypeOK, Optional
<1>7. Stored' = Stored \cup {m}
  BY <1>2, <1>4, <1>6 DEF Stored
<1>8. Evolves(messages, messages')
  BY <1>2, <1>6 DEF Evolves, Shut, Party, Stored
<1>9. r \in Request /\ PlaceOK(r) /\ LoadedOK(r, messages', gone)
  BY <1>1 DEF CommitSend, Starts, PlaceOK, LoadedOK, Request, Places
<1>10. req' = [req EXCEPT ![w] = r] /\ answer' \in Outcomes /\ UNCHANGED <<active, gone>>
  BY DEF CommitSend, Continue, Outcomes
<1>11. req' \in [Workers -> Request] /\ RequestsOK'
  BY <1>8, <1>9, <1>10, RequestStep DEF IInv
<1>12. SendsOK'
  <2>1. \A v \in Workers : /\ req'[v].op = req[v].op /\ req'[v].id = req[v].id
                           /\ v # w => req'[v] = req[v]
    BY <1>1, <1>10 DEF IInv, TypeOK, Request
  <2>2. req'[w].at = "done" /\ req[w].op = "send"
    BY <1>1, <1>10 DEF IInv, TypeOK, Request, CommitSend, Starts
  <2> QED
    BY <1>7, <2>1, <2>2 DEF IInv, SendsOK
<1>13. MessagesOK'
  <2>1. ASSUME NEW i \in Stored'
        PROVE  MessageOK(i)'
    <3>1. CASE i = m
      <4>1. messages'[m] = row
        BY <1>2, <1>6
      <4>2. DOMAIN row.copies = req[w].recipients /\ row.sender = req[w].user
        OBVIOUS
      <4>3. row.hmac = Payload(m, row.sender, DOMAIN row.copies, row.files)
        BY <4>2
      <4>4. \A u \in DOMAIN row.copies : row.copies[u].read = row.copies[u].authenticity_verified
        BY DEF NewCopy
      <4> QED
        BY <1>3, <3>1, <4>1, <4>2, <4>3, <4>4 DEF MessageOK, Recipients, Expected, Payload
    <3>2. CASE i # m
      BY <1>6, <1>7, <3>2 DEF IInv, MessagesOK, MessageOK, Recipients, Expected, Stored
    <3> QED
      BY <3>1, <3>2
  <2> QED
    BY <2>1 DEF MessagesOK
<1>14. TypeOK' /\ GoneOK'
  BY <1>6, <1>8, <1>10, <1>11 DEF IInv, TypeOK, GoneOK, Evolves, Outcomes
<1> QED
  BY <1>11, <1>12, <1>13, <1>14 DEF IInv

(* What is acknowledged as deleted has been closed by the commit. *)
LEMMA AcknowledgeIInv ==
  ASSUME IInv, NEW w \in Workers, Acknowledge(w)
  PROVE  IInv'
<1>1. req[w] \in Request /\ PlaceOK(req[w]) /\ LoadedOK(req[w], messages, gone)
  BY DEF IInv, TypeOK, RequestsOK
<1>2. gone \subseteq gone' /\ messages' = messages /\ active' = active /\ answer' \in Outcomes
      /\ req' = [req EXCEPT ![w] = Idle]
  BY DEF Acknowledge, Answer, Outcomes
<1>3. gone' \subseteq Ids \X Users
  BY <1>1 DEF Acknowledge, PlaceOK, IInv, TypeOK
<1>4. GoneOK'
  BY <1>1, <1>2 DEF Acknowledge, LoadedOK, IInv, GoneOK
<1>5. Evolves(messages, messages') /\ Stored' = Stored
  BY <1>2 DEF Evolves, Stored
<1>6. req' \in [Workers -> Request] /\ RequestsOK'
  BY <1>2, <1>5, IdleOK, RequestStep DEF IInv
<1>7. SendsOK'
  <2>1. SameSend(req[w], Idle)
    BY NoneAssumption DEF SameSend, Idle, Operations
  <2> QED
    BY <1>2, <1>5, <2>1, SendsStep DEF IInv
<1>8. TypeOK' /\ MessagesOK'
  BY <1>2, <1>3, <1>5, <1>6
     DEF IInv, TypeOK, Outcomes, MessagesOK, MessageOK, Recipients, Expected, Payload
<1> QED
  BY <1>4, <1>6, <1>7, <1>8 DEF IInv

(* Any step of a worker keeps the invariant.                                *)
LEMMA StepIInv ==
  ASSUME IInv, NEW w \in Workers, Step(w)
  PROVE  IInv'
<1>1. CASE SendRefused(w) \/ ShowList(w) \/ StorageFails(w)
           \/ \E file \in Files : DownloadAttachment(w, file)
  <2>1. \E outcome \in Outcomes : Answer(w, outcome)
    BY <1>1 DEF SendRefused, ShowList, StorageFails, DownloadAttachment, Outcomes
  <2> QED
    BY <1>1, <2>1, QuietAnswer DEF SendRefused, ShowList, StorageFails, DownloadAttachment
<1> QED
  BY <1>1, ResolveIInv, CommitIInv, ListIInv, GetMessageIInv, VerifyIInv, ReadIInv, DeleteIInv,
     AcknowledgeIInv DEF Step

(* So do a crash and the deactivation of a user.                            *)
LEMMA EnvironmentIInv ==
  ASSUME IInv, Crash \/ \E user \in Users : Deactivate(user)
  PROVE  IInv'
<1>1. UNCHANGED <<messages, gone>> /\ Stored' = Stored
  BY DEF Crash, Deactivate, Stored
<1>2. MessagesOK' /\ GoneOK'
  BY <1>1 DEF IInv, MessagesOK, MessageOK, Recipients, Expected, Payload, GoneOK
<1>3. CASE Crash
  <2>1. req' \in [Workers -> Request] /\ RequestsOK'
    BY <1>3, IdleOK DEF Crash, RequestsOK
  <2>2. SendsOK'
    BY <1>3, NoneAssumption DEF Crash, SendsOK, Idle, Operations
  <2> QED
    BY <1>1, <1>2, <1>3, <2>1, <2>2 DEF Crash, IInv, TypeOK
<1>4. CASE \E user \in Users : Deactivate(user)
  BY <1>1, <1>2, <1>4 DEF Deactivate, IInv, TypeOK, RequestsOK, SendsOK
<1> QED
  BY <1>3, <1>4

(* The invariant holds of the empty table.                                  *)
LEMMA InitIInv == Init => IInv
<1> SUFFICES ASSUME Init PROVE IInv
  OBVIOUS
<1>1. TypeOK
  BY IdleOK DEF Init, TypeOK, Optional
<1>2. Stored = {} /\ gone = {}
  BY DEF Init, Stored
<1>3. RequestsOK /\ SendsOK
  BY IdleOK, NoneAssumption DEF Init, RequestsOK, SendsOK, Idle, Operations
<1> QED
  BY <1>1, <1>2, <1>3 DEF IInv, MessagesOK, GoneOK

(* Every step keeps it.                                                     *)
LEMMA NextIInv == IInv /\ [Next]_vars => IInv'
<1> SUFFICES ASSUME IInv, [Next]_vars PROVE IInv'
  OBVIOUS
<1>1. CASE UNCHANGED vars
  BY <1>1 DEF vars, IInv, TypeOK, MessagesOK, MessageOK, RequestsOK, SendsOK, GoneOK, Stored,
              Recipients, Expected, Payload
<1> QED
  BY <1>1, ArriveIInv, StepIInv, EnvironmentIInv DEF Next

(* The store is as described in every reachable state. *)
THEOREM Invariance == Spec => []IInv
BY InitIInv, NextIInv, PTL DEF Spec

-----------------------------------------------------------------------------
(* What the runs check, for any number of everything. *)

(* The tables and the requests hold values of their columns' types. *)
THEOREM Typing == Spec => []TypeOK
<1>1. IInv => TypeOK
  BY DEF IInv
<1> QED
  BY <1>1, Invariance, PTL

(* The inbox calls a message authentic exactly when its recipient has read  *)
(* it: get_message_detail sets both columns in one commit.                 *)
THEOREM ReadTheorem == Spec => []ReadIffVerified
<1>1. IInv => ReadIffVerified
  BY DEF IInv, MessagesOK, MessageOK, ReadIffVerified
<1> QED
  BY <1>1, Invariance, PTL

(* A message that has been found is in the table.                           *)
LEMMA LoadedIsStored ==
  ASSUME IInv, NEW w \in Workers, req[w].at \in {"found", "ready"},
         req[w].op \in {"read", "download", "delete"}
  PROVE  req[w].id \in Stored
BY DEF IInv, RequestsOK, PlaceOK, LoadedOK, Party, Stored

(* However deletions overlap with a read, the stored HMAC verifies          *)
(* (_verify_authenticity puts together all rows, deleted or not).          *)
THEOREM AuthenticTheorem == Spec => AlwaysAuthentic
<1>1. IInv /\ [Next]_vars => [answer' # "integrity_error"]_vars
  <2> SUFFICES ASSUME IInv, Next PROVE answer' # "integrity_error"
    OBVIOUS
  <2>1. ASSUME NEW w \in Workers, VerifyAuthenticity(w) PROVE answer' # "integrity_error"
    <3>1. messages[req[w].id].hmac = Expected(req[w].id)
      BY <2>1, LoadedIsStored DEF VerifyAuthenticity, IInv, MessagesOK, MessageOK
    <3> QED
      BY <2>1, <3>1 DEF VerifyAuthenticity, Continue
  <2>2. ASSUME NEW w \in Workers, Step(w), ~VerifyAuthenticity(w) PROVE answer' # "integrity_error"
    BY <2>2 DEF Step, SendRefused, ResolveRecipient, CommitSend, ListInbox, ListSent, ShowList,
       GetMessage, ReadDetail, DownloadAttachment, DeleteMessage, Acknowledge, StorageFails,
       Answer, Continue
  <2>3. CASE Crash \/ \E user \in Users : Deactivate(user)
    BY <2>3 DEF Crash, Deactivate
  <2>4. ASSUME NEW w \in Workers, NEW user \in Users, NEW op \in Operations, NEW m \in Ids,
               Arrive(w, user, op, m)
        PROVE  answer' # "integrity_error"
    BY <2>4 DEF Arrive, Continue
  <2> QED
    BY <2>1, <2>2, <2>3, <2>4 DEF Next
<1>2. Spec => []IInv /\ [][Next]_vars
  BY Invariance DEF Spec
<1> QED
  BY <1>1, <1>2, PTL DEF AlwaysAuthentic

(* Only its own step ends a request, or a restart, which answers nothing. *)
LEMMA EndsByItself ==
  ASSUME IInv, Next, NEW w \in Workers, req[w].at # "idle", req'[w].at = "idle", answer' # "none"
  PROVE  Step(w)
<1>1. ASSUME NEW v \in Workers \ {w}, NEW r, req' = [req EXCEPT ![v] = r] PROVE FALSE
  BY <1>1 DEF IInv, TypeOK
<1>2. ASSUME NEW v \in Workers, v # w, Step(v) PROVE FALSE
  <2>1. \E r : req' = [req EXCEPT ![v] = r]
    BY <1>2 DEF Step, SendRefused, ResolveRecipient, CommitSend, ListInbox, ListSent, ShowList,
       GetMessage, VerifyAuthenticity, ReadDetail, DownloadAttachment, DeleteMessage,
       Acknowledge, StorageFails, Answer, Continue
  <2> QED
    BY <1>1, <1>2, <2>1
<1> QED
  BY <1>2 DEF Next, Arrive, Continue, Deactivate, Crash

(* The answer to a send says what happened: "ok" comes after the one commit *)
(* that stores the message, a refusal comes before it.                     *)
THEOREM SendTheorem == Spec => SendAnswerTruthful
<1> DEFINE Truthful == \A w \in Workers :
             req[w].op = "send" /\ req'[w].at = "idle" =>
               /\ answer' = "ok" => req[w].id \in Stored
               /\ answer' = "refused" => req[w].id \notin Stored'
<1>1. IInv /\ [Next]_vars => [Truthful]_vars
  <2> SUFFICES ASSUME IInv, Next, NEW w \in Workers, req[w].op = "send", req'[w].at = "idle",
                      answer' \in {"ok", "refused"}
               PROVE  IF answer' = "ok" THEN req[w].id \in Stored ELSE req[w].id \notin Stored'
    OBVIOUS
  <2>1. req[w].at # "idle"
    BY NoneAssumption DEF IInv, RequestsOK, PlaceOK, Idle, Operations
  <2>2. Step(w)
    BY <2>1, EndsByItself
  <2>3. CASE answer' = "ok"
    <3>1. req[w].at = "done"
      BY <2>1, <2>2, <2>3 DEF Step, SendRefused, ResolveRecipient, CommitSend, ListInbox, ListSent,
         ShowList, GetMessage, VerifyAuthenticity, ReadDetail, DownloadAttachment, DeleteMessage,
         Acknowledge, StorageFails, Starts, Answer, Continue
    <3> QED
      BY <2>3, <3>1 DEF IInv, SendsOK
  <2>4. CASE answer' = "refused"
    <3>1. SendRefused(w)
      BY <2>2, <2>4 DEF Step, ResolveRecipient, CommitSend, ListInbox, ListSent, ShowList,
         GetMessage, VerifyAuthenticity, ReadDetail, DownloadAttachment, DeleteMessage,
         Acknowledge, StorageFails, Answer, Continue
    <3> QED
      BY <2>4, <3>1 DEF SendRefused, Starts, IInv, SendsOK, Stored
  <2> QED
    BY <2>3, <2>4
<1>2. Spec => []IInv /\ [][Next]_vars
  BY Invariance DEF Spec
<1> QED
  BY <1>1, <1>2, PTL DEF SendAnswerTruthful

(* A request shows messages of its user only, and none that was deleted     *)
(* when it arrived, but a sender's own: LoadedOK stays true of what a       *)
(* request has loaded while others write.                                  *)
THEOREM DeletedTheorem == Spec => DeletedStaysGone
<1> DEFINE Shown == \A w \in Workers :
             req[w].at = "ready" /\ req'[w].at = "idle" /\ answer' = "ok" =>
               \A m \in req[w].shown :
                 /\ req[w].user \in {messages[m].sender} \cup Recipients(m)
                 /\ m \in req[w].late => req[w].op \notin {"inbox", "sent"}
                                         /\ messages[m].sender = req[w].user
<1>1. IInv /\ [Next]_vars => [Shown]_vars
  BY DEF IInv, RequestsOK, LoadedOK, Party, Recipients
<1>2. Spec => []IInv /\ [][Next]_vars
  BY Invariance DEF Spec
<1> QED
  BY <1>1, <1>2, PTL DEF DeletedStaysGone

-----------------------------------------------------------------------------
(* The store implements the mailbox. *)

(* What a user has of the message in a row of the table: StateOf. *)
PartOf(row, u) ==
  IF row = None \/ u \notin {row.sender} \cup DOMAIN row.copies THEN "absent"
  ELSE IF u = row.sender THEN IF row.deleted_by_sender THEN "deleted" ELSE "sent"
  ELSE IF row.copies[u].deleted THEN "deleted"
  ELSE IF row.copies[u].read THEN "read" ELSE "unread"

OnlyOf(user, old, new) == \A u \in Users \ {user} : PartOf(new, u) = PartOf(old, u)

Box == [m \in Ids |-> [u \in Users |-> PartOf(messages[m], u)]]

(* The mailbox that a user has is what the rows say.                        *)
LEMMA BoxIsState ==
  /\ [m \in Ids |-> [u \in Users |-> StateOf(m, u)]] = Box
  /\ [m \in Ids |-> [u \in Users |-> StateOf(m, u)]]' = Box'
BY DEF Box, StateOf, PartOf, Recipients

(* Writing a row changes what one user has of the message, and nothing      *)
(* else, if it changes that user's part only.                              *)
LEMMA OneState ==
  ASSUME IInv, NEW m \in Stored, NEW user \in Users, NEW row,
         messages' = [messages EXCEPT ![m] = row], OnlyOf(user, messages[m], row)
  PROVE  Box' = [Box EXCEPT ![m][user] = PartOf(row, user)]
<1>1. m \in Ids /\ messages'[m] = row /\ \A i \in Ids : i # m => messages'[i] = messages[i]
  BY DEF Stored, IInv, TypeOK
<1>2. \A i \in Ids : [u \in Users |-> PartOf(messages'[i], u)] =
        [[n \in Ids |-> [u \in Users |-> PartOf(messages[n], u)]] EXCEPT ![m][user] = PartOf(row, user)][i]
  BY <1>1 DEF OnlyOf
<1> QED
  BY <1>1, <1>2 DEF Box

(* A box that is set to what it holds is unchanged.                         *)
LEMMA SamePart ==
  ASSUME NEW m \in Ids, NEW user \in Users
  PROVE  [Box EXCEPT ![m][user] = PartOf(messages[m], user)] = Box
BY DEF Box

(* The commit of a send delivers to the sender and all recipients at once. *)
LEMMA CommitDelivers ==
  ASSUME IInv, NEW w \in Workers, NEW files \in SUBSET Files, CommitSend(w, files),
         NEW m \in Ids, m = req[w].id
  PROVE  MB!Deliver(m)
<1> DEFINE row == messages'[m]
<1>1. PICK sender \in Users, recipients \in SUBSET Users :
        /\ sender = req[w].user /\ recipients = req[w].recipients
        /\ sender \notin recipients /\ recipients # {}
  BY DEF IInv, TypeOK, RequestsOK, PlaceOK, CommitSend, Starts, Request
<1>2. /\ row.sender = sender /\ ~row.deleted_by_sender
      /\ row.copies = [u \in recipients |-> NewCopy]
      /\ \A i \in Ids \ {m} : messages'[i] = messages[i]
  BY <1>1 DEF CommitSend, IInv, TypeOK
<1>3. row # None
  <2>1. row \in Message
    BY <1>1 DEF CommitSend, IInv, TypeOK, Message, Copy, NewCopy, Hmac, Payload
  <2> QED
    BY <2>1, NoneAssumption
<1>4. \A u \in Users : PartOf(messages[m], u) = "absent"
  BY DEF PartOf, Stored, IInv, SendsOK, CommitSend, Starts
<1>5. \A u \in Users : PartOf(row, u) = IF u = sender THEN "sent"
                                       ELSE IF u \in recipients THEN "unread" ELSE "absent"
  BY <1>1, <1>2, <1>3 DEF PartOf, NewCopy
<1>6. Box' = [Box EXCEPT ![m] =
        [u \in Users |-> IF u = sender THEN "sent"
                         ELSE IF u \in recipients THEN "unread" ELSE "absent"]]
  <2>1. \A i \in Ids : [u \in Users |-> PartOf(messages'[i], u)] =
          IF i = m THEN [u \in Users |-> IF u = sender THEN "sent"
                                         ELSE IF u \in recipients THEN "unread" ELSE "absent"]
                   ELSE [u \in Users |-> PartOf(messages[i], u)]
    BY <1>2, <1>5
  <2> QED
    BY <2>1 DEF Box
<1> DEFINE states == [i \in Ids |-> [u \in Users |-> StateOf(i, u)]]
<1>7. states = Box /\ states' = Box'
  BY BoxIsState
<1> HIDE DEF states
<1>8. \A u \in Users : states[m][u] = "absent"
  BY <1>4, <1>7 DEF Box
<1>9. \E from \in Users : \E to \in (SUBSET (Users \ {from})) \ {{}} :
        states' = [states EXCEPT ![m] =
          [u \in Users |-> IF u = from THEN "sent" ELSE IF u \in to THEN "unread" ELSE "absent"]]
  <2>1. recipients \in (SUBSET (Users \ {sender})) \ {{}}
    BY <1>1
  <2> WITNESS sender \in Users
  <2> WITNESS recipients \in (SUBSET (Users \ {sender})) \ {{}}
  <2> QED
    BY <1>6, <1>7
<1> QED
  BY <1>8, <1>9 DEF MB!Deliver, states

(* Writing one copy of a message. *)
LEMMA CopyWritten ==
  ASSUME NEW old \in Message, NEW user \in DOMAIN old.copies, NEW copy \in Copy,
         NEW row, row = [old EXCEPT !.copies = [old.copies EXCEPT ![user] = copy]]
  PROVE  /\ row \in Message /\ row.sender = old.sender
         /\ row.deleted_by_sender = old.deleted_by_sender
         /\ DOMAIN row.copies = DOMAIN old.copies
         /\ row.copies[user] = copy
         /\ \A u \in DOMAIN old.copies \ {user} : row.copies[u] = old.copies[u]
<1> DEFINE S == DOMAIN old.copies
<1>1. old.copies \in [S -> Copy] /\ S \subseteq Users
  BY DEF Message
<1>2. [old.copies EXCEPT ![user] = copy] \in [S -> Copy]
  BY <1>1
<1>3. row.copies = [old.copies EXCEPT ![user] = copy] /\ row \in Message
  BY <1>1, <1>2 DEF Message
<1> QED
  BY <1>1, <1>3 DEF Message

(* The first read of a copy opens it; a later one, or one of a copy that    *)
(* has been deleted meanwhile, changes nothing.                            *)
LEMMA ReadOpens ==
  ASSUME IInv, NEW m \in Stored, NEW user \in Recipients(m), NEW seen,
         messages' = MarkRead(m, user, seen)
  PROVE  Box' = Box \/ MB!Open(m, user)
<1>1. /\ m \in Ids /\ user \in Users /\ messages[m] \in Message
      /\ user # messages[m].sender /\ messages \in [Ids -> Optional(Message)]
  BY DEF IInv, TypeOK, MessagesOK, MessageOK, Stored, Recipients, Message, Optional
<1>2. messages[m].copies \in [Recipients(m) -> Copy]
  BY <1>1 DEF Message, Recipients
<1>3. PICK old, copy : old = messages[m].copies[user]
                       /\ copy = [old EXCEPT !.read = TRUE, !.authenticity_verified = TRUE]
  OBVIOUS
<1>4. old \in Copy /\ copy \in Copy /\ copy.read /\ copy.deleted = old.deleted
  BY <1>2, <1>3 DEF Copy
<1>5. PICK row : row = [messages[m] EXCEPT !.copies = [messages[m].copies EXCEPT ![user] = copy]]
  OBVIOUS
<1>6. messages' = [messages EXCEPT ![m] = row]
  BY <1>1, <1>2, <1>3, <1>5 DEF MarkRead, Message, Copy
<1>7. /\ row \in Message /\ row.sender = messages[m].sender
      /\ row.deleted_by_sender = messages[m].deleted_by_sender
      /\ DOMAIN row.copies = Recipients(m) /\ row.copies[user] = copy
      /\ \A u \in Recipients(m) \ {user} : row.copies[u] = messages[m].copies[u]
  BY <1>1, <1>4, <1>5, CopyWritten DEF Recipients
<1>8. row # None /\ messages[m] # None
  BY <1>1, <1>7, NoneAssumption
<1>9. Box' = [Box EXCEPT ![m][user] = PartOf(row, user)]
  <2>1. OnlyOf(user, messages[m], row)
    BY <1>7, <1>8 DEF OnlyOf, PartOf, Recipients
  <2> QED
    BY <1>1, <1>6, <2>1, OneState
<1>10. /\ PartOf(messages[m], user) = IF old.deleted THEN "deleted" ELSE IF old.read THEN "read" ELSE "unread"
       /\ PartOf(row, user) = IF old.deleted THEN "deleted" ELSE "read"
  BY <1>1, <1>3, <1>4, <1>7, <1>8 DEF PartOf, Recipients
<1>11. Box[m][user] = PartOf(messages[m], user)
  BY <1>1 DEF Box
<1>12. CASE PartOf(messages[m], user) = "unread"
  BY <1>9, <1>10, <1>11, <1>12, BoxIsState DEF MB!Open
<1>13. CASE PartOf(messages[m], user) # "unread"
  BY <1>1, <1>9, <1>10, <1>13, SamePart
<1> QED
  BY <1>12, <1>13

(* The first deletion of a user's part discards it. *)
LEMMA DeleteDiscards ==
  ASSUME IInv, NEW m \in Stored, NEW user \in {messages[m].sender} \cup Recipients(m),
         messages' = Deleted(m, user)
  PROVE  Box' = Box \/ MB!Discard(m, user)
<1>1. /\ m \in Ids /\ user \in Users /\ messages[m] \in Message
      /\ messages[m].sender \notin Recipients(m) /\ messages \in [Ids -> Optional(Message)]
  BY DEF IInv, TypeOK, MessagesOK, MessageOK, Stored, Recipients, Message, Optional
<1>2. messages[m].copies \in [Recipients(m) -> Copy]
  BY <1>1 DEF Message, Recipients
<1>3. PICK row \in Message :
        /\ messages' = [messages EXCEPT ![m] = row]
        /\ row.sender = messages[m].sender
        /\ row.deleted_by_sender # messages[m].deleted_by_sender => user = messages[m].sender
        /\ DOMAIN row.copies = Recipients(m)
        /\ \A u \in Recipients(m) \ {user} : row.copies[u] = messages[m].copies[u]
        /\ IF messages[m].sender = user THEN row.deleted_by_sender ELSE row.copies[user].deleted
  <2>1. CASE messages[m].sender = user
    <3>1. PICK row : row = [messages[m] EXCEPT !.deleted_by_sender = TRUE]
      OBVIOUS
    <3>2. /\ row \in Message /\ row.sender = messages[m].sender /\ row.deleted_by_sender
          /\ row.copies = messages[m].copies
      BY <1>1, <3>1 DEF Message
    <3>3. messages' = [messages EXCEPT ![m] = row]
      BY <1>1, <2>1, <3>1 DEF Deleted
    <3> QED
      BY <2>1, <3>2, <3>3 DEF Recipients
  <2>2. CASE messages[m].sender # user
    <3>1. PICK copy : copy = [messages[m].copies[user] EXCEPT !.deleted = TRUE]
      OBVIOUS
    <3>2. user \in Recipients(m) /\ copy \in Copy /\ copy.deleted
      BY <1>2, <2>2, <3>1 DEF Copy
    <3>3. PICK row : row = [messages[m] EXCEPT !.copies = [messages[m].copies EXCEPT ![user] = copy]]
      OBVIOUS
    <3>4. messages' = [messages EXCEPT ![m] = row]
      BY <1>1, <1>2, <2>2, <3>1, <3>3 DEF Deleted, Message, Copy
    <3>5. /\ row \in Message /\ row.sender = messages[m].sender
          /\ row.deleted_by_sender = messages[m].deleted_by_sender
          /\ DOMAIN row.copies = Recipients(m) /\ row.copies[user] = copy
          /\ \A u \in Recipients(m) \ {user} : row.copies[u] = messages[m].copies[u]
      BY <1>1, <3>2, <3>3, CopyWritten DEF Recipients
    <3> QED
      BY <2>2, <3>2, <3>4, <3>5
  <2> QED
    BY <2>1, <2>2
<1>4. row # None /\ messages[m] # None
  BY <1>1, <1>3, NoneAssumption
<1>5. Box' = [Box EXCEPT ![m][user] = PartOf(row, user)]
  <2>1. OnlyOf(user, messages[m], row)
    BY <1>3, <1>4 DEF OnlyOf, PartOf, Recipients
  <2>2. messages' = [messages EXCEPT ![m] = row]
    BY <1>3
  <2> QED
    BY <1>1, <2>1, <2>2, OneState
<1>6. PartOf(row, user) = "deleted" /\ PartOf(messages[m], user) \in {"sent", "unread", "read", "deleted"}
  BY <1>1, <1>3, <1>4 DEF PartOf, Recipients
<1>7. Box[m][user] = PartOf(messages[m], user)
  BY <1>1 DEF Box
<1>8. CASE PartOf(messages[m], user) = "deleted"
  BY <1>1, <1>5, <1>6, <1>8, SamePart
<1>9. CASE PartOf(messages[m], user) # "deleted"
  BY <1>5, <1>6, <1>7, <1>9, BoxIsState DEF MB!Discard
<1> QED
  BY <1>8, <1>9

(* Every commit is one step of the mailbox, or none: a message reaches      *)
(* everybody at once, and each copy goes its own way to "deleted".         *)
THEOREM MailboxTheorem == Spec => ImplementsMailbox
<1>1. Init => MB!MInit
  <2> SUFFICES ASSUME Init PROVE MB!MInit
    OBVIOUS
  <2>1. \A m \in Ids, u \in Users : StateOf(m, u) = "absent"
    BY DEF Init, StateOf
  <2> QED
    BY <2>1 DEF MB!MInit
<1>2. IInv /\ [Next]_vars => [MB!MNext]_([m \in Ids |-> [u \in Users |-> StateOf(m, u)]])
  <2> SUFFICES ASSUME IInv, [Next]_vars PROVE MB!MNext \/ Box' = Box
    BY BoxIsState
  <2>1. CASE messages' = messages
    BY <2>1 DEF Box
  <2>2. ASSUME NEW w \in Workers, NEW files \in SUBSET Files, CommitSend(w, files)
        PROVE  MB!MNext
    <3>1. req[w].id \in Ids
      BY <2>2 DEF CommitSend, Starts, IInv, RequestsOK, PlaceOK
    <3> QED
      BY <2>2, <3>1, CommitDelivers DEF MB!MNext
  <2>3. ASSUME NEW w \in Workers, ReadDetail(w) \/ DeleteMessage(w), messages' # messages
        PROVE  MB!MNext \/ Box' = Box
    <3>1. PICK m, user : m = req[w].id /\ user = req[w].user
      OBVIOUS
    <3>2. /\ m \in Stored /\ user \in Users /\ user \in {messages[m].sender} \cup Recipients(m)
          /\ req[w].copy # None => messages[m].sender # user
      BY <2>3, <3>1 DEF ReadDetail, DeleteMessage, IInv, RequestsOK, PlaceOK, LoadedOK, Party,
                        Stored, Recipients
    <3>3. Box' = Box \/ MB!Open(m, user) \/ MB!Discard(m, user)
      BY <2>3, <3>1, <3>2, ReadOpens, DeleteDiscards DEF ReadDetail, DeleteMessage
    <3> QED
      BY <3>2, <3>3 DEF MB!MNext, Stored
  <2> QED
    BY <2>1, <2>2, <2>3 DEF Next, Step, vars, SendRefused, ResolveRecipient, ListInbox, ListSent,
       ShowList, GetMessage, VerifyAuthenticity, DownloadAttachment, Acknowledge, StorageFails,
       Arrive, Deactivate, Crash
<1> QED
  BY <1>1, <1>2, Invariance, PTL DEF Spec, ImplementsMailbox, MB!MSpec
=============================================================================
