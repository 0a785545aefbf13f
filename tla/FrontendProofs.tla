--------------------------- MODULE FrontendProofs ---------------------------
(***************************************************************************)
(* Theorems about the pages: AuthContext for any users, tokens and flows   *)
(* under way, ComposePage for any number of attempts, MessagePage for any  *)
(* messages and calls under way.  The three share no state; each theorem   *)
(* is about one of them.                                                   *)
(***************************************************************************)
EXTENDS AuthContext, ComposePage, MessagePage, TLAPS

-----------------------------------------------------------------------------
(* AuthContext. *)

AuthTypeOK ==
  /\ owner \in [Tokens -> Optional(Users)]
  /\ used \subseteq Tokens
  /\ cookie \in Optional(Tokens)
  /\ flow \in [Flows -> Optional(Call)]
  /\ user \in Optional(Users)

(* Only tokens that were handed out are live, in the browser, in a call.   *)
TokensOK ==
  /\ \A t \in Tokens : owner[t] # None => t \in used
  /\ cookie # None => cookie \in used
  /\ \A f \in Flows : Waiting(f) =>
       flow[f].token \in used \cup {None} /\ flow[f].set \in used \cup {None}

(* A cookie that has not arrived yet is nobody else's. *)
Unset(f) == Waiting(f) /\ flow[f].op = "login" /\ flow[f].answer = "ok" /\ ~flow[f].arrived
SetsOK ==
  \A f \in Flows : Unset(f) =>
    /\ flow[f].set # None /\ flow[f].set # cookie
    /\ \A g \in Flows : Waiting(g) => flow[g].token # flow[f].set
    /\ \A g \in Flows \ {f} : Unset(g) => flow[g].set # flow[f].set

(* A logout is handled whose answer is still to come. *)
Ending(token) == \E f \in Flows : Waiting(f) /\ UntoldLogout(flow[f]) /\ flow[f].token = token

(* What a call tells: only an accepted login sets a cookie; a refused logout *)
(* had no session; and GET /users/me, sent with the cookie of now, names   *)
(* its user, or one who is being logged out.                               *)
CallOK(call) ==
  /\ call.op # "login" => call.set = None
  /\ call.arrived => call.answer \in {"ok", "failed"}
  /\ call.op = "logout" /\ call.answer = "unauthorized" => UserOf(call.token) = None
  /\ call.op = "me" /\ call.answer \in {"ok", "unauthorized"} =>
       /\ call.token = None => call.who = None
       /\ call.token = cookie /\ cookie \notin lapsed =>
            call.who = UserOf(cookie) \/ Ending(cookie)
CallsOK == \A f \in Flows : Waiting(f) => CallOK(flow[f])

(* When the page shows somebody else, it is about to hear of it. *)
Coming(f) == Waiting(f) /\ (flow[f].op = "login" => flow[f].arrived)
WillHear ==
  ~doubt /\ cookie \notin lapsed /\ user # UserOf(cookie) => \E f \in Flows : Coming(f)

AuthIInv == AuthTypeOK /\ TokensOK /\ SetsOK /\ CallsOK /\ WillHear

LEMMA SentIsCall ==
  ASSUME NEW op \in {"me", "login", "logout"}, NEW token \in Optional(Tokens)
  PROVE  /\ Sent(op, token) \in Call
         /\ Sent(op, token).op = op /\ Sent(op, token).token = token
         /\ Sent(op, token).answer = None /\ Sent(op, token).set = None /\ ~Sent(op, token).arrived
BY DEF Sent, Call, Optional

LEMMA AnsweredIsCall ==
  ASSUME AuthTypeOK, NEW f \in Flows, Waiting(f), NEW answer \in Answers,
         NEW who \in Optional(Users), NEW set \in Optional(Tokens), Answered(f, answer, who, set)
  PROVE  \E call \in Call :
           /\ flow' = [flow EXCEPT ![f] = call]
           /\ call.op = flow[f].op /\ call.token = flow[f].token /\ call.arrived = flow[f].arrived
           /\ call.answer = answer /\ call.who = who /\ call.set = set
<1>1. flow[f] \in Call
  BY DEF AuthTypeOK, Waiting, Optional
<1>2. PICK call : call = [flow[f] EXCEPT !.answer = answer, !.who = who, !.set = set]
  OBVIOUS
<1>3. /\ call \in Call
      /\ call.op = flow[f].op /\ call.token = flow[f].token /\ call.arrived = flow[f].arrived
      /\ call.answer = answer /\ call.who = who /\ call.set = set
  BY <1>1, <1>2 DEF Call, Optional
<1>4. flow' = [flow EXCEPT ![f] = call]
  BY <1>1, <1>2 DEF Answered, AuthTypeOK
<1> QED
  BY <1>3, <1>4

(* One flow goes on, or ends, and the others stay as they are.             *)
LEMMA FlowMoves ==
  ASSUME AuthTypeOK, NEW f \in Flows, NEW call \in Optional(Call),
         flow' = [flow EXCEPT ![f] = call]
  PROVE  /\ flow' \in [Flows -> Optional(Call)]
         /\ flow'[f] = call
         /\ \A g \in Flows \ {f} : flow'[g] = flow[g]
BY DEF AuthTypeOK

(* The page has just been opened: the first call is on its way. *)
LEMMA AuthInit == Init => AuthIInv
<1> SUFFICES ASSUME Init PROVE AuthIInv
  OBVIOUS
<1>1. owner \in [Tokens -> Optional(Users)] /\ used \subseteq Tokens /\ cookie \in Optional(Tokens)
  BY DEF Init, Optional
<1>2. PICK call \in Call : call = Sent("me", cookie)
  BY <1>1, SentIsCall
<1>3. call.op = "me" /\ call.token = cookie /\ call.answer = None /\ call.set = None /\ ~call.arrived
  BY <1>1, <1>2, SentIsCall
<1>4. /\ flow \in [Flows -> Optional(Call)]
      /\ flow["mount"] = call /\ \A f \in Flows : Waiting(f) => flow[f] = call
      /\ "mount" \in Flows /\ call # None
  BY <1>2, AuthAssumption DEF Init, Optional, Flows, Waiting
<1>5. AuthTypeOK
  BY <1>1, <1>4 DEF Init, AuthTypeOK, Optional
<1>6. TokensOK
  BY <1>3, <1>4, AuthAssumption DEF Init, TokensOK
<1>7. SetsOK /\ CallsOK
  BY <1>3, <1>4, AuthAssumption DEF SetsOK, Unset, CallsOK, CallOK, Answers
<1>8. WillHear
  BY <1>3, <1>4 DEF WillHear, Coming, Waiting
<1> QED
  BY <1>5, <1>6, <1>7, <1>8 DEF AuthIInv

(* A call is sent with the cookie of now, by a flow that had none, or had   *)
(* one whose cookie has arrived.                                           *)
LEMMA SendIInv ==
  ASSUME AuthIInv, NEW f \in Flows, NEW op \in {"me", "login", "logout"},
         flow' = [flow EXCEPT ![f] = Sent(op, cookie)],
         UNCHANGED <<owner, used, cookie, user, lapsed, doubt>>,
         \/ ~Waiting(f)
         \/ Waiting(f) /\ flow[f].op = "login" /\ flow[f].arrived /\ op = "me"
  PROVE  AuthIInv'
<1>1. PICK call \in Call : call = Sent(op, cookie)
  BY SentIsCall DEF AuthIInv, AuthTypeOK
<1>2. /\ call # None /\ call.op = op /\ call.token = cookie
      /\ call.answer = None /\ call.set = None /\ ~call.arrived
  BY <1>1, SentIsCall, AuthAssumption DEF AuthIInv, AuthTypeOK
<1>3. /\ flow' \in [Flows -> Optional(Call)]
      /\ flow'[f] = call
      /\ \A g \in Flows \ {f} : flow'[g] = flow[g]
  BY <1>1, FlowMoves DEF AuthIInv, Optional
<1>4. AuthTypeOK'
  BY <1>3 DEF AuthIInv, AuthTypeOK
<1>5. TokensOK'
  BY <1>2, <1>3 DEF AuthIInv, TokensOK, Waiting
<1>6. \A g \in Flows : Unset(g)' => g # f /\ Unset(g)
  BY <1>2, <1>3, AuthAssumption DEF Unset, Waiting, Answers
<1>7. SetsOK'
  BY <1>2, <1>3, <1>6 DEF AuthIInv, SetsOK, Waiting
<1>8. Ending(cookie) => Ending(cookie)'
  BY <1>3 DEF Ending, UntoldLogout, Waiting
<1>9. CallsOK'
  BY <1>2, <1>3, <1>8, AuthAssumption DEF AuthIInv, CallsOK, CallOK, UserOf, Waiting, Answers
<1>10. WillHear'
  <2>1. ASSUME NEW g \in Flows, Coming(g) PROVE \E h \in Flows : Coming(h)'
    <3>1. CASE g = f
      BY <1>2, <1>3, <2>1, <3>1 DEF Coming, Waiting
    <3>2. CASE g # f
      BY <1>3, <2>1, <3>2 DEF Coming, Waiting
    <3> QED
      BY <3>1, <3>2
  <2> QED
    BY <2>1 DEF AuthIInv, WillHear, UserOf
<1> QED
  BY <1>4, <1>5, <1>7, <1>9, <1>10 DEF AuthIInv

(* The flow ends, and with it what it had to tell. *)
LEMMA EndIInv ==
  ASSUME AuthIInv, NEW f \in Flows, Waiting(f), Ended(f), ~UntoldLogout(flow[f]),
         UNCHANGED <<owner, used, cookie, lapsed>>,
         user' \in Optional(Users),
         ~doubt' /\ cookie \notin lapsed /\ user' # UserOf(cookie) =>
           \E g \in Flows \ {f} : Coming(g)
  PROVE  AuthIInv'
<1>1. /\ flow' \in [Flows -> Optional(Call)]
      /\ flow'[f] = None
      /\ \A g \in Flows \ {f} : flow'[g] = flow[g]
  BY FlowMoves DEF AuthIInv, Ended, Optional
<1>2. AuthTypeOK'
  BY <1>1 DEF AuthIInv, AuthTypeOK
<1>3. \A g \in Flows : Waiting(g)' => g # f /\ Waiting(g)
  BY <1>1 DEF Waiting
<1>4. TokensOK' /\ SetsOK'
  BY <1>1, <1>3 DEF AuthIInv, TokensOK, SetsOK, Unset
<1>5. Ending(cookie) => Ending(cookie)'
  BY <1>1 DEF Ending, Waiting
<1>6. CallsOK'
  BY <1>1, <1>3, <1>5 DEF AuthIInv, CallsOK, CallOK, UserOf
<1>7. WillHear'
  BY <1>1 DEF WillHear, UserOf, Coming, Waiting
<1> QED
  BY <1>2, <1>4, <1>6, <1>7 DEF AuthIInv

(* No new cookie is on its way, and the calls keep what they were sent with. *)
LEMMA SetsKept ==
  ASSUME SetsOK, cookie' = cookie,
         \A g \in Flows : Unset(g)' => Unset(g) /\ flow'[g] = flow[g],
         \A g \in Flows : Waiting(g)' => Waiting(g) /\ flow'[g].token = flow[g].token
  PROVE  SetsOK'
<1> SUFFICES ASSUME NEW f \in Flows, Unset(f)'
             PROVE  /\ flow'[f].set # None /\ flow'[f].set # cookie'
                    /\ \A g \in Flows : Waiting(g)' => flow'[g].token # flow'[f].set
                    /\ \A g \in Flows \ {f} : Unset(g)' => flow'[g].set # flow'[f].set
  BY DEF SetsOK
<1>1. Unset(f) /\ flow'[f] = flow[f]
  OBVIOUS
<1>2. flow'[f].set # None /\ flow'[f].set # cookie'
  BY <1>1 DEF SetsOK
<1>3. ASSUME NEW g \in Flows, Waiting(g)' PROVE flow'[g].token # flow'[f].set
  BY <1>1, <1>3 DEF SetsOK
<1>4. ASSUME NEW g \in Flows \ {f}, Unset(g)' PROVE flow'[g].set # flow'[f].set
  BY <1>1, <1>4 DEF SetsOK
<1> QED
  BY <1>2, <1>3, <1>4

(* The server's part: the call that waits gets its answer.                 *)
LEMMA HandleIInv ==
  ASSUME AuthIInv, NEW f \in Flows, Handle(f)
  PROVE  AuthIInv'
<1>1. flow[f] \in Call /\ Waiting(f) /\ flow[f].answer = None
  BY DEF Handle, HandleMe, AcceptLogin, RefuseLogin, HandleLogout, Pending, AuthIInv, AuthTypeOK, Waiting, Optional
<1>2. flow[f].token \in Optional(Tokens) /\ None \notin Answers /\ CallOK(flow[f])
  BY <1>1, AuthAssumption DEF Call, AuthIInv, CallsOK
<1>3. ~flow[f].arrived /\ flow[f].token \in used \cup {None}
  BY <1>1, <1>2 DEF CallOK, Answers, AuthIInv, TokensOK
<1>4. ASSUME NEW call \in Call, flow' = [flow EXCEPT ![f] = call],
             call.op = flow[f].op, call.token = flow[f].token, ~call.arrived
      PROVE  /\ flow' \in [Flows -> Optional(Call)]
             /\ flow'[f] = call /\ call # None
             /\ \A g \in Flows \ {f} : flow'[g] = flow[g]
             /\ \A g \in Flows : Waiting(g)' <=> Waiting(g)
             /\ \A g \in Flows : Coming(g) => Coming(g)'
             /\ \A token : Ending(token) => Ending(token)'
  <2>1. /\ flow' \in [Flows -> Optional(Call)]
        /\ flow'[f] = call /\ call # None
        /\ \A g \in Flows \ {f} : flow'[g] = flow[g]
    BY <1>4, FlowMoves, AuthAssumption DEF AuthIInv, Optional
  <2>2. \A g \in Flows : Waiting(g)' <=> Waiting(g)
    BY <1>1, <2>1 DEF Waiting
  <2>3. \A g \in Flows : Coming(g) => Coming(g)'
    BY <1>3, <1>4, <2>1, <2>2 DEF Coming
  <2>4. \A token : Ending(token) => Ending(token)'
    BY <1>1, <1>2, <2>1, <2>2 DEF Ending, UntoldLogout, Answers
  <2> QED
    BY <2>1, <2>2, <2>3, <2>4
<1>5. CASE HandleMe(f)
  <2>1. PICK who : who = UserOf(flow[f].token)
    OBVIOUS
  <2>2. who \in Optional(Users)
    BY <1>2, <2>1 DEF UserOf, AuthIInv, AuthTypeOK, Optional
  <2>3. PICK answer \in Answers : answer = IF who = None THEN "unauthorized" ELSE "ok"
    BY DEF Answers
  <2>4. /\ Answered(f, answer, who, None) /\ flow[f].op = "me"
        /\ UNCHANGED <<owner, used, cookie, user, lapsed, doubt>>
    BY <1>5, <2>1, <2>3 DEF HandleMe, Pending
  <2>5. PICK call \in Call :
          /\ flow' = [flow EXCEPT ![f] = call]
          /\ call.op = flow[f].op /\ call.token = flow[f].token /\ call.arrived = flow[f].arrived
          /\ call.answer = answer /\ call.who = who /\ call.set = None
    BY <1>1, <2>2, <2>4, AnsweredIsCall DEF AuthIInv, Optional
  <2>6. AuthTypeOK' /\ TokensOK'
    BY <1>3, <1>4, <2>4, <2>5 DEF AuthIInv, AuthTypeOK, TokensOK
  <2>7. SetsOK'
    <3>1. \A g \in Flows : Unset(g)' => Unset(g) /\ flow'[g] = flow[g]
      BY <1>3, <1>4, <2>4, <2>5 DEF Unset
    <3>2. \A g \in Flows : Waiting(g)' => Waiting(g) /\ flow'[g].token = flow[g].token
      BY <1>3, <1>4, <2>4, <2>5
    <3> QED
      BY <2>4, <2>5, <3>1, <3>2, SetsKept DEF AuthIInv
  <2>8. CallOK(call)'
    BY <1>3, <2>1, <2>4, <2>5 DEF CallOK, UserOf
  <2>9. CallsOK'
    BY <1>3, <1>4, <2>4, <2>5, <2>8 DEF AuthIInv, CallsOK, CallOK, UserOf
  <2>10. WillHear'
    BY <1>3, <1>4, <2>4, <2>5 DEF AuthIInv, WillHear, UserOf
  <2> QED
    BY <2>6, <2>7, <2>9, <2>10 DEF AuthIInv
<1>6. ASSUME NEW u \in Users, NEW t \in Tokens, AcceptLogin(f, u, t)
      PROVE  AuthIInv'
  <2>1. /\ Answered(f, "ok", None, t) /\ flow[f].op = "login" /\ UNCHANGED <<cookie, user, lapsed, doubt>>
        /\ t \notin used /\ used' = used \cup {t} /\ owner' = [owner EXCEPT ![t] = u]
    BY <1>6 DEF AcceptLogin, Pending
  <2>2. PICK call \in Call :
          /\ flow' = [flow EXCEPT ![f] = call]
          /\ call.op = flow[f].op /\ call.token = flow[f].token /\ call.arrived = flow[f].arrived
          /\ call.answer = "ok" /\ call.set = t
    BY <1>1, <2>1, AnsweredIsCall DEF AuthIInv, Optional, Answers
  <2>3. /\ owner' \in [Tokens -> Optional(Users)]
        /\ \A x \in used \cup {None} : UserOf(x)' = UserOf(x)
    BY <2>1 DEF AuthIInv, AuthTypeOK, Optional, UserOf
  <2>4. AuthTypeOK'
    BY <1>3, <1>4, <2>1, <2>2, <2>3 DEF AuthIInv, AuthTypeOK
  <2>5. TokensOK'
    BY <1>3, <1>4, <2>1, <2>2 DEF AuthIInv, AuthTypeOK, TokensOK
  <2>6. SetsOK'
    <3>1. \A g \in Flows \ {f} : Unset(g)' <=> Unset(g)
      BY <1>3, <1>4, <2>2 DEF Unset
    <3>2. /\ t # None /\ t # cookie
          /\ \A g \in Flows : Waiting(g) => flow[g].token # t
          /\ \A g \in Flows : Unset(g) => flow[g].set # t
      BY <2>1, AuthAssumption DEF AuthIInv, TokensOK, Unset, SetsOK
    <3>3. \A g \in Flows : flow'[g].token = flow[g].token
      BY <1>3, <1>4, <2>2
    <3>4. ASSUME NEW g \in Flows, Unset(g)' PROVE
            /\ flow'[g].set # None /\ flow'[g].set # cookie
            /\ \A h \in Flows : Waiting(h)' => flow'[h].token # flow'[g].set
            /\ \A h \in Flows \ {g} : Unset(h)' => flow'[h].set # flow'[g].set
      <4>0. \A h \in Flows : Waiting(h)' => flow'[h].token # t
        BY <1>3, <1>4, <2>2, <3>2, <3>3
      <4>1. CASE g = f
        <5>1. flow'[g].set = t
          BY <1>3, <1>4, <2>2, <4>1
        <5>2. \A h \in Flows \ {g} : Unset(h)' => flow'[h].set # flow'[g].set
          BY <1>3, <1>4, <2>2, <3>1, <3>2, <4>1, <5>1
        <5> QED
          BY <3>2, <4>0, <5>1, <5>2
      <4>2. CASE g # f
        <5>1. flow'[g] = flow[g] /\ Unset(g)
          BY <1>3, <1>4, <2>2, <3>1, <3>4, <4>2
        <5>2. \A h \in Flows \ {g} : Unset(h)' => flow'[h].set # flow'[g].set
          BY <1>3, <1>4, <2>2, <3>1, <3>2, <5>1 DEF AuthIInv, SetsOK
        <5>3. flow[g].set # None /\ flow[g].set # cookie
          BY <5>1 DEF AuthIInv, SetsOK
        <5>4. \A h \in Flows : Waiting(h)' => flow'[h].token # flow'[g].set
          <6>1. \A h \in Flows : Waiting(h)' <=> Waiting(h)
            BY <1>3, <1>4, <2>2
          <6>2. \A h \in Flows : Waiting(h) => flow[h].token # flow[g].set
            BY <5>1 DEF AuthIInv, SetsOK
          <6> QED
            BY <3>3, <5>1, <6>1, <6>2
        <5> QED
          BY <5>1, <5>2, <5>3, <5>4
      <4> QED
        BY <4>1, <4>2
    <3> QED
      BY <2>1, <3>4 DEF SetsOK
  <2>7. CallsOK'
    <3>1. CallOK(call)'
      BY <1>3, <2>1, <2>2 DEF CallOK
    <3>2. ASSUME NEW g \in Flows \ {f}, Waiting(g)' PROVE CallOK(flow[g])'
      <4>1. Waiting(g) /\ flow'[g] = flow[g] /\ flow[g].token \in used \cup {None} /\ cookie \in used \cup {None}
        BY <1>3, <1>4, <2>2, <3>2 DEF AuthIInv, TokensOK
      <4>2. UserOf(flow[g].token)' = UserOf(flow[g].token) /\ UserOf(cookie)' = UserOf(cookie)
        BY <2>1, <2>3, <4>1 DEF UserOf
      <4>3. Ending(cookie) => Ending(cookie)'
        BY <1>3, <1>4, <2>1, <2>2 DEF Ending
      <4> QED
        BY <2>1, <4>1, <4>2, <4>3 DEF AuthIInv, CallsOK, CallOK
    <3> QED
      BY <1>3, <1>4, <2>2, <3>1, <3>2 DEF CallsOK
  <2>8. WillHear'
    <3>1. UserOf(cookie)' = UserOf(cookie)
      BY <2>1, <2>3 DEF AuthIInv, TokensOK, UserOf
    <3> QED
      BY <1>3, <1>4, <2>1, <2>2, <3>1 DEF AuthIInv, WillHear
  <2> QED
    BY <2>4, <2>5, <2>6, <2>7, <2>8 DEF AuthIInv
<1>7. CASE RefuseLogin(f)
  <2>1. Answered(f, "unauthorized", None, None) /\ flow[f].op = "login"
        /\ UNCHANGED <<owner, used, cookie, user, lapsed, doubt>>
    BY <1>7 DEF RefuseLogin, Pending
  <2>2. PICK call \in Call :
          /\ flow' = [flow EXCEPT ![f] = call]
          /\ call.op = flow[f].op /\ call.token = flow[f].token /\ call.arrived = flow[f].arrived
          /\ call.answer = "unauthorized" /\ call.set = None
    BY <1>1, <2>1, AnsweredIsCall DEF AuthIInv, Optional, Answers
  <2>3. AuthTypeOK' /\ TokensOK'
    BY <1>3, <1>4, <2>1, <2>2 DEF AuthIInv, AuthTypeOK, TokensOK
  <2>4. SetsOK'
    <3>1. \A g \in Flows : Unset(g)' => Unset(g) /\ flow'[g] = flow[g]
      BY <1>3, <1>4, <2>1, <2>2 DEF Unset
    <3>2. \A g \in Flows : Waiting(g)' => Waiting(g) /\ flow'[g].token = flow[g].token
      BY <1>3, <1>4, <2>1, <2>2
    <3> QED
      BY <2>1, <2>2, <3>1, <3>2, SetsKept DEF AuthIInv
  <2>5. CallsOK'
    BY <1>3, <1>4, <2>1, <2>2 DEF AuthIInv, CallsOK, CallOK, UserOf
  <2>6. WillHear'
    BY <1>3, <1>4, <2>1, <2>2 DEF AuthIInv, WillHear, UserOf
  <2> QED
    BY <2>3, <2>4, <2>5, <2>6 DEF AuthIInv
<1>8. CASE HandleLogout(f)
  <2>1. flow[f].op = "logout" /\ UNCHANGED <<used, cookie, user, lapsed, doubt>>
    BY <1>8 DEF HandleLogout, Pending
  <2>2. PICK answer \in Answers :
          /\ Answered(f, answer, None, None)
          /\ answer \in {"ok", "unauthorized"}
          /\ answer = "unauthorized" => UserOf(flow[f].token) = None /\ UNCHANGED owner
          /\ answer = "ok" => UserOf(flow[f].token) # None /\ owner' = [owner EXCEPT ![flow[f].token] = None]
    BY <1>8 DEF HandleLogout, Answers
  <2>3. PICK call \in Call :
          /\ flow' = [flow EXCEPT ![f] = call]
          /\ call.op = flow[f].op /\ call.token = flow[f].token /\ call.arrived = flow[f].arrived
          /\ call.answer = answer /\ call.set = None
    BY <1>1, <2>1, <2>2, AnsweredIsCall DEF AuthIInv, Optional
  <2>4. /\ owner' \in [Tokens -> Optional(Users)]
        /\ \A t \in Tokens : owner'[t] # None => owner'[t] = owner[t]
        /\ \A t \in Tokens : owner'[t] # owner[t] => t = flow[f].token /\ answer = "ok"
    BY <1>2, <2>2 DEF AuthIInv, AuthTypeOK, Optional
  <2>5. AuthTypeOK' /\ TokensOK'
    BY <1>3, <1>4, <2>1, <2>3, <2>4 DEF AuthIInv, AuthTypeOK, TokensOK
  <2>6. SetsOK'
    <3>1. \A g \in Flows : Unset(g)' => Unset(g) /\ flow'[g] = flow[g]
      BY <1>3, <1>4, <2>1, <2>3 DEF Unset
    <3>2. \A g \in Flows : Waiting(g)' => Waiting(g) /\ flow'[g].token = flow[g].token
      BY <1>3, <1>4, <2>1, <2>3
    <3> QED
      BY <2>1, <2>3, <3>1, <3>2, SetsKept DEF AuthIInv
  <2>7. UserOf(cookie)' # UserOf(cookie) => Ending(cookie)'
    <3> SUFFICES ASSUME UserOf(cookie)' # UserOf(cookie) PROVE Ending(cookie)'
      OBVIOUS
    <3>1. cookie = flow[f].token /\ answer = "ok"
      BY <2>1, <2>4 DEF UserOf, AuthIInv, AuthTypeOK, Optional
    <3>2. Waiting(f)' /\ flow'[f] = call /\ cookie' = cookie
      BY <1>1, <1>3, <1>4, <2>1, <2>3
    <3>3. UntoldLogout(call) /\ call.token = cookie'
      BY <1>3, <2>1, <2>3, <3>1, <3>2 DEF UntoldLogout
    <3> QED
      BY <3>2, <3>3 DEF Ending, UntoldLogout
  <2>8. \A x \in Optional(Tokens) : UserOf(x) = None => UserOf(x)' = None
    BY <2>4 DEF UserOf, Optional
  <2>9. CallsOK'
    <3>1. CallOK(call)'
      BY <1>2, <1>3, <2>1, <2>2, <2>3, <2>8 DEF CallOK
    <3>2. ASSUME NEW g \in Flows \ {f}, Waiting(g)' PROVE CallOK(flow[g])'
      <4>1. Waiting(g) /\ flow'[g] = flow[g] /\ flow[g] \in Call
        BY <1>3, <1>4, <2>3, <3>2 DEF AuthIInv, AuthTypeOK, Optional, Waiting
      <4>2. flow[g].token \in Optional(Tokens) /\ CallOK(flow[g])
        BY <4>1 DEF Call, AuthIInv, CallsOK
      <4>3. Ending(cookie) => Ending(cookie)'
        BY <1>3, <1>4, <2>1, <2>3 DEF Ending
      <4> QED
        BY <2>1, <2>7, <2>8, <4>1, <4>2, <4>3 DEF CallOK
    <3> QED
      BY <1>3, <1>4, <2>3, <3>1, <3>2 DEF CallsOK
  <2>10. WillHear'
    <3>1. Coming(f)'
      BY <1>1, <1>3, <1>4, <2>1, <2>3 DEF Coming
    <3> QED
      BY <3>1 DEF WillHear
  <2> QED
    BY <2>5, <2>6, <2>9, <2>10 DEF AuthIInv
<1> QED
  BY <1>5, <1>6, <1>7, <1>8 DEF Handle

(* A cookie arrives: no answer is about it yet, and the page is to go on.   *)
LEMMA ArriveIInv ==
  ASSUME AuthIInv, NEW f \in Flows, Arrive(f)
  PROVE  AuthIInv'
<1>1. /\ flow[f] \in Call /\ Waiting(f) /\ flow[f].op # "me" /\ flow[f].answer = "ok" /\ ~flow[f].arrived
      /\ cookie' = flow[f].set /\ UNCHANGED <<owner, used, user, lapsed, doubt>>
  BY DEF Arrive, AuthIInv, AuthTypeOK, Waiting, Optional
<1>2. PICK call : call = [flow[f] EXCEPT !.arrived = TRUE]
  OBVIOUS
<1>3. /\ call \in Call /\ call.arrived
      /\ call.op = flow[f].op /\ call.token = flow[f].token /\ call.answer = "ok" /\ call.set = flow[f].set
  BY <1>1, <1>2 DEF Call, Optional
<1>4. flow' = [flow EXCEPT ![f] = call]
  BY <1>1, <1>2 DEF Arrive, AuthIInv, AuthTypeOK
<1>5. /\ flow' \in [Flows -> Optional(Call)]
      /\ flow'[f] = call /\ call # None
      /\ \A g \in Flows \ {f} : flow'[g] = flow[g]
  BY <1>3, <1>4, FlowMoves, AuthAssumption DEF AuthIInv, Optional
<1>6. flow[f].set \in Optional(Tokens) /\ flow[f].set \in used \cup {None}
  BY <1>1 DEF Call, AuthIInv, TokensOK
<1>7. AuthTypeOK' /\ TokensOK'
  BY <1>1, <1>3, <1>5, <1>6 DEF AuthIInv, AuthTypeOK, TokensOK, Waiting
<1>8. \A g \in Flows : Unset(g)' => g # f /\ Unset(g)
  BY <1>3, <1>5 DEF Unset, Waiting
<1>9. flow[f].op = "login" => Unset(f)
  BY <1>1 DEF Unset
<1>10. flow[f].op # "login" => flow[f].set = None
  BY <1>1 DEF AuthIInv, CallsOK, CallOK
<1>11. SetsOK'
  BY <1>1, <1>3, <1>5, <1>8, <1>9, <1>10 DEF AuthIInv, SetsOK, Waiting
<1>12. CallsOK'
  <2>1. CallOK(call)'
    BY <1>1, <1>3, <1>10, AuthAssumption DEF CallOK
  <2>2. ASSUME NEW g \in Flows \ {f}, Waiting(g)' PROVE CallOK(flow[g])'
    <3>1. Waiting(g) /\ flow'[g] = flow[g] /\ CallOK(flow[g])
      BY <1>5, <2>2 DEF Waiting, AuthIInv, CallsOK
    <3>2. flow[g].token # cookie' \/ cookie' = None
      BY <1>1, <1>9, <1>10, <3>1 DEF AuthIInv, SetsOK
    <3>3. cookie' = None => UserOf(cookie)' = None
      BY DEF UserOf
    <3>4. UserOf(flow[g].token)' = UserOf(flow[g].token)
      BY <1>1, <3>1 DEF UserOf
    <3> QED
      BY <3>1, <3>2, <3>3, <3>4 DEF CallOK
  <2> QED
    BY <1>5, <2>1, <2>2 DEF CallsOK
<1>13. WillHear'
  BY <1>3, <1>5 DEF WillHear, Coming, Waiting
<1> QED
  BY <1>7, <1>11, <1>12, <1>13 DEF AuthIInv

(* Nothing more is heard of a call; a session it has ended has lapsed.      *)
LEMMA FailIInv ==
  ASSUME AuthIInv, NEW f \in Flows, Fail(f)
  PROVE  AuthIInv'
<1>1. /\ flow[f] \in Call /\ Waiting(f) /\ UNCHANGED <<owner, used, cookie, user, doubt>>
      /\ lapsed' = IF UntoldLogout(flow[f]) THEN lapsed \cup {flow[f].token} ELSE lapsed
      /\ flow' = [flow EXCEPT ![f] = Unanswered(flow[f])]
  BY DEF Fail, AuthIInv, AuthTypeOK, Waiting, Optional
<1>2. PICK call : call = Unanswered(flow[f])
  OBVIOUS
<1>3. /\ call \in Call /\ call.op = flow[f].op /\ call.arrived = flow[f].arrived
      /\ call.token = None /\ call.answer = "failed" /\ call.set = None
  BY <1>1, <1>2 DEF Unanswered, Sent, Call, Optional, Answers
<1>4. /\ flow' \in [Flows -> Optional(Call)]
      /\ flow'[f] = call /\ call # None
      /\ \A g \in Flows \ {f} : flow'[g] = flow[g]
  BY <1>1, <1>2, <1>3, FlowMoves, AuthAssumption DEF AuthIInv, Optional
<1>5. AuthTypeOK' /\ TokensOK'
  BY <1>1, <1>3, <1>4 DEF AuthIInv, AuthTypeOK, TokensOK, Waiting
<1>6. \A g \in Flows : Unset(g)' => g # f /\ Unset(g)
  BY <1>3, <1>4 DEF Unset, Waiting
<1>7. SetsOK'
  BY <1>1, <1>3, <1>4, <1>6 DEF AuthIInv, SetsOK, Waiting
<1>8. Ending(cookie) /\ cookie \notin lapsed' => Ending(cookie)'
  BY <1>1, <1>4 DEF Ending, Waiting
<1>9. CallsOK'
  <2>1. CallOK(call)'
    BY <1>3, AuthAssumption DEF CallOK
  <2>2. lapsed \subseteq lapsed'
    BY <1>1
  <2> QED
    BY <1>1, <1>4, <1>8, <2>1, <2>2 DEF AuthIInv, CallsOK, CallOK, UserOf, Waiting
<1>10. WillHear'
  <2>1. \A g \in Flows : Coming(g) => Coming(g)'
    BY <1>1, <1>3, <1>4 DEF Coming, Waiting
  <2> QED
    BY <1>1, <2>1 DEF AuthIInv, WillHear, UserOf
<1> QED
  BY <1>5, <1>7, <1>9, <1>10 DEF AuthIInv

(* The page's part: the flow ends, or goes on with GET /users/me.          *)
LEMMA ReceiveIInv ==
  ASSUME AuthIInv, NEW f \in Flows, Receive(f)
  PROVE  AuthIInv'
<1>1. flow[f] \in Call /\ Waiting(f) /\ flow[f].answer # None /\ CallOK(flow[f])
  BY AuthAssumption
     DEF Receive, Arrive, ReceiveMe, ReceiveLogin, ReceiveLogout, Has, AuthIInv, AuthTypeOK, CallsOK, Waiting, Optional, Answers
<1>2. flow[f].answer \in Answers /\ flow[f].who \in Optional(Users)
  BY <1>1 DEF Call, Optional
<1>3. CASE ReceiveMe(f)
  <2>1. /\ flow[f].op = "me" /\ Ended(f) /\ UNCHANGED <<owner, used, cookie, lapsed>>
        /\ user' = IF Broken(f) THEN user ELSE flow[f].who
        /\ doubt' = (Broken(f) \/ flow[f].token # cookie)
    BY <1>3 DEF ReceiveMe, RefreshMe, Has
  <2>2. user' \in Optional(Users)
    BY <1>2, <2>1 DEF AuthIInv, AuthTypeOK
  <2>3. ASSUME ~doubt', cookie \notin lapsed, user' # UserOf(cookie)
        PROVE  \E g \in Flows \ {f} : Coming(g)
    <3>1. Ending(cookie)
      BY <1>1, <1>2, <2>1, <2>3 DEF CallOK, Answers, Broken
    <3> QED
      BY <2>1, <3>1 DEF Ending, UntoldLogout, Coming
  <2>4. ~UntoldLogout(flow[f])
    BY <2>1 DEF UntoldLogout
  <2> QED
    BY <1>1, <2>1, <2>2, <2>3, <2>4, EndIInv
<1>4. CASE ReceiveLogin(f) /\ flow[f].answer = "ok"
  <2>1. /\ flow[f].op = "login" /\ flow[f].arrived /\ flow' = [flow EXCEPT ![f] = Sent("me", cookie)]
        /\ UNCHANGED <<owner, used, cookie, user, lapsed, doubt>>
    BY <1>4 DEF ReceiveLogin, Has
  <2> QED
    BY <1>1, <2>1, SendIInv
<1>5. CASE ReceiveLogin(f) /\ flow[f].answer # "ok"
  <2>1. /\ flow[f].op = "login" /\ Ended(f) /\ UNCHANGED <<owner, used, cookie, user, lapsed>>
        /\ doubt' = (doubt \/ (Broken(f) /\ flow[f].arrived))
    BY <1>5 DEF ReceiveLogin, Has
  <2>2. ASSUME ~doubt', cookie \notin lapsed, user' # UserOf(cookie)
        PROVE  \E g \in Flows \ {f} : Coming(g)
    <3>1. PICK g \in Flows : Coming(g)
      BY <2>1, <2>2 DEF AuthIInv, WillHear
    <3>2. ~flow[f].arrived
      BY <1>1, <1>5, <2>1, <2>2 DEF CallOK, Broken
    <3> QED
      BY <2>1, <3>1, <3>2 DEF Coming
  <2>3. ~UntoldLogout(flow[f]) /\ user' \in Optional(Users)
    BY <2>1 DEF UntoldLogout, AuthIInv, AuthTypeOK
  <2> QED
    BY <1>1, <2>1, <2>2, <2>3, EndIInv
<1>6. CASE ReceiveLogout(f)
  <2>1. /\ flow[f].op = "logout" /\ Ended(f) /\ UNCHANGED <<owner, used, cookie, lapsed>>
        /\ user' = None /\ (flow[f].answer = "ok" => flow[f].arrived)
        /\ doubt' = (cookie # IF flow[f].answer = "unauthorized" THEN flow[f].token ELSE None)
    BY <1>6 DEF ReceiveLogout, Has
  <2>2. ~doubt' => UserOf(cookie) = None
    BY <1>1, <2>1 DEF CallOK, UserOf
  <2>3. ~UntoldLogout(flow[f]) /\ user' \in Optional(Users)
    BY <2>1 DEF UntoldLogout, Optional
  <2> QED
    BY <1>1, <2>1, <2>2, <2>3, EndIInv
<1> QED
  BY <1>3, <1>4, <1>5, <1>6, ArriveIInv DEF Receive

LEMMA AuthNext ==
  ASSUME AuthIInv, [Next]_vars
  PROVE  AuthIInv'
<1>1. ASSUME NEW f \in Logins, SubmitLogin(f) PROVE AuthIInv'
  BY <1>1, SendIInv DEF SubmitLogin, Begin, Flows
<1>2. ASSUME NEW f \in Logouts, ClickLogout(f) PROVE AuthIInv'
  BY <1>2, SendIInv DEF ClickLogout, Begin, Flows
<1>3. ASSUME NEW f \in Flows, Handle(f) \/ Receive(f) \/ Fail(f) PROVE AuthIInv'
  BY <1>3, HandleIInv, ReceiveIInv, FailIInv
<1>4. ASSUME NEW t \in Tokens, Expire(t) PROVE AuthIInv'
  <2>1. /\ owner' \in [Tokens -> Optional(Users)] /\ lapsed' = lapsed \cup {t}
        /\ owner' = [owner EXCEPT ![t] = None]
        /\ UNCHANGED <<used, cookie, flow, user, doubt>>
    BY <1>4 DEF Expire, AuthIInv, AuthTypeOK, Optional
  <2>2. AuthTypeOK' /\ TokensOK' /\ SetsOK'
    BY <2>1 DEF AuthIInv, AuthTypeOK, TokensOK, SetsOK, Unset, Waiting
  <2>3. \A x \in Optional(Tokens) : UserOf(x)' = UserOf(x) \/ (x = t /\ UserOf(x)' = None)
    BY <2>1 DEF UserOf, AuthIInv, AuthTypeOK, Optional
  <2>4. UserOf(cookie)' = UserOf(cookie) \/ cookie \in lapsed'
    BY <2>1, <2>3 DEF AuthIInv, AuthTypeOK, UserOf
  <2>5. CallsOK'
    <3>1. ASSUME NEW f \in Flows, Waiting(f)' PROVE CallOK(flow[f])'
      <4>1. Waiting(f) /\ flow'[f] = flow[f] /\ CallOK(flow[f]) /\ flow[f] \in Call
        BY <2>1, <3>1 DEF Waiting, AuthIInv, CallsOK, AuthTypeOK, Optional
      <4>2. flow[f].token \in Optional(Tokens)
        BY <4>1 DEF Call
      <4>3. UserOf(flow[f].token) = None => UserOf(flow[f].token)' = None
        BY <2>1, <2>3, <4>2 DEF UserOf
      <4>4. Ending(cookie) => Ending(cookie)'
        BY <2>1 DEF Ending, Waiting
      <4> QED
        BY <2>1, <2>4, <4>1, <4>3, <4>4 DEF CallOK
    <3> QED
      BY <3>1 DEF CallsOK
  <2>6. WillHear'
    BY <2>1, <2>4 DEF AuthIInv, WillHear, Coming, Waiting
  <2> QED
    BY <2>2, <2>5, <2>6 DEF AuthIInv
<1>5. CASE UNCHANGED vars
  BY <1>5 DEF vars, AuthIInv, AuthTypeOK, TokensOK, SetsOK, Unset, CallsOK, CallOK, Ending, WillHear, Coming,
              UserOf, Waiting
<1> QED
  BY <1>1, <1>2, <1>3, <1>4, <1>5 DEF Next

(* At rest the page shows whom its cookie stands for, whatever logins,      *)
(* logouts and answers have overtaken each other, unless what it heard     *)
(* last failed or was about a cookie since replaced, or the session ended  *)
(* without its being told (refreshMe and logout of AuthContext.tsx,        *)
(* LoginPage and TwoFaPage).                                               *)
THEOREM SessionTheorem == Spec => []ShowsSessionUser
<1>1. AuthIInv => ShowsSessionUser
  BY DEF AuthIInv, WillHear, Coming, ShowsSessionUser
<1> QED
  BY <1>1, AuthInit, AuthNext, PTL DEF Spec

-----------------------------------------------------------------------------
(* MessagePage: the load begun last asks for the id in the address; and     *)
(* once it has ended, unless an older one ended after it, its message is   *)
(* shown, or an error.                                                     *)
PageIInv ==
  /\ id \in Ids \cup {None}
  /\ loads \in [Calls -> Optional(Asked)]
  /\ id # None /\ newest \in Calls /\ loads[newest] # None => loads[newest].id = id
  /\ ShownIsNamed

LEMMA PageInitIInv == PageInit => PageIInv
BY DEF PageInit, NoCalls, PageIInv, ShownIsNamed, Optional

LEMMA PageNextIInv ==
  ASSUME PageIInv, [PageNext]_pagevars
  PROVE  PageIInv'
<1> USE DEF PageIInv, ShownIsNamed
<1>1. ASSUME NEW c \in Calls, NEW m \in Ids, Load(c, m)
      PROVE  /\ loads' \in [Calls -> Optional(Asked)]
             /\ newest' = c /\ loads'[c] # None => loads'[c].id = m
             /\ pageLoading'
  BY <1>1, PageAssumption DEF Load, Asked, Optional
<1>2. ASSUME NEW c \in Calls, NEW m \in Ids, Open(c, m) \/ Step(c, m) PROVE PageIInv'
  BY <1>1, <1>2 DEF Open, Step, Load
<1>3. ASSUME NEW c \in Calls, LoadHandled(c) PROVE PageIInv'
  <2>1. loads[c] \in Asked /\ loads' = [loads EXCEPT ![c].found = TRUE]
    BY <1>3 DEF LoadHandled, Optional
  <2>2. PICK asked : asked = [loads[c] EXCEPT !.found = TRUE]
    OBVIOUS
  <2>3. asked \in Asked /\ asked.id = loads[c].id /\ loads' = [loads EXCEPT ![c] = asked]
    BY <2>1, <2>2 DEF Asked
  <2>4. loads' \in [Calls -> Optional(Asked)]
    BY <2>3 DEF Optional
  <2>5. loads'[c] = asked /\ \A d \in Calls \ {c} : loads'[d] = loads[d]
    BY <2>3
  <2> QED
    BY <1>3, <2>3, <2>4, <2>5 DEF LoadHandled
<1>4. ASSUME NEW c \in Calls, LoadAnswered(c) PROVE PageIInv'
  <2>1. loads' \in [Calls -> Optional(Asked)] /\ loads'[c] = None /\ \A d \in Calls \ {c} : loads'[d] = loads[d]
    BY <1>4 DEF LoadAnswered, Optional
  <2> QED
    BY <1>4, <2>1 DEF LoadAnswered
<1>5. ASSUME NEW c \in Calls, LoadFailed(c) PROVE PageIInv'
  <2>1. loads' \in [Calls -> Optional(Asked)] /\ loads'[c] = None /\ \A d \in Calls \ {c} : loads'[d] = loads[d]
    BY <1>5 DEF LoadFailed, Optional
  <2> QED
    BY <1>5, <2>1 DEF LoadFailed, ShowError
<1>6. ASSUME NEW c \in Calls, OnDelete(c) \/ DeleteHandled(c) PROVE PageIInv'
  BY <1>6 DEF OnDelete, DeleteHandled
<1>7. ASSUME NEW c \in Calls, DeleteFailed(c) PROVE PageIInv'
  BY <1>7 DEF DeleteFailed
<1>8. CASE Leave /\ UNCHANGED live
  BY <1>8 DEF Leave, NoCalls, Optional
<1>9. CASE UNCHANGED pagevars
  BY <1>9 DEF pagevars
<1> QED
  BY <1>2, <1>3, <1>4, <1>5, <1>6, <1>7, <1>8, <1>9 DEF PageNext, Deleted, GoElsewhere

(* The page at rest shows the message its address names, the one Delete     *)
(* would delete, or an error, unless the load that ended last had been     *)
(* overtaken by a newer one (load and the effect that calls it in          *)
(* MessagePage.tsx).                                                       *)
THEOREM ShownTheorem == PageSpec => []ShownIsNamed
<1>1. PageIInv => ShownIsNamed
  BY DEF PageIInv
<1> QED
  BY <1>1, PageInitIInv, PageNextIInv, PTL DEF PageSpec

-----------------------------------------------------------------------------
(* ComposePage: one attempt at a time, none after the page has been left;   *)
(* what the page was told of an attempt is what has become of it.          *)
FormIInv ==
  /\ awaiting \subseteq Attempts /\ stored \subseteq Attempts
  /\ DOMAIN attempt = Attempts /\ DOMAIN told = Attempts
  /\ \A i, j \in awaiting : i = j
  /\ page # "open" => awaiting = {}
  /\ \A i, j \in Attempts : told[i] = "ok" => page # "open" /\ (told[j] = "ok" => i = j)
  /\ \A i \in Attempts :
       /\ attempt[i] \in {"unsent", "sent", "refused"} => i \notin stored
       /\ told[i] = "rejected" => attempt[i] = "refused"

LEMMA FormInit == ComposeInit => FormIInv
BY DEF ComposeInit, Attempts, FormIInv

LEMMA FormNext ==
  ASSUME FormIInv, [ComposeNext]_composevars
  PROVE  FormIInv'
<1> USE DEF FormIInv
<1>1. ASSUME NEW i \in Attempts, Submit(i) PROVE FormIInv'
  BY <1>1 DEF Submit, Enabled
<1>2. ASSUME NEW i \in Attempts, Store(i) PROVE FormIInv'
  BY <1>2 DEF Store
<1>3. ASSUME NEW i \in Attempts, Refuse(i) \/ Break(i) PROVE FormIInv'
  BY <1>3 DEF Refuse, Break
<1>4. ASSUME NEW i \in Attempts, Accepted(i) PROVE FormIInv'
  BY <1>4 DEF Accepted, Settle
<1>5. ASSUME NEW i \in Attempts, Rejected(i) PROVE FormIInv'
  BY <1>5 DEF Rejected, Settle
<1>6. ASSUME NEW i \in Attempts, Failed(i) \/ Lose(i) PROVE FormIInv'
  BY <1>6 DEF Failed, Lose, Settle
<1>7. CASE UNCHANGED composevars
  BY <1>7 DEF composevars
<1> QED
  BY <1>1, <1>2, <1>3, <1>4, <1>5, <1>6, <1>7 DEF ComposeNext

(* However often the form is sent again, at most one of the copies was      *)
(* reported as sent and none as refused (handleSubmit of ComposePage.tsx). *)
THEOREM CopiesTheorem == ComposeSpec => []CopiesExcused
<1>1. FormIInv => CopiesExcused
  BY DEF FormIInv, CopiesExcused
<1> QED
  BY <1>1, FormInit, FormNext, PTL DEF ComposeSpec
=============================================================================
