------------------------- MODULE RegistrationProofs -------------------------
(***************************************************************************)
(* The directory of accounts for any number of concurrent registrations,   *)
(* e-mails in any number of spellings, and any limit.                      *)
(***************************************************************************)
EXTENDS Registration, FiniteSetTheorems, TLAPS

-----------------------------------------------------------------------------
(* The inductive invariant. *)

Account == [id : Ids, email : Emails, username : Usernames]

(* Each column of the table tells its rows apart. *)
TableOK ==
  /\ accounts \subseteq Account
  /\ \A a, b \in accounts :
       a.id = b.id \/ a.email = b.email \/ a.username = b.username => a = b

Request == [at : {"idle", "start", "free", "done"}, email : Optional(Spellings),
            username : Optional(Usernames), id : Optional(Ids)]

(* A registration has what it was sent; one that has committed, its row. *)
RequestOK(r, table) ==
  /\ r \in Request
  /\ r.at # "idle" => r.email \in Spellings /\ r.username \in Usernames
  /\ r.at = "done" => r.id \in Ids /\ NewUser(r.id, r.email, r.username) \in table
RequestsOK == \A w \in Workers : RequestOK(req[w], accounts)

(* An acknowledged registration has its row. *)
KnownOK ==
  \A k \in known :
    /\ k.email \in Spellings /\ k.username \in Usernames
    /\ NewUser(k.id, k.email, k.username) \in accounts

IInv ==
  /\ DOMAIN req = Workers
  /\ TableOK
  /\ RequestsOK
  /\ KnownOK

-----------------------------------------------------------------------------
(* Every step keeps it. *)

LEMMA InitIInv == Init => IInv
BY DEF Init, IInv, TableOK, RequestsOK, RequestOK, KnownOK, Idle, Request, Optional

(* While the table only grows, replacing one request by a sound one keeps   *)
(* all requests sound, and answering one does.                             *)
LEMMA RequestStep ==
  ASSUME IInv, accounts \subseteq accounts',
         NEW w \in Workers, NEW r, req' = [req EXCEPT ![w] = r], RequestOK(r, accounts')
  PROVE  DOMAIN req' = Workers /\ RequestsOK'
BY DEF IInv, RequestsOK, RequestOK, NewUser

LEMMA AnswerStep ==
  ASSUME IInv, accounts \subseteq accounts',
         NEW w \in Workers, NEW outcome, Answer(w, outcome)
  PROVE  DOMAIN req' = Workers /\ RequestsOK'
<1>1. RequestOK(Idle, accounts')
  BY DEF RequestOK, Idle, Request, Optional
<1> QED
  BY <1>1, RequestStep DEF Answer

(* A request arrives at either endpoint, or is refused there. *)
LEMMA EndpointIInv ==
  ASSUME IInv, NEW w \in Workers, NEW email \in Spellings, NEW username \in Usernames,
         RegisterLimited(w, email, username) \/ RegisterAlias(w, email, username)
  PROVE  IInv'
<1>1. UNCHANGED <<accounts, known>>
  BY DEF RegisterLimited, RegisterAlias
<1>2. CASE Begin(w, email, username)
  <2>1. RequestOK([Idle EXCEPT !.at = "start", !.email = email, !.username = username], accounts')
    BY DEF RequestOK, Idle, Request, Optional
  <2> QED
    BY <1>1, <1>2, <2>1, RequestStep DEF Begin, Continue, IInv, TableOK, KnownOK
<1>3. CASE Answer(w, "too_many")
  BY <1>1, <1>3, AnswerStep DEF IInv, TableOK, KnownOK
<1> QED
  BY <1>2, <1>3 DEF RegisterLimited, RegisterAlias

(* The INSERT adds a row that differs from all others in each column, for   *)
(* whatever its SELECT has seen: Admits is evaluated with the commit.      *)
LEMMA InsertIInv ==
  ASSUME IInv, NEW w \in Workers, NEW id \in Ids, Insert(w, id)
  PROVE  IInv'
<1> DEFINE user == NewUser(id, req[w].email, req[w].username)
<1>1. CASE Admits(user.email, user.username)
  <2>1. accounts' = accounts \cup {user} /\ known' = known
    BY <1>1 DEF Insert
  <2>2. req[w].email \in Spellings /\ req[w].username \in Usernames
    BY DEF Insert, IInv, RequestsOK, RequestOK
  <2>3. user \in Account
    BY <2>2 DEF NewUser, Account, Emails
  <2>4. \A a \in accounts : a.id # user.id /\ a.email # user.email /\ a.username # user.username
    BY <1>1 DEF Insert, Admits, NewUser
  <2>5. TableOK'
    BY <2>1, <2>3, <2>4 DEF IInv, TableOK
  <2> DEFINE r == [req[w] EXCEPT !.at = "done", !.id = id]
  <2>6. RequestOK(r, accounts')
    <3>1. req[w] \in Request /\ r \in Request
      BY DEF IInv, RequestsOK, RequestOK, Request, Optional
    <3>2. r.email = req[w].email /\ r.username = req[w].username /\ r.id = id
      BY <3>1 DEF Request
    <3> QED
      BY <2>1, <2>2, <3>1, <3>2 DEF RequestOK
  <2>7. DOMAIN req' = Workers /\ RequestsOK'
    <3>1. req' = [req EXCEPT ![w] = r] /\ accounts \subseteq accounts'
      BY <1>1, <2>1 DEF Insert, Continue
    <3> QED
      BY <2>6, <3>1, RequestStep
  <2>8. KnownOK'
    BY <2>1 DEF IInv, KnownOK, NewUser
  <2> QED
    BY <2>5, <2>7, <2>8 DEF IInv
<1>2. CASE ~Admits(user.email, user.username)
  BY <1>2, AnswerStep DEF Insert, IInv, TableOK, KnownOK
<1> QED
  BY <1>1, <1>2

LEMMA AcknowledgeIInv ==
  ASSUME IInv, NEW w \in Workers, Acknowledge(w)
  PROVE  IInv'
<1>1. DOMAIN req' = Workers /\ RequestsOK'
  BY AnswerStep DEF Acknowledge
<1>2. KnownOK'
  BY DEF Acknowledge, IInv, KnownOK, RequestsOK, RequestOK, NewUser
<1> QED
  BY <1>1, <1>2 DEF Acknowledge, IInv, TableOK

LEMMA NextIInv == IInv /\ [Next]_vars => IInv'
<1> SUFFICES ASSUME IInv, [Next]_vars PROVE IInv'
  OBVIOUS
<1>1. ASSUME NEW w \in Workers, NEW email \in Spellings, NEW username \in Usernames,
             RegisterLimited(w, email, username) \/ RegisterAlias(w, email, username)
      PROVE  IInv'
  BY <1>1, EndpointIInv
<1>2. ASSUME NEW w \in Workers, Select(w)
      PROVE  IInv'
  <2>1. CASE Continue(w, [req[w] EXCEPT !.at = "free"])
    <3>1. RequestOK([req[w] EXCEPT !.at = "free"], accounts')
      BY <1>2, NoneAssumption DEF Select, IInv, RequestsOK, RequestOK, Request, NewUser
    <3> QED
      BY <1>2, <2>1, <3>1, RequestStep DEF Select, Continue, IInv, TableOK, KnownOK
  <2>2. ASSUME NEW outcome, Answer(w, outcome)
        PROVE  IInv'
    BY <1>2, <2>2, AnswerStep DEF Select, IInv, TableOK, KnownOK
  <2> QED
    BY <1>2, <2>1, <2>2 DEF Select
<1>3. ASSUME NEW w \in Workers, NEW password \in Passwords, HashPassword(w, password)
      PROVE  IInv'
  BY <1>3, AnswerStep DEF HashPassword, IInv, TableOK, KnownOK
<1>4. ASSUME NEW w \in Workers, NEW id \in Ids, Insert(w, id)
      PROVE  IInv'
  BY <1>4, InsertIInv
<1>5. ASSUME NEW w \in Workers, StorageFails(w)
      PROVE  IInv'
  BY <1>5, AnswerStep DEF StorageFails, IInv, TableOK, KnownOK
<1>6. ASSUME NEW w \in Workers, Acknowledge(w)
      PROVE  IInv'
  BY <1>6, AcknowledgeIInv
<1>7. CASE NewWindow \/ UNCHANGED vars
  BY <1>7 DEF NewWindow, vars, IInv, TableOK, RequestsOK, RequestOK, KnownOK, NewUser
<1>8. CASE Crash
  BY <1>8 DEF Crash, IInv, TableOK, RequestsOK, RequestOK, KnownOK, NewUser, Idle, Request, Optional
<1> QED
  BY <1>1, <1>2, <1>3, <1>4, <1>5, <1>6, <1>7, <1>8 DEF Next

(* The table and the requests are as described in every reachable state. *)
THEOREM Invariance == Spec => []IInv
BY InitIInv, NextIInv, PTL DEF Spec

-----------------------------------------------------------------------------
(* What follows from it. *)

(* A set without two elements has a cardinality of at most one. *)
LEMMA AtMostOne ==
  ASSUME NEW S, \A x, y \in S : x = y
  PROVE  IsFiniteSet(S) /\ Cardinality(S) \in Nat /\ Cardinality(S) <= 1
<1>1. CASE S = {}
  BY <1>1, FS_EmptySet
<1>2. CASE S # {}
  <2>1. PICK x : S = {x}
    BY <1>2
  <2> QED
    BY <2>1, FS_Singleton
<1> QED
  BY <1>1, <1>2

(* Two sets of at most one element have at most two together. *)
LEMMA AtMostTwo ==
  ASSUME NEW S, \A x, y \in S : x = y,
         NEW T, \A x, y \in T : x = y
  PROVE  Cardinality(S \cup T) <= 2
<1>1. /\ IsFiniteSet(S) /\ Cardinality(S) \in Nat /\ Cardinality(S) <= 1
      /\ IsFiniteSet(T) /\ Cardinality(T) \in Nat /\ Cardinality(T) <= 1
  BY AtMostOne
<1>2. IsFiniteSet(S \cap T) /\ Cardinality(S \cap T) \in Nat
  BY <1>1, FS_Intersection, FS_CardinalityType
<1>3. Cardinality(S \cup T) = Cardinality(S) + Cardinality(T) - Cardinality(S \cap T)
  BY <1>1, FS_Union
<1> QED
  BY <1>1, <1>2, <1>3

(* A login and the lookup of a recipient (scalar_one_or_none of             *)
(* authenticate_user, send_message) never meet two rows; the SELECT of     *)
(* create_user meets two at most, and one where an account has both the    *)
(* e-mail and the username.                                                *)
THEOREM LookupTheorem == Spec => []LookupsUnambiguous
<1>1. IInv => LookupsUnambiguous
  <2> SUFFICES ASSUME IInv PROVE LookupsUnambiguous
    OBVIOUS
  <2>1. ASSUME NEW email \in Spellings
        PROVE  Cardinality(LoginFinds(email)) <= 1
    <3>1. \A a, b \in LoginFinds(email) : a = b
      BY DEF IInv, TableOK, LoginFinds
    <3> QED
      BY <3>1, AtMostOne
  <2>2. ASSUME NEW ident \in Spellings \cup Usernames
        PROVE  Cardinality(RecipientFinds(ident)) <= 1
    <3>1. \A a \in accounts : a.username \in Usernames
      BY DEF IInv, TableOK, Account
    <3>2. \A a, b \in RecipientFinds(ident) : a = b
      BY <3>1, UsernameAssumption DEF IInv, TableOK, RecipientFinds
    <3> QED
      BY <3>2, AtMostOne
  <2>3. ASSUME NEW email \in Spellings, NEW username \in Usernames
        PROVE  Cardinality(Existing(email, username)) <= 2
    <3> DEFINE named == {a \in accounts : a.username = username}
    <3>1. \A a, b \in LoginFinds(email) : a = b
      BY DEF IInv, TableOK, LoginFinds
    <3>2. \A a, b \in named : a = b
      BY DEF IInv, TableOK
    <3>3. Existing(email, username) = LoginFinds(email) \cup named
      BY DEF Existing, LoginFinds
    <3> HIDE DEF named
    <3> QED
      BY <3>1, <3>2, <3>3, AtMostTwo
  <2>4. ASSUME NEW email \in Spellings, NEW username \in Usernames,
               NEW a \in LoginFinds(email), a.username = username
        PROVE  Existing(email, username) = {a}
    BY <2>4 DEF IInv, TableOK, LoginFinds, Existing
  <2> QED
    BY <2>1, <2>2, <2>3, <2>4 DEF LookupsUnambiguous
<1> QED
  BY <1>1, Invariance, PTL

(* Who was told "created" can be found by e-mail, in any spelling, and by   *)
(* username; nobody else was told so for the same e-mail or username       *)
(* (create_user's answer against the rows of `users`).                     *)
THEOREM ReachableTheorem == Spec => []AcknowledgedReachable
<1>1. IInv => AcknowledgedReachable
  <2> SUFFICES ASSUME IInv PROVE AcknowledgedReachable
    OBVIOUS
  <2>1. ASSUME NEW k \in known, NEW email \in Spellings, Lower[email] = Lower[k.email]
        PROVE  \E a \in LoginFinds(email) \cap RecipientFinds(email) \cap RecipientFinds(k.username) :
                 a.id = k.id
    <3> DEFINE a == NewUser(k.id, k.email, k.username)
    <3>1. a \in accounts /\ a.email = Lower[email] /\ a.username = k.username /\ a.id = k.id
      BY <2>1 DEF IInv, KnownOK, NewUser
    <3> QED
      BY <3>1 DEF LoginFinds, RecipientFinds
  <2>2. ASSUME NEW j \in known, NEW k \in known,
               Lower[j.email] = Lower[k.email] \/ j.username = k.username
        PROVE  j.id = k.id
    <3> DEFINE a == NewUser(j.id, j.email, j.username)
               b == NewUser(k.id, k.email, k.username)
    <3>1. a \in accounts /\ b \in accounts
      BY DEF IInv, KnownOK
    <3>2. a = b
      BY <2>2, <3>1 DEF IInv, TableOK, NewUser
    <3> QED
      BY <3>2 DEF NewUser
  <2> QED
    BY <2>1, <2>2 DEF AcknowledgedReachable
<1> QED
  BY <1>1, Invariance, PTL

(* The table implements the abstract directory: the one step that changes   *)
(* it, the INSERT, enters a row with a new e-mail and a new username.      *)
THEOREM RefinementTheorem == Spec => ImplementsDirectory
<1>1. Init => D!DInit
  BY DEF Init, D!DInit
<1>2. IInv /\ [Next]_vars => [D!DNext]_accounts
  <2> SUFFICES ASSUME IInv, [Next]_vars, accounts' # accounts PROVE D!DNext
    OBVIOUS
  <2>1. PICK w \in Workers, id \in Ids : Insert(w, id)
    BY DEF Next, vars, RegisterLimited, RegisterAlias, Select, HashPassword, StorageFails,
           Acknowledge, NewWindow, Crash
  <2> DEFINE user == NewUser(id, req[w].email, req[w].username)
  <2>2. Admits(user.email, user.username) /\ accounts' = accounts \cup {user}
    BY <2>1 DEF Insert
  <2>3. user.email \in Emails /\ user.username \in Usernames
    BY <2>1 DEF Insert, IInv, RequestsOK, RequestOK, NewUser, Emails
  <2>4. D!Enter(id, user.email, user.username)
    BY <2>1, <2>2 DEF D!Enter, Insert, Admits, NewUser
  <2> QED
    BY <2>3, <2>4 DEF D!DNext
<1> QED
  BY <1>1, <1>2, Invariance, PTL DEF Spec, ImplementsDirectory, D!DSpec
=============================================================================
