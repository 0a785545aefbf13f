---------------------------- MODULE Registration ----------------------------
(***************************************************************************)
(* The directory of accounts: create_user behind its two endpoints, and    *)
(* the queries by which a login and a sender find an account.              *)
(*                                                                         *)
(* A registration runs in a worker thread: SELECT, then password policy,   *)
(* then INSERT and commit, then the answer.  Another request can run       *)
(* between any two; what the SELECT found is what the handler goes by.     *)
(*                                                                         *)
(* An e-mail is typed in some spelling and stored in lower case.  Usernames *)
(* are compared as typed, and are never spelled like an e-mail: the schema *)
(* admits no "@" in them.                                                  *)
(***************************************************************************)
EXTENDS Naturals, FiniteSets, Null

CONSTANTS
  Workers,        \* threads that serve registrations
  Spellings,      \* e-mails as typed
  Lower,          \* str.lower on them
  Usernames,
  Ids,            \* ids of the accounts that may be created (bound)
  RegisterLimit   \* REGISTER_RATE_LIMIT_PER_HOUR

ASSUME LowerAssumption ==
  /\ Lower \in [Spellings -> Spellings]
  /\ \A s \in Spellings : Lower[Lower[s]] = Lower[s]
ASSUME UsernameAssumption == Spellings \cap Usernames = {}
ASSUME LimitAssumption == RegisterLimit \in Nat \ {0}
ASSUME NoneAssumption == None \notin Spellings \cup Usernames \cup Ids

VARIABLES
  accounts,  \* the table users: id, email and username
  req,       \* the registration each worker is serving
  answer,    \* the outcome of the registration answered by the last step
  hits,      \* counts of _register_limiter in the current window, per key
  known      \* history: acknowledged registrations, as typed, with their account

vars == <<accounts, req, answer, hits, known>>

-----------------------------------------------------------------------------
Emails == {Lower[s] : s \in Spellings}

(* "start" has passed the limiter, "free" found no row with its e-mail or   *)
(* username, "done" has committed its own.                                 *)
Idle == [at |-> "idle", email |-> None, username |-> None, id |-> None]

(* The client's address is one key of the limiter, with each e-mail another. *)
Address == "address"

Init ==
  /\ accounts = {}
  /\ req = [w \in Workers |-> Idle]
  /\ answer = "none"
  /\ hits = [key \in {Address} \cup Emails |-> 0]
  /\ known = {}

Answer(w, outcome) ==
  /\ req' = [req EXCEPT ![w] = Idle]
  /\ answer' = outcome

Continue(w, request) ==
  /\ req' = [req EXCEPT ![w] = request]
  /\ answer' = "none"

-----------------------------------------------------------------------------
(* The two endpoints. *)

Begin(w, email, username) ==
  /\ req[w].at = "idle"
  /\ Continue(w, [Idle EXCEPT !.at = "start", !.email = email, !.username = username])

(* POST /api/auth/register: two checks, and the first one counts even when  *)
(* the second one refuses.                                                 *)
RegisterLimited(w, email, username) ==
  LET key == Lower[email]
  IN \/ /\ hits[Address] < RegisterLimit /\ hits[key] < RegisterLimit
        /\ hits' = [hits EXCEPT ![Address] = @ + 1, ![key] = @ + 1]
        /\ Begin(w, email, username)
        /\ UNCHANGED <<accounts, known>>
     \/ /\ req[w].at = "idle"
        /\ hits[Address] >= RegisterLimit \/ hits[key] >= RegisterLimit
        /\ hits' = IF hits[Address] < RegisterLimit
                     THEN [hits EXCEPT ![Address] = @ + 1] ELSE hits
        /\ Answer(w, "too_many")
        /\ UNCHANGED <<accounts, known>>

(* POST /api/users/register has no limiter. *)
RegisterAlias(w, email, username) ==
  /\ Begin(w, email, username)
  /\ UNCHANGED <<accounts, hits, known>>

(* A new hour: the fixed window of every key has run out. *)
NewWindow ==
  /\ \E key \in DOMAIN hits : hits[key] > 0
  /\ hits' = [key \in DOMAIN hits |-> 0]
  /\ answer' = "none"
  /\ UNCHANGED <<accounts, req, known>>

-----------------------------------------------------------------------------
(* create_user. *)

Existing(email, username) ==
  {a \in accounts : a.email = Lower[email] \/ a.username = username}

(* scalar_one_or_none raises on a second row. *)
Select(w) ==
  LET found == Cardinality(Existing(req[w].email, req[w].username))
  IN /\ req[w].at = "start"
     /\ \/ found = 0 /\ Continue(w, [req[w] EXCEPT !.at = "free"])
        \/ found = 1 /\ Answer(w, "failed")
        \/ found > 1 /\ Answer(w, "multiple_rows")
     /\ UNCHANGED <<accounts, hits, known>>

Rules == {"lowercase", "uppercase", "digit", "special"}
Passwords == [length : {11, 12, 256}, kinds : SUBSET Rules]
Strong(password) == password.length >= 12 /\ Rules \subseteq password.kinds

(* A password that only fails the policy: the schema has refused short ones. *)
HashPassword(w, password) ==
  /\ req[w].at = "free"
  /\ password.length >= 12
  /\ ~Strong(password)
  /\ Answer(w, "weak_password")
  /\ UNCHANGED <<accounts, hits, known>>

(* The UNIQUE columns of the table.  Mutant: the one on username is missing. *)
Admits_EmailOnly(email, username) == \A a \in accounts : a.email # email
Admits(email, username) == \A a \in accounts : a.email # email /\ a.username # username

NewUser(id, email, username) == [id |-> id, email |-> Lower[email], username |-> username]

(* An INSERT the table does not admit raises sqlalchemy's IntegrityError,   *)
(* which is no AppError.                                                   *)
Insert(w, id) ==
  LET user == NewUser(id, req[w].email, req[w].username)
  IN /\ req[w].at = "free"
     /\ \A a \in accounts : a.id # id
     /\ IF Admits(user.email, user.username)
          THEN /\ accounts' = accounts \cup {user}
               /\ Continue(w, [req[w] EXCEPT !.at = "done", !.id = id])
          ELSE /\ Answer(w, "duplicate_row")
               /\ UNCHANGED accounts
     /\ UNCHANGED <<hits, known>>

(* A statement fails (the file is locked, the pool exhausted): the session  *)
(* is closed; what was committed stays.  Mutant: a failed refresh removes   *)
(* the account again.                                                      *)
StorageFails_Undo(w) ==
  /\ req[w].at # "idle"
  /\ accounts' = {a \in accounts : a.id # req[w].id}
  /\ Answer(w, "storage_error")
  /\ UNCHANGED <<hits, known>>

StorageFails(w) ==
  /\ req[w].at # "idle"
  /\ Answer(w, "storage_error")
  /\ UNCHANGED <<accounts, hits, known>>

Acknowledge(w) ==
  /\ req[w].at = "done"
  /\ known' = known \cup {[email |-> req[w].email, username |-> req[w].username, id |-> req[w].id]}
  /\ Answer(w, "created")
  /\ UNCHANGED <<accounts, hits>>

(* The process is restarted: the limiter's memory is gone, the table is not. *)
Crash ==
  /\ req' = [w \in Workers |-> Idle]
  /\ hits' = [key \in DOMAIN hits |-> 0]
  /\ answer' = "none"
  /\ UNCHANGED <<accounts, known>>

-----------------------------------------------------------------------------
Next ==
  \/ \E w \in Workers :
       \/ \E email \in Spellings, username \in Usernames :
            RegisterLimited(w, email, username) \/ RegisterAlias(w, email, username)
       \/ Select(w)
       \/ \E password \in Passwords : HashPassword(w, password)
       \/ \E id \in Ids : Insert(w, id)
       \/ StorageFails(w)
       \/ Acknowledge(w)
  \/ NewWindow
  \/ Crash

Spec == Init /\ [][Next]_vars

-----------------------------------------------------------------------------
(* Finding an account. *)

(* authenticate_user: WHERE email = :typed.strip().lower().  Mutant: as typed. *)
LoginFinds_AsTyped(email) == {a \in accounts : a.email = email}
LoginFinds(email) == {a \in accounts : a.email = Lower[email]}

(* send_message: WHERE username = :ident OR email = :ident.lower(). *)
RecipientFinds(ident) ==
  {a \in accounts : a.username = ident \/ (ident \in Spellings /\ a.email = Lower[ident])}

-----------------------------------------------------------------------------
(* Properties. *)

(* However registrations interleave, the scalar_one_or_none of a login and  *)
(* of a sender's recipient never meets two rows: no account becomes        *)
(* unreachable because of another one.  That of create_user can meet two,  *)
(* one with the e-mail and one with the username (and answers with an      *)
(* error); but never more, and who repeats a registration meets only the   *)
(* row of the first.                                                       *)
LookupsUnambiguous ==
  /\ \A email \in Spellings : Cardinality(LoginFinds(email)) <= 1
  /\ \A ident \in Spellings \cup Usernames : Cardinality(RecipientFinds(ident)) <= 1
  /\ \A email \in Spellings, username \in Usernames :
       /\ Cardinality(Existing(email, username)) <= 2
       /\ \A a \in LoginFinds(email) :
            a.username = username => Existing(email, username) = {a}

(* Whoever was told that they are registered can log in, in any spelling of *)
(* their e-mail, and be written to, whatever failed or raced since; nobody *)
(* else was told so for the same e-mail or username.                       *)
AcknowledgedReachable ==
  /\ \A k \in known :
       /\ \A email \in Spellings : Lower[email] = Lower[k.email] =>
            \E a \in LoginFinds(email) \cap RecipientFinds(email) \cap RecipientFinds(k.username) :
              a.id = k.id
  /\ \A j, k \in known :
       Lower[j.email] = Lower[k.email] \/ j.username = k.username => j.id = k.id

(* The table is the abstract directory. *)
D == INSTANCE Directory WITH entries <- accounts
ImplementsDirectory == D!DSpec
=============================================================================
