# TLA+ models of the encrypted messaging application

The repository is a FastAPI backend over SQLite (`backend/app`), a React single-page frontend
(`frontend/src`), an nginx reverse proxy and container files.  This directory holds TLA+ models of the
logic of the backend and of the frontend's session, compose and message pages, the TLC configurations that
check them, and TLAPS proofs of what the models claim.  Paths below are relative to the repository's root; `app/`
stands for `backend/app/`, `pages/` for `frontend/src/pages/`.

## 1. Inventory

| component | state | operations | what is hard about it |
|---|---|---|---|
| accounts (`app/auth`, `app/twofa`, `app/crypto/totp.py`) | the row of `users`: `is_active`, `failed_login_count`, `locked_until`, `totp_*`; rows of `user_sessions` | login, login/2fa, logout; 2FA status, setup, enable, disable | requests of one account run in several threads; each works on a copy of the row loaded earlier and commits only the columns it changed; a login commits up to three times and can be cut off between |
| rate limiter (`app/middlewares/rate_limit.py`) | a dict key -> (count, window start), in memory | `check`, `_cleanup` | called from many threads without a lock; window borders; clean-up replaces the dict; a restart forgets it |
| messages (`app/messages`) | rows of `messages`, `message_recipients`, `attachments` | send, inbox, sent, read, download, delete | reads mark rows while deletions are under way; the HMAC is recomputed from rows that change later; all rows of a message must appear at once |
| registration (`app/users`) | the set of users | register (two routes), me | check-then-insert; e-mail and username looked up in one query |
| HTTP pipeline (`app/main.py`, `app/middlewares`) | `request.state` | four nested middlewares, exception mapping | nesting order; which exception becomes which answer |
| worker threads, database sessions (`app/db/session.py`) | thread pool, connection pool | one session per request | failed logins sleep while holding both |
| start-up (`app/db/init.py`, `database/schema.sql`) | schema of the database file | create file, run script, migrate | crash between steps, two starts at once |
| crypto (`app/crypto`) | none | AES-GCM, HMAC, Argon2, TOTP | encoding of the HMAC payload |
| frontend (`frontend/src`) | user, page state | refreshMe, login, logout, pages | late answers |
| nginx, Docker, scripts | configuration | | not modelled |
| audit events (`app/db/models.py`) | a table nothing uses | none | |

Interactions: a request passes nginx and the middlewares; its dependencies (`get_db`,
`get_current_user`) run first, then its limiter, then its handler with one SQLAlchemy session.  `async`
handlers (`/messages/send`) run on the event loop, all others in worker threads.  Requests share the
database and, within the process, the limiters; nothing else.

What makes each component correct:

- *accounts*: failures lead to a lock and only a complete login lifts it; 2FA is on only with a confirmed
  secret; an accepted time step is not accepted again; an inactive account does not change; every request is
  answered; and all of it as one atomic account would behave;
- *limiter*: no more admissions per window than configured, no refusal without them, bounded memory,
  clean-up that cannot be observed;
- *messages*: a stored message verifies for ever, deletion is final and private, the read and verified flags
  say the same, nobody but sender and recipients is shown a message; what a sender is told is true; the string
  that is signed is that of one message only; uploads are refused exactly above their limits;
- *registration*: a login name and a recipient lead to one account at most, and who was told that they are
  registered can be found by both;
- *pipeline*: every request is answered, a POST or DELETE with a cookie reaches its handler from the
  application's own pages only (every GET passes the origin check, and `GET /api/messages/{id}` sets `read_at`,
  `app/messages/service.py:337`: that write is not protected), and a client's request id comes back;
- *threads and connections*: nothing is leaked, waiting in a circle has a known cause and an end;
- *start-up*: nothing is served on a half-made schema, and any start can follow any cut-off one;
- *frontend*: at rest the page shows what its cookie and its address stand for, unless the answer that came last
  was a failure or one to an older question.

`PROJECT.json` lists the hazards behind these properties, each at the line where it bites.

## 2. How the code's concurrency is modelled

`SessionLocal` has `autoflush=False` and pysqlite opens a transaction only for the first write, so a
request's SELECTs see whatever was committed last, each on its own.  A SELECT copies a row into the
session's identity map; the handler changes the copy; `commit()` issues one UPDATE with the columns whose
value differs from what was loaded, inside one transaction, and expires the copy.  Hence the two rules of
the models:

1. an action is one SELECT, or the code between it and the next commit or answer;
2. a commit changes, in the row *as it is then*, the columns the handler changed in the row *as it was
   loaded* (`Flush` in `Accounts`).  After a commit the copy is expired: what is assigned next without being
   read again is always written.

SQLite serialises commits.  A statement can fail for one request alone (the file stays locked for the
driver's five seconds, the pool has no connection for thirty): it ends in a 500 with the transaction rolled
back.  `StorageFails` of `Messages` and `Registration` is that; in `Accounts`, where such a request stops
between two commits, `Crash` stops all of them at once.

## 3. Modules

| module | models | notes |
|---|---|---|
| `Null` | `NULL`, `None`, `null`: the one constant that all modules share | |
| `Account` | the promise: one atomic account | off -> pending -> on; counters; lock |
| `Accounts` | `authenticate_user`, `create_session`, `get_current_user`, `setup_totp`, `enable_totp`, `disable_totp`, `logout` | the core; instantiates `Account` by a refinement mapping |
| `AccountsProofs` | theorems about `Accounts` | TLAPS |
| `MCAccounts`, `MCReplay` | instances, and what the comments claim | |
| `FixedWindow` | the promise: a limiter without memory management | |
| `Buckets` | the dict of buckets and the record of admissions, common to the next two | |
| `RateLimiter` | `check` and `_cleanup`, undisturbed | as `/messages/send` uses it |
| `RateLimiterThreads` | the same code step by step in threads | as login, registration and 2FA use it |
| `RateLimiterProofs` | theorems about both | TLAPS |
| `MCRateLimiter` | instances of both | |
| `Mailbox` | the promise: per user and message, unread -> read -> deleted | |
| `Messages` | `app/messages/service.py` and its routes | instantiates `Mailbox` |
| `LenPrefix` | `_encode_len_prefixed` | an algorithm, against a reader |
| `HmacPayload` | `_message_hmac_payload` | the list of signed parts, by their lengths |
| `Uploads` | `_read_upload_limited` and the limits around it | |
| `MCMessages` | instances of these four | |
| `MessagesProofs` | theorems about `Messages` | TLAPS |
| `SendProofs` | theorems about `LenPrefix`, `HmacPayload` and `Uploads` | TLAPS |
| `Directory` | the promise: unique entries that stay | |
| `Registration`, `MCRegistration` | `create_user`, its two routes, the lookups of login and send | instantiates `Directory` |
| `RegistrationProofs` | theorems about `Registration` | TLAPS |
| `Startup` | `Settings`, `_startup`, `init_sqlite_schema` | |
| `Pipeline` | `app/main.py`, `app/middlewares` | |
| `SecurityChecks` | `backend/scripts/security_checks.py` | composes `Pipeline`, limiter, lock, second factor |
| `TwoFaScript` | `backend/scripts/e2e_2fa_test.py` | a client of `Accounts` |
| `Pool` | worker threads, pooled connections, the event loop | |
| `MCServer` | instances of `Startup`, `Pool` and `SecurityChecks` | |
| `ServerProofs`, `PipelineProofs` | theorems about `Startup` and `Pool`, and `Pipeline` under `SecurityChecks` | TLAPS |
| `AuthContext` | `AuthContext.tsx`, `LoginPage.tsx`, `TwoFaPage.tsx` with the session endpoints | |
| `ComposePage`, `MessagePage` | the pages of the same name | |
| `MCFrontend` | instances of these three | |
| `FrontendProofs` | theorems about these three | TLAPS |

`MCRateLimiter`, `MCMessages`, `MCServer` and `MCFrontend` put modules together that share no state, and check
them in one run: a variable chosen in the initial state (`endpoint`, `part`) says which of them takes the
steps; the others keep their initial values.  The states are the sum of those of the parts, not the product, and
each part's properties are checked in all of its behaviours.  They extend the modules the theorems are about, so
that a property that is checked is the definition that is proved; for that the names of such modules differ
(`PoolSpec`, `PipelineInit`, `composevars`).  Liveness properties and fairness are those of the
part that runs.

### Accounts

`row` is the account's row of `users`, `expires_at` and `revoked` its sessions.  `req[w]` is the request a
worker serves: where it is, its endpoint, its session token, and `seen`, the copy of the row.  The three
BLOB columns of the TOTP secret are one field.  Passwords and codes are chosen where they are read: a
password is right or wrong, a code is valid for one of the steps `now - 1 .. now + 1` or invalid.  One unit
of `now` is one TOTP step.

| code | actions |
|---|---|
| `authenticate_user` up to its first write | `LoginRefused`, `LoginLocked`, `LoadLogin` |
| its refusals | `WrongPassword`, `MissingCode`, `MissingSecret`, `WrongCode`, `ReplayedCode` (`ApplyFailedLogin` is the commit of `_apply_failed_login`) |
| its commits | `AcceptCode` (line 98), `ResetAfterCode`, `ResetAfterPassword` (line 105) |
| `create_session` | `CreateSession` |
| `get_current_user` | `NoSession`, `FindSession`, `LoadUser` |
| handlers | `Status`, `Logout`, `SetupTotp`, `EnableUninitialized`, `EnableTotp`, `DisableNoop`, `DisableTotp`, `TwoFaRefused` |
| outside the code | `Deactivate` (an operator; no code clears `is_active`), `Crash`, `Tick` |

`is_locked` compares the naive timestamp SQLite returns with an aware one.  Whatever the time, that raises
`TypeError`, which the error middleware answers with a 500; `LoginLocked` is that outcome.

`issued`, `verified`, `spent` and `stale` are history variables; no guard reads the last three.  `stale`
collects the parts of the account of which some commit overwrote a value that its request had not seen.
Several promises hold only as long as a part is not stale; that proviso is in the property, by name, and what
happens without it is listed under *violations*: `NotEnabledUntilVerified` is broken in run `enable_races_setup`;
`StepSpentOnce` (two logins that loaded the same row), `LockHasCause` (a reset from a copy without the lock) and
`ImplementsAccount` (any of these) are broken in behaviours described there that have no run.  `StepSpentOnce` also counts afresh after each
confirmation, which clears the step (run `step_reused`).

### RateLimiter, RateLimiterThreads

`buckets` is `_buckets`, called `table` in `RateLimiterThreads`; `admitted` and `letIn` are history: the seconds
in which requests were let in.  `RateLimiter` takes `check` as one step; the three ways through it are
`CheckExpired`, `CheckOver`, `CheckUnder`, each after the sweep that a full dict triggers.
`RateLimiterThreads` splits it where a thread can be preempted: after `time.time()`, after the size test, at
each entry the comprehension reads, after `get`.  A sweep that another sweep overtakes goes on with the old
dict; one that sees the size change fails, as CPython does.  A request checks a sequence of keys and stops
at the first refusal.  The `cleanup_interval_seconds` branch is unreachable: the only call passes
`force=True`.

### Messages

A stored message is a record with its sender, a row per recipient, its attachments, and its HMAC.  The HMAC
is the tuple of what it is computed from, under the sender's key, so it verifies exactly if the same is put
together again.  Ids are unique and sorted by the code, so sorted lists are sets.  A request goes
`start` -> `found` (the message and the user's row are loaded) -> `ready` (verified, or the list is made) or
`done` (committed) -> answered.  `ReadDetail` writes the two columns the handler sets, into the row as it is
then.  Recipients are resolved one SELECT at a time (`ResolveRecipient`).  Everything that makes a send fail
before its commit is one action, `SendRefused`: it leaves no row.  `gone` and `late` are history: which
deletions had been acknowledged when a request arrived.

A send whose commit stands but whose `db.refresh` fails is answered 500; `SendAnswerTruthful` says what an
answer may be relied on for.

### LenPrefix, HmacPayload, Uploads

`LenPrefix` appends chunk after chunk as `_encode_len_prefixed` does; how many values a byte has and how many
bytes a prefix (256 and 4 in the code) are parameters, small enough in the run that some chunks are too long for
their prefix.  `to_bytes` writes the last `Width` digits of the length (`Shifted`, one digit less at a time) and
raises when something is left (`Fits`).  `Readers` is where a reader is after each chunk.  `HmacPayload` builds two messages side by side; each
part of the signed list is the set of lengths it can have (an id has 36 bytes, a nonce 12, a clean file name
1 to 150).  Together: the string determines the list, the list the numbers of recipients and attachments, and
hence each part its field.  `Uploads` reads files piece by piece; `send_message`'s second test of the same
limits is in `StoreFiles`.  `Totals` is the running `total` of the two loops.  What counts as memory are the
buffers `_read_upload_limited` and `send` hold at the same time: the files kept, `buf`, the piece in `chunk` that
`buf` has a copy of, the next piece beside it, and the copy `bytes(buf)`, made while `buf` lives (`Held`).  With two
files of exactly the limit that is three limits.  Not counted: what a `bytearray` allocates ahead, the spooled
files behind `UploadFile`, and the ciphertexts `send_message` makes of what was kept.

### Registration

`accounts` is the table.  A registration is `start` -> `free` (its SELECT found nothing) -> `done` (committed)
-> answered.  E-mails have spellings and `Lower`; usernames never look like an e-mail because the schema admits
no `@`.  `hits` are the counts of `_register_limiter` in the current window; all windows are taken to end
together (`NewWindow`); the other path, `RegisterAlias`, has no limiter.  `known` is history.

### Startup

`file` is the database file, `pc` where each server is, `line` how far in `schema.sql`.  `executescript` and
the `ALTER TABLE` leave no transaction open, so each statement is a step.  `MaxFaults` bounds the faults from
outside: a stop, an unusable secret.  Losing the race for `ALTER TABLE` is no fault but what the code does.

### Pipeline, SecurityChecks, TwoFaScript

A layer is an operator on what the layers inside it would return: a response or an exception, whether the
handler ran, the `X-Request-Id`.  `Nested` composes them as Starlette does, the one added last outermost.  The
scripts are then sequences of requests: `SecurityChecks` runs over `Nested`, after any requests of other
clients, with the counts of the limiter and the lock, `TwoFaScript` over the actions of `Accounts` with one worker.  Each script dies of an answer it does
not expect, so "it ends with OK" says that the modelled server does what the repository's own tests assert,
wherever the clock moves.  A request is answered within the client's 20 seconds, so at most one time step of 30
seconds ends while it is under way.

### Pool

`at` is where a request is, `threads` who occupies a worker thread, `held` who holds a connection, `loop` whose
handler runs on the event loop.  `def` handlers and dependencies need a thread each time; `send` is
`async def`, awaits its uploads, and blocks the loop from `send_message` on.  A commit gives the connection
back.  `PoolTimeout` is the pool's 30 seconds: the way out of every circle.

### AuthContext, ComposePage, MessagePage

A call is a record that waits for its answer; answers are handled in any order, fail or are lost.
`AuthContext` has the browser's cookie and the server's sessions beside the page's `user`.  A login and a logout
change the cookie when the header arrives (`Arrive`), before the page goes on with the body; in between other calls
can be sent.  The login forms of `/login` and `/2fa` disable their own button only, so their flows overlap with each
other, with logouts and with the first `GET /users/me`.  `doubt` records that what the page heard last was a
failure, or about a cookie that had been replaced; `lapsed`, whose session ended without the page being told.  `ComposePage` counts the copies of one
message.  `MessagePage` has the id in the address, the message shown, and the loads and deletes under way; a
load is handled and answered in two steps, and `late` records that the one that ended last was not the newest.

## 4. Runs

### Passing

| run | instance | shows |
|---|---|---|
| `accounts_races` | 2 workers, 3 sessions, 1 secret, limit 2, no time passing | `LimitReachedLocks`, `LockHasCause`, `OnlyAcceptedLoginUnlocks`, `StepSpentOnce`, `ImplementsAccount` |
| `accounts_enrolment` | 2 workers, 1 session, 2 secrets, two clock units | `TypeOK`, `NotEnabledUntilVerified`, `DeactivatedAccountFrozen`, `EveryRequestAnswered` |
| `accounts_script` | `e2e_2fa_test.py` as the only client, 12 time steps | `ScriptEndsOK` |
| `limiter` | `/send`: 3 keys, limit 2, windows of 2 s, 5 seconds, clean-up beyond one bucket; login: 2 threads, an address and an e-mail key, limit 2, windows of 1 s | `TypeOK`, `BurstBounded`, `MemoryBounded`, `ImplementsFixedWindow`; `RefusalJustified` |
| `messages` | 2 workers, 3 users, 1 message, 1 attachment, 1 deactivation; encoding: base 2, prefixes of 2 digits, up to 3 chunks of up to 3 digits (4 do not fit); payload: up to 25 recipients and 3 attachments, twice; uploads: 2 files of 5 bytes in all, up to 3 files of up to 10 bytes sent, pieces of 2 | `TypeOK`, `ReadIffVerified`, `AlwaysAuthentic`, `DeletedStaysGone`, `SendAnswerTruthful`, `ImplementsMailbox`; `EncodingRoundTrip`; `Unambiguous`; `UploadLimitsHold` |
| `registration` | 3 workers, 3 spellings of 2 e-mails, 2 usernames, 3 ids, limit 1 | `LookupsUnambiguous`, `AcknowledgedReachable`, `ImplementsDirectory` |
| `server` | start: 3 servers, 3 statements, 2 faults, every half-made file; pool: 4 requests of three kinds, 2 threads, 1 connection; checks: every kind of request and outcome in production, then `security_checks.py` with the default limits, 50 tries, 3 windows ending | `ServesCompleteSchema`, `NothingLost`, `StartupAllServe`; `ExhaustedByLoad`, `StallHasCause`, `PoolRequestsAnswered`; `AnsweredInFull`, `ForeignWritesStopped`, `ChecksEndOK` |
| `frontend` | session: 2 users, 2 sessions, 2 logins and a logout at a time, beside the first call; compose: 3 attempts; message page: 3 messages, 2 loads and 2 deletes at a time | `ShowsSessionUser`, `AuthLoadingEnds`; `CopiesExcused`; `ShownIsNamed` |

Why these bounds are enough for what they ask: every stale write in this code needs two requests on one
row, one that loaded it and one that changed it since; a third request only repeats the effect.  A limit of
two is the least at which a failure can be counted without locking.  Two secrets are needed for one to
replace the other, three sessions for a client that enrols, logs in with a code and logs in again.  Time
matters in `accounts_*` through the window of three steps, which exists at every `now`; two units let
sessions expire and steps differ.  A limiter needs two full windows and the seconds between.  For messages,
two recipients are needed to tell one user's deletion from another's, and a second message shares no row
with the first.  `TokenLeft`, `SecretLeft`, `MaxTime`, `MaxAdmissions`, `MaxLeft`, `MaxFaults`, `MaxMinutes`
and `Ids` are the bounds on counters; all are named in the modules.

For the others: a race of registrations needs two workers, an ambiguous lookup two accounts and a third
request.  One start can be between another's check and `ALTER TABLE` while a third serves.  A circle of waiting
needs as many readers as connections; more requests than threads is one of its causes, so four requests meet
two threads and one connection.  Both causes were seen to occur.  The payload takes the real limit of
recipients; the lists of two messages have as many parts only if seven times the difference in attachments is at
most 24, so three attachments are enough.  A file can be larger than a limit by more than a piece, exactly the
limit, and empty.  Two login forms and the first call are all that can overlap on one page but logouts, whose
button is never disabled; the run has one at a time, the theorem any number, and the safety property was also
checked once with two logins and two logouts (7.5 million states).  Two loads can overtake each other.

`CHECK_DEADLOCK FALSE` is set where the bounded instance comes to an end: in `limiter` when the clock has reached
`MaxTime` and the login keys their `MaxAdmissions`; in `messages` when all uploads are read, both payloads are at
their limits or all chunks are encoded (the message store itself goes on for ever); in `server` and
`accounts_script` when every server serves, every request is answered, the script has ended, which is what the
liveness properties of these runs say must come; in `frontend` when the compose form has been left or its
attempts are used up, and when all tokens are.  The code has no lock to wait for but the pool, whose circles are
`StallHasCause`.

Each property of a passing run has a mutant: a definition of the model changed as a plausible bug would
change the code (defined next to it, marked *Mutant*), under which TLC finds the property violated.

### Violations

| run | claim | what TLC shows |
|---|---|---|
| `account_locked` | `app/auth/service.py:50` "Uniform error surface: always raise AuthenticationError on auth failure." | failures up to the limit, then any login: `TypeError`, answered 500, after `locked_until` as before it |
| `enable_races_setup` | `app/twofa/service.py:23` "not enabled until verified" | enable loads secret 1; setup stores secret 2; enable commits: secret 2 is on, unverified |
| `step_reused` | `app/auth/service.py:90` "each accepted step can be used only once" | log in with a code, call enable again, log in with the same code |
| `limiter_burst` | `app/middlewares/rate_limit.py:11` "In-memory fixed-window rate limiter." | two threads read the same bucket and are both admitted; over the window's border more requests pass than a fixed window allows |

Also met while modelling, in the models, and not given a run of their own:

- `app/core/config.py:39` speaks of a lockout with `lockout_seconds`; after `locked_until` has passed a login still
  ends in `LoginLocked`, and by `OnlyAcceptedLoginUnlocks` only a login already past its code check lifts a lock;
- two logins that loaded the same row before either committed its step are both accepted with one code, again
  against `app/auth/service.py:90`: `AcceptCode` twice, the second with `stale`;
- an enabling between a password-only login's SELECT and its commits leaves that login completed without a code;
  failures counted from an outdated copy are lost (`ApplyFailedLogin`), and a password-only reset from a copy without
  the lock clears the count and leaves the lock (`ResetAfterPassword`, both with `stale`);
- the page can show the wrong user until its next call: an answer to `GET /users/me` that arrives after a logout, or
  after the cookie of another login, decides what is shown (`ReceiveMe`, with `doubt`);
- the page can show one message and delete another: when an older load ends after a newer one, its message stands
  beside a Delete button for the address (`LoadAnswered`, with `late`); when it fails, the message before stays
  there under an error (`LoadFailed`);
- a send whose answer is lost is stored twice when it is repeated (`Break` of `ComposePage`): there is no key
  to tell a repetition by;
- `database/schema.sql:16` "last accepted TOTP time-step (monotonic counter)": two logins that loaded the same row
  commit their steps in either order (`AcceptCode`, with `stale`), and the counter can go down;
- `app/users/service.py:23` "Avoid user enumeration via registration endpoint": in `Select` and `Insert` the
  outcomes `multiple_rows` and `duplicate_row` are exceptions nobody handles, answered 500 where other taken names
  are answered 400;
- `README.md:63` calls `/api/users/register` an alias of `/api/auth/register`: `RegisterAlias` passes no limiter;
- `app/main.py:59` gives the middlewares as "request id -> origin check -> content type -> error normalization":
  `Nested` is the reverse, so the content type is judged before the origin;
- `app/middlewares/request_id.py:9` "main error middleware also ensures request_id is present": an error without
  the client's own id carries an empty one (`ErrorHandling`), a 415 none.

## 5. Fairness

- `accounts_enrolment`: weak fairness of `Login(w) \/ Handler(w)` for each worker.  A request that got a
  thread runs on it to its end: handlers are synchronous, wait for nothing but SQLite and a bounded sleep, and
  the interpreter switches threads preemptively.
- `server`, the pool: weak fairness of each request's `PoolStep`.  A free thread or connection goes to somebody, and whoever
  waits in vain times out; nothing is assumed of who gets it.
- `server`, the start: weak fairness of each server's `Step`, which includes that a server that is down is started
  again.  That is the operator's part: the container files set no restart policy.
- `frontend`, the session: the first call is handled and its answer received, or it fails: a browser gives up in
  the end.  Nothing is assumed of the other calls.
- `server`, the checks, and `accounts_script`: the script goes on, and its worker runs.

Nothing is assumed of clients (`Client`), of the operator otherwise, of crashes, or of the clock.

## 6. Proofs

Every safety property the passing runs check is a theorem for all values of the constants.  Each proof module gives an inductive
invariant, shows that `Init` implies it and every action keeps it, one case per action, and derives each
theorem from it.

| module | theorems (property) |
|---|---|
| `AccountsProofs` | `Typing`, `LimitTheorem`, `LockTheorem`, `VerifiedTheorem`, `UnlockTheorem`, `ReplayTheorem`, `FrozenTheorem`, `RefinementTheorem` (`ImplementsAccount`), `SerialTheorem` |
| `RegistrationProofs` | `LookupTheorem` (`LookupsUnambiguous`), `ReachableTheorem` (`AcknowledgedReachable`), `RefinementTheorem` (`ImplementsDirectory`) |
| `MessagesProofs` | `Typing`, `ReadTheorem` (`ReadIffVerified`), `AuthenticTheorem` (`AlwaysAuthentic`), `SendTheorem` (`SendAnswerTruthful`), `DeletedTheorem` (`DeletedStaysGone`), `MailboxTheorem` (`ImplementsMailbox`) |
| `SendProofs` | `UploadTheorem` (`UploadLimitsHold`), `EncodingTheorem` (`EncodingRoundTrip`), `PayloadTheorem` (`Unambiguous`) |
| `RateLimiterProofs` | `Typing`, `BurstTheorem` (`BurstBounded`), `MemoryTheorem` (`MemoryBounded`), `WindowTheorem` (`ImplementsFixedWindow`), `RefusalTheorem` (`RefusalJustified`) |
| `ServerProofs` | `SchemaTheorem` (`ServesCompleteSchema`), `NothingLostTheorem` (`NothingLost`), `ExhaustionTheorem` (`ExhaustedByLoad`), `StallTheorem` (`StallHasCause`) |
| `PipelineProofs` | `AnswerTheorem` (`AnsweredInFull`), `OriginTheorem` (`ForeignWritesStopped`) |
| `FrontendProofs` | `SessionTheorem` (`ShowsSessionUser`), `CopiesTheorem` (`CopiesExcused`), `ShownTheorem` (`ShownIsNamed`) |

### The inductive invariants

*Accounts.*  The properties speak of the row, but what a commit writes comes from the copy in `req[w].seen`,
loaded earlier.  `IInv == TypeOK /\ RequestsOK /\ RowOK` closes the gap.

- `RequestsOK`: a login that is checking credentials holds a copy that was not locked and whose count is
  below the limit; a request behind a session has its token; the secret of any copy was issued.  So
  `ApplyFailedLogin` writes a count of at most the limit and, at the limit, the lock with it, in one commit.
- `RowOK`: the three state invariants; a stored secret was issued; and, while no two-factor commit was
  stale, every spent step of the row's secret is at or below the row's counter (`SpentBelowCounter`).  That
  is what makes a step above the counter a new one.

The refinement rests on the same invariant and on `Outdated`: a commit that leaves `stale` empty was made from a
copy equal to the row, so its `Flush` is the assignment the handler means.
With one worker (`SerialTheorem`) `stale` stays empty, since nothing but an operator writes between a request's
SELECT and its commit (`SerialIInv`); the server then implements `Account` itself.

*Registration.*  `TableOK` (each column tells the rows apart) is kept by the INSERT alone: the SELECT before it
may have seen an older table, and the proof does not use what it found.  That `create_user`'s SELECT meets two rows at
most follows too: one has the e-mail, one the username.  `RequestsOK` and `KnownOK` say that a
committed registration and an acknowledged one have their row; rows stay, so they remain true.

*Messages.*  `LoadedOK` is what a request may rely on although it loaded its rows earlier: it has a part in the
message, and what was acknowledged as deleted when it arrived is shut for it, or it is the sender's own.  It
survives the steps of others because rows evolve in one direction (`Evolves`): sender and recipients of a
message stay and what is closed stays closed.  `MessageOK` has the HMAC over the message's own rows, which
makes the recomputation in any later read the same; `SendsOK` has one request per message that is sent.  The
refinement maps a message and a user to unread, read or deleted (`ImplementsMailbox`); the proof goes by the
four steps that change rows, each on one message, `BoxIsState` giving the state of every copy.

*The steps of a send.*  `Totals`, `Shifted`, `Values` and `Readers` are functions defined by recursion.  That
they exist and what they compute needs induction, which the library states for operators; `SendProofs` states it
for sets (`Induction`: a set with 0 that has with a number the next has all, since otherwise the least number it
lacks, by `WFMin`, had a predecessor) and for functions (`Recursion`).  All that follows is proved from the two.

`UploadIInv`: the files kept are the first of those sent and within the limit; what `buf` has of the next is within
the limit before it grows, and a copy is made only of what is; pieces have at most `Piece` bytes, and none is held
beside a copy; and a request was refused for a reason and stored only when it was complete.  Sums grow with the files (`TotalsGrow`), so one prefix over the limit means
that all the files are, and `send_message`, which tests every prefix, refuses nothing the router let pass.

`PrefixIInv`: there are places in the string, one behind each chunk (`Ends`), between which stand the prefix of a
chunk and the chunk.  A chunk that is appended adds one and leaves the others (`EndsAfter`).  The reader is at
these places, one after the other, since a prefix has the length it was made from (`PrefixSaysLength`: after i of
its digits `Values` has what `Shifted` had left before them), and has the list when it is at the last.

For `Unambiguous` the invariant is only that the numbers are natural: if the one message has fewer recipients,
an id in the other's list stands where the one has its encrypted key (`PartsOf`, `FewerDiffer`); with equally many,
the length of the list gives the attachments.  `MaxRecipients` is not used: the list needs no limit.

*RateLimiter.*  The bound over any window (`BurstBounded`) is not implied by the buckets: two of them may touch
it.  `BucketOK` says what a bucket remembers of the seconds in which the key was admitted: its count covers all
since its start, the request that opened it included; and of the `WindowSeconds` before its start at most
`MaxRequests - 1`, since the request that opened the window before came earlier.  `ForgottenOK` says the same
of a key without a bucket, which is why clean-up cannot be noticed.

*RateLimiterThreads.*  `SharedIInv`: every bucket anybody has (in the dict, in a sweep's copy, in a replaced dict a
sweep still reads, or read by a thread) counts no more than what was let in since its start.  A lost or late write
replaces one such bucket by another, and what was let in stays so: hence no step of another thread disturbs it,
and a refusal has its requests whatever was lost.

*Startup.*  `ServerOK` says what a server may rely on at each place, of a file that others work on too: it
exists, has what this server's own start has run of the script (`line`), then all of it, then the column.  It
is kept because no step takes anything from a file (`Grows`), which is `NothingLost`.

*Pool.*  A connection is held, a thread occupied, and the loop kept only by requests that are being served, and
a `send` past its authentication keeps its connection until it commits.  `StallHasCause` follows by counting
(`PoolAssumption`: finitely many requests, at least one connection).

*Pipeline.*  One lemma per layer, from `Route` outwards: what a layer gets and returns is a response or one of
the exceptions that are mapped, and carries the client's id or none (`Result`); from `OriginCheck` on, a
handler that wrote behind a cookie had an allowed origin (`Guarded`).  `ServeIInv` composes them along `Nested`.
The theorems are about `SSpec`, where any request comes before the script and the script's after it.

*Frontend.*  `AuthIInv`: a cookie on its way is nobody else's (`SetsOK`); an answer to a call with the cookie of now
names its user, or one whose logout is under way (`CallsOK`); and when the page shows somebody else without a doubt,
a flow is under way that will make it ask (`WillHear`), which at rest there is not.
`FormIInv`: one attempt awaited at a time, none when the form is left, and what the page was told of an attempt
is what became of it.  `PageIInv`: the newest load asks for the id in the address.

### Assumptions

No theorem but `SerialTheorem`, which is about one worker, has a hypothesis of its own; what is assumed is
assumed of the constants, in the module that declares them, and evaluated by TLC in the runs:

- what is asked of the configuration and enforced nowhere, since the settings are plain integers
  (`app/core/config.py:19-41`) and 0 or less is accepted: that limits are positive (`SettingsAssumption`,
  `LimitsAssumption`, `LimitAssumption`, `SharedAssumption`) or at least not negative (`UploadAssumption`);
- what the code fixes: an endpoint checks a key (`SharedAssumption`), `EndpointsAssumption` (which endpoints there are), `PrefixAssumption` (a prefix has a byte), `UploadAssumption`
  (a piece is not empty), `ScriptAssumption` (`schema.sql` creates `users`), `LowerAssumption` (`str.lower` is idempotent),
  `UsernameAssumption` (no `@` in a username), `PoolAssumption` (a pool has a connection, requests are finitely
  many, and one that logs in does not send);
- bounds are numbers: `BoundAssumption`, `FaultAssumption`;
- `None` is no value of the sort it stands beside: `NoneAssumption` of several modules, `PipelineAssumption`,
  `AuthAssumption`, `PageAssumption`, and `ClosedAssumption` for a window that is not open.

TLC checked the invariants of `Accounts` and of `Messages` on the instances of their runs before they were proved;
the others start from properties the runs check.

### Only model-checked

All liveness (`EveryRequestAnswered`, `StartupAllServe`, `PoolRequestsAnswered`, `ChecksEndOK`, `AuthLoadingEnds`,
`ScriptEndsOK`): TLAPS 1.4 has no proof rules for fairness and ENABLED.

## 7. Not modelled, and the plan

What is left is proof, in this order:

1. `RateLimiterThreads`: with one thread, the refinement of `FixedWindow`.
2. `TwoFaScript`: the safety part of the script, that it never dies.
3. `SecurityChecks`: that the script never dies while the limits are as they are by default.

Abstractions that merge steps of the code, and why they hide nothing the properties speak of: `Check` of
`RateLimiterThreads` has the size test and the start of the iteration in one; `GetMessage` the two or three SELECTs of
`get_message_for_user`, since rows only evolve in one direction; `ReadDetail` the commit and the reloads after it;
`Commit` of `Pool` the up to three commits of a login, the first of which gives the connection back; `Route` of
`Pipeline` answers a 422 always, although the handler of validation errors can itself raise on input that is not JSON
(`app/main.py:45`), and has PATCH, HEAD and `/docs` under the other kinds of request.

Left out for good:

- cryptographic strength, the libraries' own code, and the timing of password checks;
- nginx and Docker configuration, logging, and the audit table, which no code uses;
- the clean-up of file names and content types beyond its lengths, and the headers of a download: character
  work without state;
- the response schemas: copies of fields;
- inbox, registration and two-factor settings pages: each loads or submits once, in the way the modelled pages
  do; styles and layout.
