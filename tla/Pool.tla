-------------------------------- MODULE Pool --------------------------------
(***************************************************************************)
(* What requests hold while they are served, and what they wait for: a     *)
(* worker thread, a connection of the pool, the event loop.                *)
(*                                                                         *)
(* Dependencies and handlers that are `def` run in worker threads.  `send`  *)
(* is `async def`: it awaits its uploads, which a thread reads if they are *)
(* large, and then runs, with its blocking queries, on the event loop; and *)
(* until it returns nothing else does: no request arrives, no thread is    *)
(* handed out or taken back.  One session per request, with at most one    *)
(* connection, goes from the dependency to the handler; a commit gives the *)
(* connection back, the next statement takes one again.                    *)
(***************************************************************************)
EXTENDS Integers, FiniteSets, Null

CONSTANTS
  Logins,       \* requests without a session: log in, register
  Readers,      \* requests of a user that are served in a thread
  Sends,        \* POST /messages/send
  Threads,      \* worker threads
  Connections   \* pool_size + max_overflow

Requests == Logins \cup Readers \cup Sends

ASSUME PoolAssumption ==
  /\ IsFiniteSet(Requests) /\ None \notin Requests
  /\ Logins \cap Sends = {}
  /\ Threads \in Nat /\ Connections \in Nat \ {0}

VARIABLES
  at,       \* how far each request is
  threads,  \* the requests that occupy a worker thread
  held,     \* the requests whose session holds a connection
  loop      \* the request whose handler runs on the event loop, if one does

poolvars == <<at, threads, held, loop>>

-----------------------------------------------------------------------------
(* From "new" a request comes to "auth" (get_current_user), "upload" (of a   *)
(* send), "handler", "committed" (the handler after a commit), "exit"       *)
(* (get_db's) and "answered".                                              *)
PoolInit ==
  /\ at = [r \in Requests |-> "new"]
  /\ threads = {}
  /\ held = {}
  /\ loop = None

InFlight == {r \in Requests : at[r] \notin {"new", "answered"}}
Free == Connections - Cardinality(held)

(* Handlers that run on the event loop.  Mutant: `login` is async, too. *)
OnLoop_Logins(r) == r \in Sends \cup Logins
OnLoop(r) == r \in Sends

Waiting(r) == at[r] \in {"auth", "upload", "handler"} /\ r \notin threads /\ r # loop
NeedsThread(r) == Waiting(r) /\ ~(at[r] = "handler" /\ OnLoop(r))
Running(r) == r \in threads \/ r = loop

(* A statement is to be executed. *)
NeedsConnection(r) == Running(r) /\ r \notin held

-----------------------------------------------------------------------------
Arrive(r) ==
  /\ loop = None
  /\ at[r] = "new"
  /\ at' = [at EXCEPT ![r] = IF r \in Logins THEN "handler" ELSE "auth"]
  /\ UNCHANGED <<threads, held, loop>>

StartThread(r) ==
  /\ loop = None
  /\ NeedsThread(r)
  /\ Cardinality(threads) < Threads
  /\ threads' = threads \cup {r}
  /\ UNCHANGED <<at, held, loop>>

StartOnLoop(r) ==
  /\ loop = None
  /\ Waiting(r) /\ at[r] = "handler" /\ OnLoop(r)
  /\ loop' = r
  /\ UNCHANGED <<at, threads, held>>

Connect(r) ==
  /\ NeedsConnection(r)
  /\ Free > 0
  /\ held' = held \cup {r}
  /\ UNCHANGED <<at, threads, loop>>

(* The function that ran in the thread, or on the loop, has ended: the loop *)
(* takes the thread back and goes on with the request at `place`.          *)
Return(r, place) ==
  /\ loop \in {None, r}
  /\ at' = [at EXCEPT ![r] = place]
  /\ threads' = threads \ {r}
  /\ loop' = None
  /\ UNCHANGED held

(* get_current_user keeps the connection for the handler. *)
Authenticated(r) ==
  /\ at[r] = "auth"
  /\ Running(r) /\ r \in held
  /\ \/ Return(r, "handler")
     \/ r \in Sends /\ Return(r, "upload")

(* _read_upload_limited, all its reads as one; too much is refused. *)
ReadUpload(r) ==
  /\ at[r] = "upload"
  /\ Running(r)
  /\ Return(r, "handler") \/ Return(r, "exit")

(* No cookie (no statement at all), or no session or user for it. *)
Unauthenticated(r) ==
  /\ at[r] = "auth"
  /\ Running(r)
  /\ Return(r, "exit")

(* The first commit of the handler; it gives the connection back.  Those of *)
(* login that follow lead back to the same state.                          *)
Commit(r) ==
  /\ at[r] = "handler"
  /\ Running(r) /\ r \in held
  /\ at' = [at EXCEPT ![r] = "committed"]
  /\ held' = held \ {r}
  /\ UNCHANGED <<threads, loop>>

(* A handler ends: with what it has read; refused by a limiter before its   *)
(* first statement; after a commit; a refused login after its sleep, in     *)
(* which it holds its thread and, unless it has committed, a connection.    *)
(* `send` ends after a commit only with db.refresh.                         *)
Finish(r) ==
  /\ at[r] \in {"handler", "committed"}
  /\ Running(r)
  /\ at[r] = "committed" /\ r \in Sends => r \in held
  /\ Return(r, "exit")

(* The engine keeps the default pool_timeout: QueuePool raises after 30 s;  *)
(* the answer is a 500.                                                     *)
(* Mutant: it waits for ever.                                              *)
PoolTimeout_Never(r) == FALSE

PoolTimeout(r) ==
  /\ NeedsConnection(r)
  /\ Free = 0
  /\ Return(r, "exit")

(* get_db's exit closes the session, in a thread that is not counted.       *)
(* Mutant: db.close() is not in a `finally`; an exception skips it.          *)
Exit_NoFinally(r) ==
  /\ loop = None
  /\ at[r] = "exit"
  /\ at' = [at EXCEPT ![r] = "answered"]
  /\ held' \in {held, held \ {r}}
  /\ UNCHANGED <<threads, loop>>

Exit(r) ==
  /\ loop = None
  /\ at[r] = "exit"
  /\ at' = [at EXCEPT ![r] = "answered"]
  /\ held' = held \ {r}
  /\ UNCHANGED <<threads, loop>>

-----------------------------------------------------------------------------
PoolStep(r) ==
  \/ StartThread(r)
  \/ StartOnLoop(r)
  \/ Connect(r)
  \/ Authenticated(r)
  \/ ReadUpload(r)
  \/ Unauthenticated(r)
  \/ Commit(r)
  \/ Finish(r)
  \/ PoolTimeout(r)
  \/ Exit(r)

PoolNext == \E r \in Requests : Arrive(r) \/ PoolStep(r)

PoolFairness == \A r \in Requests : WF_poolvars(PoolStep(r))

PoolSpec == PoolInit /\ [][PoolNext]_poolvars /\ PoolFairness

-----------------------------------------------------------------------------
(* Properties. *)

(* A request finds no connection only if as many other requests are being   *)
(* served as there are connections: whatever way a request ends (refused,  *)
(* committed, timed out), get_db has given its connection back by then.    *)
ExhaustedByLoad ==
  \A r \in Requests : NeedsConnection(r) /\ Free = 0 => Cardinality(InFlight \ {r}) >= Connections

(* Nothing but the pool's time-out can happen when everybody who is served  *)
(* waits for what somebody else holds; a thread that has no commit ahead    *)
(* waits for the loop to take its result.                                  *)
Stalled ==
  /\ InFlight # {}
  /\ Free = 0
  /\ \A r \in InFlight :
       \/ NeedsConnection(r)
       \/ NeedsThread(r) /\ Cardinality(threads) = Threads
       \/ loop \notin {None, r} /\ ~(Running(r) /\ at[r] = "handler")

(* That takes more requests than there are threads, those without a thread  *)
(* holding all connections (get_current_user keeps one for the handler); or *)
(* a `send` that has committed and whose db.refresh keeps the event loop    *)
(* from those who would give their connections back.                       *)
StallHasCause ==
  Stalled => \/ Cardinality(InFlight) > Threads
             \/ loop # None /\ at[loop] = "committed"

(* Every request that has arrived is answered, through every such circle:   *)
(* each arrives once, so from some time on none is in flight.              *)
EveryRequestAnswered == <>[](InFlight = {})
=============================================================================
