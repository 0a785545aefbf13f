------------------------- MODULE RateLimiterThreads -------------------------
(***************************************************************************)
(* FixedWindowRateLimiter as the login and registration endpoints use it:  *)
(* from the threads of the server's pool, without a lock.  A thread can be *)
(* preempted after time.time(), after `get`, and in the comprehension of   *)
(* _cleanup, so what it writes may answer a question asked before another  *)
(* thread's write.  An endpoint checks its keys one after the other (the   *)
(* client's address, then address and e-mail) and stops at a refusal.      *)
(***************************************************************************)
EXTENDS Buckets

CONSTANTS
  Threads,           \* worker threads
  SharedKeys,        \* what requests are counted by
  Requests,          \* the key sequences that requests check
  SharedWindow,      \* window_seconds
  SharedLimit,       \* max_requests
  SharedMaxBuckets,  \* max_buckets
  SharedMaxTime,     \* the clock stops here (bound)
  MaxAdmissions      \* a key is not checked again after that many admissions (bound)

ASSUME SharedAssumption ==
  /\ Requests \subseteq Seq(SharedKeys) \ {<<>>}
  /\ SharedWindow \in Nat \ {0} /\ SharedLimit \in Nat \ {0} /\ SharedMaxTime \in Nat

VARIABLES
  table,   \* _buckets
  clock,   \* time.time()
  thread,  \* what each thread is doing
  letIn    \* history: the seconds in which requests of a key were admitted

sharedvars == <<table, clock, thread, letIn>>

Seconds == 0 .. SharedMaxTime

(* A thread that is "timed" has read the clock, "sweeping" is in the        *)
(* comprehension of _cleanup, "swept" past it, "got" has read its bucket.   *)
(* A sweep has copied what it keeps of the entries it read; `todo` it has   *)
(* not read yet.  `size` names the keys the dict had when it began, and    *)
(* `source` is the dict itself once another sweep has replaced it.         *)
NoSweep == [copy |-> NoBuckets, todo |-> {}, size |-> {}, replaced |-> FALSE, source |-> NoBuckets]

Idle == [at |-> "idle", keys |-> <<>>, now |-> 0, sweep |-> NoSweep,
         bucket |-> [count |-> 0, start |-> 0]]

SharedInit ==
  /\ table = NoBuckets
  /\ clock = 0
  /\ thread = [t \in Threads |-> Idle]
  /\ letIn = [k \in SharedKeys |-> << >>]

-----------------------------------------------------------------------------
Key(t) == Head(thread[t].keys)
Checking(k) ==
  {t \in Threads : \E i \in 1 .. Len(thread[t].keys) : thread[t].keys[i] = k}

Arrive(t, keys) ==
  /\ thread[t].at = "idle"
  /\ \A i \in 1 .. Len(keys) : Len(letIn[keys[i]]) + Cardinality(Checking(keys[i])) < MaxAdmissions
  /\ thread' = [thread EXCEPT ![t] = [Idle EXCEPT !.at = "start", !.keys = keys]]
  /\ UNCHANGED <<table, clock, letIn>>

ReadClock(t) ==
  /\ thread[t].at = "start"
  /\ thread' = [thread EXCEPT ![t].at = "timed", ![t].now = clock]
  /\ UNCHANGED <<table, clock, letIn>>

CheckSize(t) ==
  /\ thread[t].at = "timed"
  /\ thread' = IF Cardinality(DOMAIN table) > SharedMaxBuckets
                 THEN [thread EXCEPT ![t].at = "sweeping",
                         ![t].sweep = [NoSweep EXCEPT !.todo = DOMAIN table,
                                                      !.size = DOMAIN table]]
                 ELSE [thread EXCEPT ![t].at = "swept"]
  /\ UNCHANGED <<table, clock, letIn>>

Source(t) == IF thread[t].sweep.replaced THEN thread[t].sweep.source ELSE table
SameSize(t) == DOMAIN Source(t) = thread[t].sweep.size
Expiring(t, bucket) == bucket.start + SharedWindow < thread[t].now

(* The comprehension reads one more entry. *)
SweepKey(t, k) ==
  /\ thread[t].at = "sweeping"
  /\ SameSize(t)
  /\ k \in thread[t].sweep.todo
  /\ thread' = [thread EXCEPT ![t].sweep.todo = @ \ {k},
                   ![t].sweep.copy = IF Expiring(t, Source(t)[k]) THEN @
                                     ELSE Put(@, k, Source(t)[k])]
  /\ UNCHANGED <<table, clock, letIn>>

(* The copy takes the dict's place: what other threads wrote to entries     *)
(* already read is lost, and sweeps under way go on reading the old dict.  *)
Sweep(t) ==
  /\ thread[t].at = "sweeping"
  /\ SameSize(t)
  /\ thread[t].sweep.todo = {}
  /\ table' = thread[t].sweep.copy
  /\ thread' = [u \in Threads |->
       IF u = t
         THEN [thread[u] EXCEPT !.at = "swept", !.sweep = NoSweep]
       ELSE IF thread[u].at = "sweeping" /\ ~thread[u].sweep.replaced
         THEN [thread[u] EXCEPT !.sweep.replaced = TRUE, !.sweep.source = table]
       ELSE thread[u]]
  /\ UNCHANGED <<clock, letIn>>

(* "dictionary changed size during iteration": the request ends with a 500. *)
SweepFails(t) ==
  /\ thread[t].at = "sweeping"
  /\ ~SameSize(t)
  /\ thread' = [thread EXCEPT ![t] = Idle]
  /\ UNCHANGED <<table, clock, letIn>>

Get(t) ==
  /\ thread[t].at = "swept"
  /\ thread' = [thread EXCEPT ![t].at = "got",
                  ![t].bucket = IF Key(t) \in DOMAIN table
                                  THEN table[Key(t)]
                                  ELSE [count |-> 0, start |-> thread[t].now]]
  /\ UNCHANGED <<table, clock, letIn>>

Lapsed(t) == thread[t].now >= thread[t].bucket.start + SharedWindow

(* check() returned: the endpoint goes on to its next key, or is let in. *)
Passed(t) ==
  /\ letIn' = [letIn EXCEPT ![Key(t)] = Append(@, clock)]
  /\ thread' = [thread EXCEPT ![t] = IF Len(@.keys) = 1
                   THEN Idle
                   ELSE [Idle EXCEPT !.at = "start", !.keys = Tail(thread[t].keys)]]
  /\ UNCHANGED clock

Reset(t) ==
  /\ thread[t].at = "got"
  /\ Lapsed(t)
  /\ table' = Put(table, Key(t), [count |-> 1, start |-> thread[t].now])
  /\ Passed(t)

(* Mutant: a request is refused one request too early. *)
Over_OffByOne(bucket) == bucket.count + 1 >= SharedLimit

Over(bucket) == bucket.count + 1 > SharedLimit

Refuse(t) ==
  /\ thread[t].at = "got"
  /\ ~Lapsed(t)
  /\ Over(thread[t].bucket)
  /\ thread' = [thread EXCEPT ![t] = Idle]
  /\ UNCHANGED <<table, clock, letIn>>

Count(t) ==
  /\ thread[t].at = "got"
  /\ ~Lapsed(t)
  /\ ~Over(thread[t].bucket)
  /\ table' = Put(table, Key(t), [thread[t].bucket EXCEPT !.count = @ + 1])
  /\ Passed(t)

SharedTick ==
  /\ clock < SharedMaxTime
  /\ clock' = clock + 1
  /\ UNCHANGED <<table, thread, letIn>>

Step(t) ==
  \/ ReadClock(t)
  \/ CheckSize(t)
  \/ \E k \in SharedKeys : SweepKey(t, k)
  \/ Sweep(t)
  \/ SweepFails(t)
  \/ Get(t)
  \/ Reset(t)
  \/ Refuse(t)
  \/ Count(t)

SharedNext ==
  \/ \E t \in Threads : Step(t) \/ \E keys \in Requests : Arrive(t, keys)
  \/ SharedTick

SharedSpec == SharedInit /\ [][SharedNext]_sharedvars
-----------------------------------------------------------------------------
(* Lost and late writes only ever let more requests in: a request is still  *)
(* refused only after SharedLimit requests of its key were admitted less   *)
(* than SharedWindow before it read the clock, or since.                   *)
RefusalJustified ==
  [][\A t \in Threads :
       Refuse(t) =>
         AdmittedIn(letIn[Key(t)], {s \in Seconds : s + SharedWindow > thread[t].now}) >= SharedLimit]_sharedvars
=============================================================================
