---------------------------- MODULE RateLimiter -----------------------------
(***************************************************************************)
(* FixedWindowRateLimiter where check() runs undisturbed: on the event     *)
(* loop (the limiter of /messages/send), or with one thread.  The buckets  *)
(* are a dict kept in memory: a restart loses them.                        *)
(***************************************************************************)
EXTENDS Buckets

CONSTANTS
  Keys,          \* what requests are counted by (client address, address and e-mail)
  WindowSeconds, \* window_seconds
  MaxRequests,   \* max_requests
  MaxBuckets,    \* max_buckets
  MaxTime,       \* the clock stops here (bound)
  Closed         \* no open window, in the abstract limiter

ASSUME LimitsAssumption ==
  /\ WindowSeconds \in Nat \ {0}
  /\ MaxRequests \in Nat \ {0}
  /\ MaxBuckets \in Nat
  /\ MaxTime \in Nat
ASSUME ClosedAssumption == Closed \notin [count : Nat, start : Nat]

VARIABLES
  buckets,  \* _buckets: key -> (count, window_start)
  now,      \* time.time()
  verdict,  \* what the last step answered
  admitted  \* history: the seconds in which requests of a key were admitted

vars == <<buckets, now, verdict, admitted>>

Times == 0 .. MaxTime

Init ==
  /\ buckets = NoBuckets
  /\ now = 0
  /\ verdict = "none"
  /\ admitted = [k \in Keys |-> <<>>]

-----------------------------------------------------------------------------
(* Mutant: entries still in their window are dropped too. *)
Kept_Eager(k) == buckets[k].start >= now

(* _cleanup(now, force=True) keeps the entries that started at or after      *)
(* now - window_seconds.                                                   *)
Kept(k) == buckets[k].start + WindowSeconds >= now

(* Mutant: _cleanup is never reached. *)
Swept_Never == buckets

Swept ==
  IF Cardinality(DOMAIN buckets) > MaxBuckets
    THEN [k \in {j \in DOMAIN buckets : Kept(j)} |-> buckets[k]]
    ELSE buckets

Lookup(b, k) == IF k \in DOMAIN b THEN b[k] ELSE [count |-> 0, start |-> now]

(* Mutant: a window lasts one second less. *)
Expired_Early(bucket) == now - bucket.start >= WindowSeconds - 1

Expired(bucket) == now - bucket.start >= WindowSeconds

Admitted(k) ==
  /\ verdict' = "admitted"
  /\ admitted' = [admitted EXCEPT ![k] = Append(@, now)]

(* The three ways through check(key). *)
CheckExpired(k) ==
  /\ Expired(Lookup(Swept, k))
  /\ buckets' = Put(Swept, k, [count |-> 1, start |-> now])
  /\ Admitted(k)
  /\ UNCHANGED now

CheckOver(k) ==
  LET bucket == Lookup(Swept, k)
  IN /\ ~Expired(bucket)
     /\ bucket.count + 1 > MaxRequests
     /\ buckets' = Swept
     /\ verdict' = "refused"
     /\ UNCHANGED <<now, admitted>>

(* Mutant: one request more than max_requests. *)
CheckUnder_OffByOne(k) ==
  LET bucket == Lookup(Swept, k)
  IN /\ ~Expired(bucket)
     /\ bucket.count <= MaxRequests
     /\ buckets' = Put(Swept, k, [bucket EXCEPT !.count = @ + 1])
     /\ Admitted(k)
     /\ UNCHANGED now

CheckUnder(k) ==
  LET bucket == Lookup(Swept, k)
  IN /\ ~Expired(bucket)
     /\ bucket.count + 1 <= MaxRequests
     /\ buckets' = Put(Swept, k, [bucket EXCEPT !.count = @ + 1])
     /\ Admitted(k)
     /\ UNCHANGED now

Tick ==
  /\ now < MaxTime
  /\ now' = now + 1
  /\ verdict' = "none"
  /\ UNCHANGED <<buckets, admitted>>

(* The process is started again: nobody remembers what was admitted. *)
Restart ==
  /\ buckets' = NoBuckets
  /\ verdict' = "none"
  /\ admitted' = [k \in Keys |-> <<>>]
  /\ UNCHANGED now

Next ==
  \/ \E k \in Keys : CheckExpired(k) \/ CheckOver(k) \/ CheckUnder(k)
  \/ Tick
  \/ Restart

Spec == Init /\ [][Next]_vars

-----------------------------------------------------------------------------
(* Buckets are counted from the second they were opened in. *)
TypeOK ==
  /\ DOMAIN buckets \subseteq Keys
  /\ \A k \in DOMAIN buckets : buckets[k] \in [count : 1 .. MaxRequests, start : 0 .. now]
  /\ now \in Times
  /\ verdict \in {"none", "admitted", "refused"}
  /\ admitted \in [Keys -> Seq(Times)]

Admissions(k, times) == AdmittedIn(admitted[k], times)

(* Between restarts, no WindowSeconds seconds in a row admit more than       *)
(* 2 * MaxRequests - 1 requests of a key: the end of a window and the       *)
(* beginning of the next, less the request that opened the first.          *)
BurstBounded ==
  \A k \in Keys, t \in Times :
    Admissions(k, {u \in Times : u >= t /\ u < t + WindowSeconds}) <= 2 * MaxRequests - 1

(* max_buckets is no hard cap; but while the dict is over it, a key is      *)
(* added only next to entries of the last WindowSeconds.                   *)
MemoryBounded ==
  [][Cardinality(DOMAIN buckets) > MaxBuckets /\ ~(DOMAIN buckets' \subseteq DOMAIN buckets)
       => \A k \in DOMAIN buckets' : buckets'[k].start + WindowSeconds >= now]_vars

(* Cleanup and stale entries cannot be observed: the limiter answers as one *)
(* that forgets a window the second it ends.                               *)
OpenWindow(k) ==
  IF k \in DOMAIN buckets /\ ~Expired(buckets[k]) THEN buckets[k] ELSE Closed
FW == INSTANCE FixedWindow WITH
  window <- [k \in Keys |-> OpenWindow(k)],
  time <- now
ImplementsFixedWindow == FW!FWSpec
=============================================================================
