------------------------- MODULE RateLimiterProofs --------------------------
(***************************************************************************)
(* What holds of the rate limiter for any keys, any limit, any window and  *)
(* however long it runs.                                                   *)
(***************************************************************************)
EXTENDS RateLimiter, RateLimiterThreads, FiniteSetTheorems, SequenceTheorems, TLAPS

-----------------------------------------------------------------------------
(* The inductive invariant, about one key: `a` are the seconds in which its *)
(* requests were admitted, as indices so that a second counts repeatedly.  *)

From(a, t)   == {i \in DOMAIN a : a[i] >= t}
After(a, t)  == {i \in DOMAIN a : a[i] > t}
Before(a, t) == {i \in DOMAIN a : a[i] < t /\ a[i] + WindowSeconds > t}
Window(a, t) == {i \in DOMAIN a : a[i] >= t /\ a[i] < t + WindowSeconds}

(* A bucket counts what was admitted since its start, the request that      *)
(* opened it included; and shortly before that, one less than the limit    *)
(* was admitted at most: the request that opened the previous window came  *)
(* WindowSeconds earlier.                                                  *)
BucketOK(bucket, a) ==
  /\ bucket \in [count : 1 .. MaxRequests, start : 0 .. now]
  /\ \A i \in DOMAIN a : a[i] < bucket.start + WindowSeconds
  /\ Cardinality(From(a, bucket.start)) <= bucket.count
  /\ Cardinality(After(a, bucket.start)) <= bucket.count - 1
  /\ Cardinality(Before(a, bucket.start)) <= MaxRequests - 1

(* A key without a bucket, or whose window has ended, was admitted before   *)
(* now, and not too often.                                                 *)
ForgottenOK(a) ==
  /\ \A i \in DOMAIN a : a[i] < now
  /\ Cardinality(Before(a, now)) <= MaxRequests - 1

WindowsOK(a) == \A t \in Times : Cardinality(Window(a, t)) <= 2 * MaxRequests - 1

KeyOK(k, kept) ==
  IF k \in DOMAIN kept THEN BucketOK(kept[k], admitted[k]) ELSE ForgottenOK(admitted[k])

Typed ==
  /\ DOMAIN buckets \subseteq Keys
  /\ now \in Times
  /\ verdict \in {"none", "admitted", "refused"}
  /\ admitted \in [Keys -> Seq(Times)]

IInv ==
  /\ Typed
  /\ \A k \in Keys : KeyOK(k, buckets) /\ WindowsOK(admitted[k])

-----------------------------------------------------------------------------
(* Counting. *)

LEMMA SmallerSet ==
  ASSUME NEW S, NEW T, IsFiniteSet(T), S \subseteq T
  PROVE  /\ IsFiniteSet(S) /\ Cardinality(S) \in Nat /\ Cardinality(T) \in Nat
         /\ Cardinality(S) <= Cardinality(T)
BY FS_Subset, FS_CardinalityType

LEMMA OneMore ==
  ASSUME NEW S, NEW T, NEW x, IsFiniteSet(T), S \subseteq T \cup {x}
  PROVE  /\ Cardinality(S) \in Nat /\ Cardinality(T) \in Nat
         /\ Cardinality(S) <= Cardinality(T) + 1
<1>1. /\ IsFiniteSet(T \cup {x}) /\ Cardinality(T) \in Nat
      /\ Cardinality(T \cup {x}) <= Cardinality(T) + 1
  BY FS_AddElement, FS_CardinalityType
<1> QED
  BY <1>1, SmallerSet

LEMMA Indices ==
  ASSUME NEW a \in Seq(Times)
  PROVE  /\ IsFiniteSet(DOMAIN a)
         /\ \A t : /\ IsFiniteSet(From(a, t)) /\ IsFiniteSet(After(a, t))
                   /\ IsFiniteSet(Before(a, t)) /\ IsFiniteSet(Window(a, t))
<1>1. IsFiniteSet(DOMAIN a)
  <2>1. DOMAIN a = 1 .. Len(a) /\ Len(a) \in Int
    OBVIOUS
  <2> QED
    BY <2>1, FS_Interval
<1> QED
  BY <1>1, FS_Subset DEF From, After, Before, Window

LEMMA Appended ==
  ASSUME NEW a \in Seq(Times), NEW t \in Times
  PROVE  /\ Append(a, t) \in Seq(Times)
         /\ DOMAIN Append(a, t) = DOMAIN a \cup {Len(a) + 1}
         /\ Len(a) + 1 \notin DOMAIN a
         /\ \A i \in DOMAIN a : Append(a, t)[i] = a[i]
         /\ Append(a, t)[Len(a) + 1] = t
OBVIOUS

LEMMA Elements ==
  ASSUME NEW a \in Seq(Times)
  PROVE  \A i \in DOMAIN a : a[i] \in Times /\ a[i] \in Nat
BY LimitsAssumption DEF Times

-----------------------------------------------------------------------------
(* One key. *)

LEMMA NowType == Typed => now \in Nat
BY LimitsAssumption DEF Typed, Times

(* When a window has ended its bucket can be forgotten. *)
LEMMA WindowEnds ==
  ASSUME Typed, NEW a \in Seq(Times), NEW bucket, BucketOK(bucket, a),
         now >= bucket.start + WindowSeconds
  PROVE  ForgottenOK(a)
<1>1. \A i \in DOMAIN a : a[i] \in Nat
  BY Elements
<1>2. /\ bucket.count \in 1 .. MaxRequests /\ bucket.start \in Nat
      /\ Cardinality(After(a, bucket.start)) <= bucket.count - 1
      /\ \A i \in DOMAIN a : a[i] < bucket.start + WindowSeconds
  BY DEF BucketOK
<1>3. \A i \in DOMAIN a : a[i] < now
  BY <1>1, <1>2, NowType, LimitsAssumption
<1>4. Before(a, now) \subseteq After(a, bucket.start)
  BY <1>1, <1>2, NowType, LimitsAssumption DEF Before, After
<1>5. /\ Cardinality(Before(a, now)) \in Nat /\ Cardinality(After(a, bucket.start)) \in Nat
      /\ Cardinality(Before(a, now)) <= Cardinality(After(a, bucket.start))
  BY <1>4, Indices, SmallerSet
<1> QED
  BY <1>2, <1>3, <1>5, LimitsAssumption DEF ForgottenOK

(* The first request of a window. *)
LEMMA WindowOpens ==
  ASSUME Typed, NEW a \in Seq(Times), ForgottenOK(a)
  PROVE  BucketOK([count |-> 1, start |-> now], Append(a, now))
<1> DEFINE b == Append(a, now)
<1>1. \A i \in DOMAIN a : a[i] \in Nat /\ a[i] < now
  BY Elements DEF ForgottenOK
<1>2. now \in Times /\ now \in Nat
  BY NowType DEF Typed
<1>3. From(b, now) \subseteq {} \cup {Len(a) + 1} /\ After(b, now) = {} /\ Before(b, now) = Before(a, now)
  BY <1>1, <1>2, Appended DEF From, After, Before
<1>4. Cardinality(From(b, now)) <= 1 /\ Cardinality(After(b, now)) = 0
  <2>1. IsFiniteSet({}) /\ Cardinality({}) = 0
    BY FS_EmptySet
  <2>2. /\ Cardinality(From(b, now)) \in Nat
        /\ Cardinality(From(b, now)) <= Cardinality({}) + 1
    BY <1>3, <2>1, OneMore
  <2> QED
    BY <1>3, <2>1, <2>2
<1>5. \A i \in DOMAIN b : b[i] < now + WindowSeconds
  BY <1>1, <1>2, Appended, LimitsAssumption
<1>6. PICK opened : opened = [count |-> 1, start |-> now]
  OBVIOUS
<1>7. /\ opened \in [count : 1 .. MaxRequests, start : 0 .. now]
      /\ opened.count = 1 /\ opened.start = now
  BY <1>2, <1>6, LimitsAssumption
<1> HIDE DEF b
<1>8. BucketOK(opened, b)
  <2>1. Cardinality(Before(b, now)) <= MaxRequests - 1
    BY <1>3 DEF ForgottenOK
  <2>2. opened.count - 1 = 0
    BY <1>7
  <2> QED
    BY <1>4, <1>5, <1>7, <2>1, <2>2 DEF BucketOK
<1> QED
  BY <1>6, <1>8 DEF b

(* One more in an open window. *)
LEMMA WindowCounts ==
  ASSUME Typed, NEW a \in Seq(Times), NEW bucket, BucketOK(bucket, a),
         now < bucket.start + WindowSeconds, bucket.count + 1 <= MaxRequests
  PROVE  BucketOK([bucket EXCEPT !.count = @ + 1], Append(a, now))
<1> DEFINE b == Append(a, now)
           start == bucket.start
<1>1. \A i \in DOMAIN a : a[i] \in Nat
  BY Elements
<1>2. now \in Times /\ now \in Nat
  BY NowType DEF Typed
<1>3. /\ bucket.count \in 1 .. MaxRequests /\ start \in 0 .. now
      /\ bucket \in [count : 1 .. MaxRequests, start : 0 .. now]
  BY DEF BucketOK
<1>4. \A i \in DOMAIN b : b[i] < start + WindowSeconds
  BY <1>2, Appended DEF BucketOK
<1>5. Cardinality(From(b, start)) <= bucket.count + 1
  <2>1. From(b, start) \subseteq From(a, start) \cup {Len(a) + 1}
    BY <1>2, Appended DEF From
  <2>2. /\ Cardinality(From(b, start)) \in Nat /\ Cardinality(From(a, start)) \in Nat
        /\ Cardinality(From(b, start)) <= Cardinality(From(a, start)) + 1
    BY <2>1, Indices, OneMore
  <2> QED
    BY <1>3, <2>2, LimitsAssumption DEF BucketOK
<1>6. Cardinality(After(b, start)) <= bucket.count
  <2>1. After(b, start) \subseteq After(a, start) \cup {Len(a) + 1}
    BY <1>2, Appended DEF After
  <2>2. /\ Cardinality(After(b, start)) \in Nat /\ Cardinality(After(a, start)) \in Nat
        /\ Cardinality(After(b, start)) <= Cardinality(After(a, start)) + 1
    BY <2>1, Indices, OneMore
  <2> QED
    BY <1>3, <2>2, LimitsAssumption DEF BucketOK
<1>7. Before(b, start) = Before(a, start)
  BY <1>1, <1>2, <1>3, Appended DEF Before
<1>8. PICK more : more = [bucket EXCEPT !.count = @ + 1]
  OBVIOUS
<1>9. /\ more \in [count : 1 .. MaxRequests, start : 0 .. now]
      /\ more.count = bucket.count + 1 /\ more.start = start
  BY <1>3, <1>8, LimitsAssumption
<1> HIDE DEF b
<1>10. BucketOK(more, b)
  BY <1>3, <1>4, <1>5, <1>6, <1>7, <1>9 DEF BucketOK
<1> QED
  BY <1>8, <1>10 DEF b

(* A span that the new request falls into begins after the start of the     *)
(* bucket, or less than WindowSeconds before it.                           *)
LEMMA SpansOK ==
  ASSUME Typed, NEW a \in Seq(Times), WindowsOK(a), NEW bucket, BucketOK(bucket, Append(a, now))
  PROVE  WindowsOK(Append(a, now))
<1> DEFINE b == Append(a, now)
           start == bucket.start
<1>1. now \in Times /\ now \in Nat /\ b \in Seq(Times)
  BY NowType, Appended DEF Typed
<1>2. \A i \in DOMAIN b : b[i] \in Nat
  BY <1>1, Elements
<1>3. /\ bucket.count \in 1 .. MaxRequests /\ start \in 0 .. now
      /\ Cardinality(From(b, start)) <= bucket.count
      /\ Cardinality(Before(b, start)) <= MaxRequests - 1
  BY DEF BucketOK
<1> SUFFICES ASSUME NEW t \in Times
             PROVE  Cardinality(Window(b, t)) <= 2 * MaxRequests - 1
  BY DEF WindowsOK
<1>4. t \in Nat
  BY LimitsAssumption DEF Times
<1>5. CASE ~(now >= t /\ now < t + WindowSeconds)
  <2>1. Window(b, t) = Window(a, t)
    BY <1>1, <1>5, Appended DEF Window
  <2> QED
    BY <2>1 DEF WindowsOK
<1>6. CASE now >= t /\ now < t + WindowSeconds
  <2>1. Window(b, t) \subseteq From(b, start) \cup Before(b, start)
    BY <1>1, <1>2, <1>3, <1>4, <1>6, LimitsAssumption DEF Window, From, Before
  <2>2. From(b, start) \cap Before(b, start) = {}
    BY <1>2, <1>3 DEF From, Before
  <2>3. /\ IsFiniteSet(From(b, start)) /\ IsFiniteSet(Before(b, start))
        /\ Cardinality(From(b, start)) \in Nat /\ Cardinality(Before(b, start)) \in Nat
    BY <1>1, Indices, FS_CardinalityType
  <2>4. /\ IsFiniteSet(From(b, start) \cup Before(b, start))
        /\ Cardinality(From(b, start) \cup Before(b, start))
             = Cardinality(From(b, start)) + Cardinality(Before(b, start))
    <3>1. /\ IsFiniteSet(From(b, start) \cup Before(b, start))
          /\ Cardinality(From(b, start) \cup Before(b, start))
               = Cardinality(From(b, start)) + Cardinality(Before(b, start)) - Cardinality({})
      BY <2>2, <2>3, FS_Union
    <3> QED
      BY <2>3, <3>1, FS_EmptySet
  <2>5. /\ Cardinality(Window(b, t)) \in Nat
        /\ Cardinality(Window(b, t)) <= Cardinality(From(b, start) \cup Before(b, start))
    BY <2>1, <2>4, SmallerSet
  <2> QED
    BY <1>3, <2>3, <2>4, <2>5, LimitsAssumption
<1> QED
  BY <1>5, <1>6

-----------------------------------------------------------------------------
(* All keys. *)

(* _cleanup drops buckets whose window has ended, and no others. *)
LEMMA SweptOK ==
  ASSUME IInv
  PROVE  /\ DOMAIN Swept \subseteq DOMAIN buckets
         /\ \A k \in DOMAIN Swept : Swept[k] = buckets[k]
         /\ \A k \in DOMAIN buckets \ DOMAIN Swept : ~Kept(k)
         /\ \A k \in Keys : KeyOK(k, Swept)
<1>1. /\ DOMAIN Swept \subseteq DOMAIN buckets
      /\ \A k \in DOMAIN Swept : Swept[k] = buckets[k]
      /\ \A k \in DOMAIN buckets \ DOMAIN Swept : ~Kept(k)
  BY DEF Swept
<1>2. ASSUME NEW k \in Keys PROVE KeyOK(k, Swept)
  <2>1. CASE k \in DOMAIN Swept \/ k \notin DOMAIN buckets
    BY <1>1, <2>1 DEF IInv, KeyOK
  <2>2. CASE k \in DOMAIN buckets \ DOMAIN Swept
    <3>1. BucketOK(buckets[k], admitted[k]) /\ admitted[k] \in Seq(Times)
      BY <2>2 DEF IInv, KeyOK, Typed
    <3>2. now >= buckets[k].start + WindowSeconds
      BY <1>1, <2>2, <3>1, NowType, LimitsAssumption DEF Kept, BucketOK, IInv
    <3> QED
      BY <2>2, <3>1, <3>2, WindowEnds DEF IInv, KeyOK
  <2> QED
    BY <2>1, <2>2
<1> QED
  BY <1>1, <1>2

(* A request is admitted into `bucket`. *)
LEMMA AdmittedIInv ==
  ASSUME IInv, NEW k \in Keys, NEW bucket, buckets' = Put(Swept, k, bucket), Admitted(k), now' = now,
         BucketOK(bucket, Append(admitted[k], now))
  PROVE  IInv'
<1>1. /\ admitted' = [admitted EXCEPT ![k] = Append(admitted[k], now)]
      /\ admitted \in [Keys -> Seq(Times)] /\ now \in Times
  BY DEF Admitted, IInv, Typed
<1>2. Append(admitted[k], now) \in Seq(Times)
  BY <1>1, Appended
<1>3. /\ DOMAIN buckets' = DOMAIN Swept \cup {k} /\ buckets'[k] = bucket
      /\ \A j \in DOMAIN Swept : j # k => buckets'[j] = Swept[j]
  BY DEF Put
<1>4. Typed'
  BY <1>1, <1>2, <1>3, SweptOK DEF IInv, Typed, Admitted
<1>5. WindowsOK(admitted[k])'
  BY <1>1, SpansOK DEF IInv
<1>6. KeyOK(k, buckets)'
  BY <1>1, <1>3 DEF KeyOK, BucketOK
<1>7. ASSUME NEW j \in Keys, j # k PROVE KeyOK(j, buckets)' /\ WindowsOK(admitted[j])'
  <2>1. admitted'[j] = admitted[j] /\ (j \in DOMAIN buckets' <=> j \in DOMAIN Swept)
        /\ (j \in DOMAIN Swept => buckets'[j] = Swept[j])
    BY <1>1, <1>3, <1>7
  <2>2. KeyOK(j, Swept) /\ WindowsOK(admitted[j])
    BY SweptOK DEF IInv
  <2> QED
    BY <2>1, <2>2 DEF KeyOK, BucketOK, ForgottenOK, WindowsOK
<1> QED
  BY <1>4, <1>5, <1>6, <1>7 DEF IInv

(* What check(key) finds: the bucket, or none and then a fresh one. *)
LEMMA LookupCases ==
  ASSUME IInv, NEW k \in Keys
  PROVE  \/ /\ k \in DOMAIN Swept /\ Lookup(Swept, k) = buckets[k]
            /\ BucketOK(buckets[k], admitted[k])
         \/ /\ k \notin DOMAIN Swept /\ Lookup(Swept, k) = [count |-> 0, start |-> now]
            /\ ForgottenOK(admitted[k]) /\ ~Expired(Lookup(Swept, k))
<1>1. CASE k \in DOMAIN Swept
  BY <1>1, SweptOK DEF Lookup, KeyOK
<1>2. CASE k \notin DOMAIN Swept
  BY <1>2, SweptOK, NowType, LimitsAssumption DEF Lookup, KeyOK, Expired, IInv
<1> QED
  BY <1>1, <1>2

LEMMA ExpiredIInv ==
  ASSUME IInv, NEW k \in Keys, CheckExpired(k)
  PROVE  IInv'
<1>1. admitted[k] \in Seq(Times) /\ Typed
  BY DEF IInv, Typed
<1>2. BucketOK(buckets[k], admitted[k]) /\ now >= buckets[k].start + WindowSeconds
  BY <1>1, LookupCases, NowType, LimitsAssumption DEF CheckExpired, Expired, BucketOK
<1>3. BucketOK([count |-> 1, start |-> now], Append(admitted[k], now))
  BY <1>1, <1>2, WindowEnds, WindowOpens
<1> QED
  BY <1>3, AdmittedIInv DEF CheckExpired

LEMMA UnderIInv ==
  ASSUME IInv, NEW k \in Keys, CheckUnder(k)
  PROVE  IInv'
<1> DEFINE bucket == Lookup(Swept, k)
           more == [bucket EXCEPT !.count = @ + 1]
<1>1. admitted[k] \in Seq(Times) /\ Typed
  BY DEF IInv, Typed
<1>2. BucketOK(more, Append(admitted[k], now))
  <2>1. CASE bucket = buckets[k] /\ BucketOK(buckets[k], admitted[k])
    <3>1. now < buckets[k].start + WindowSeconds /\ buckets[k].count + 1 <= MaxRequests
      BY <1>1, <2>1, NowType, LimitsAssumption DEF CheckUnder, Expired, BucketOK
    <3> QED
      BY <1>1, <2>1, <3>1, WindowCounts
  <2>2. CASE bucket = [count |-> 0, start |-> now] /\ ForgottenOK(admitted[k])
    <3>1. more = [count |-> 1, start |-> now]
      BY <2>2
    <3> QED
      BY <1>1, <2>2, <3>1, WindowOpens
  <2> QED
    BY <2>1, <2>2, LookupCases
<1> QED
  BY <1>2, AdmittedIInv DEF CheckUnder

LEMMA NothingAdmitted ==
  /\ <<>> \in Seq(Times) /\ DOMAIN (<<>>) = {}
  /\ \A t : Cardinality(Before(<<>>, t)) <= MaxRequests - 1
  /\ \A t : Cardinality(Window(<<>>, t)) <= 2 * MaxRequests - 1
<1>1. <<>> \in Seq(Times) /\ DOMAIN (<<>>) = {}
  OBVIOUS
<1>2. \A t : Before(<<>>, t) = {} /\ Window(<<>>, t) = {}
  BY <1>1 DEF Before, Window
<1>3. Cardinality({}) = 0 /\ 0 <= MaxRequests - 1 /\ 0 <= 2 * MaxRequests - 1
  BY FS_EmptySet, LimitsAssumption
<1> QED
  BY <1>1, <1>2, <1>3

LEMMA InitIInv == Init => IInv
BY NothingAdmitted, LimitsAssumption
   DEF Init, NoBuckets, IInv, Typed, KeyOK, ForgottenOK, WindowsOK, Times

LEMMA NextIInv == IInv /\ [Next]_vars => IInv'
<1> SUFFICES ASSUME IInv, [Next]_vars PROVE IInv'
  OBVIOUS
<1>1. CASE UNCHANGED vars
  BY <1>1 DEF vars, IInv, Typed, KeyOK, BucketOK, ForgottenOK, WindowsOK
<1>2. ASSUME NEW k \in Keys, CheckOver(k) PROVE IInv'
  <2>1. buckets' = Swept /\ now' = now /\ admitted' = admitted /\ verdict' = "refused"
    BY <1>2 DEF CheckOver
  <2>2. Typed'
    BY <2>1, SweptOK DEF IInv, Typed
  <2>3. ASSUME NEW j \in Keys PROVE KeyOK(j, buckets)' /\ WindowsOK(admitted[j])'
    BY <2>1, SweptOK DEF IInv, KeyOK, BucketOK, ForgottenOK, WindowsOK
  <2> QED
    BY <2>2, <2>3 DEF IInv
<1>3. CASE Tick
  <2>1. now \in Nat /\ now' = now + 1 /\ buckets' = buckets /\ admitted' = admitted
    BY <1>3, NowType DEF Tick, IInv
  <2>2. Typed'
    BY <1>3, <2>1, LimitsAssumption DEF Tick, IInv, Typed, Times
  <2>3. ASSUME NEW k \in Keys PROVE KeyOK(k, buckets)' /\ WindowsOK(admitted[k])'
    <3>1. CASE k \in DOMAIN buckets
      BY <2>1, <3>1 DEF IInv, KeyOK, BucketOK, WindowsOK
    <3>2. CASE k \notin DOMAIN buckets
      <4> DEFINE a == admitted[k]
      <4>1. a \in Seq(Times) /\ ForgottenOK(a) /\ WindowsOK(a)
        BY <3>2 DEF IInv, Typed, KeyOK
      <4>2. Before(a, now + 1) \subseteq Before(a, now) /\ \A i \in DOMAIN a : a[i] < now + 1
        BY <2>1, <4>1, Elements, LimitsAssumption DEF ForgottenOK, Before
      <4>3. /\ Cardinality(Before(a, now + 1)) \in Nat /\ Cardinality(Before(a, now)) \in Nat
            /\ Cardinality(Before(a, now + 1)) <= Cardinality(Before(a, now))
        BY <4>1, <4>2, Indices, SmallerSet
      <4>4. Cardinality(Before(a, now + 1)) <= MaxRequests - 1
        BY <4>1, <4>3, LimitsAssumption DEF ForgottenOK
      <4> QED
        BY <2>1, <3>2, <4>1, <4>2, <4>4 DEF KeyOK, ForgottenOK, WindowsOK
    <3> QED
      BY <3>1, <3>2
  <2> QED
    BY <2>2, <2>3 DEF IInv
<1>4. CASE Restart
  BY <1>4, NothingAdmitted DEF Restart, NoBuckets, IInv, Typed, KeyOK, ForgottenOK, WindowsOK
<1> QED
  BY <1>1, <1>2, <1>3, <1>4, ExpiredIInv, UnderIInv DEF Next

(* Buckets and admissions are as described in every reachable state. *)
THEOREM Invariance == Spec => []IInv
BY InitIInv, NextIInv, PTL DEF Spec

-----------------------------------------------------------------------------
(* What the runs check, for any keys, limits and windows. *)

(* No bucket counts more than max_requests or starts in the future. *)
THEOREM Typing == Spec => []TypeOK
<1>1. IInv => TypeOK
  BY DEF IInv, Typed, KeyOK, BucketOK, TypeOK
<1> QED
  BY <1>1, Invariance, PTL

(* check() admits at most 2 * max_requests - 1 requests of a key in any      *)
(* window_seconds, wherever they begin, whatever _cleanup has dropped.     *)
THEOREM BurstTheorem == Spec => []BurstBounded
<1>1. IInv => BurstBounded
  <2> SUFFICES ASSUME IInv, NEW k \in Keys, NEW t \in Times
               PROVE  Admissions(k, {u \in Times : u >= t /\ u < t + WindowSeconds})
                        <= 2 * MaxRequests - 1
    BY DEF BurstBounded
  <2>1. admitted[k] \in Seq(Times)
    BY DEF IInv, Typed
  <2>2. {i \in DOMAIN admitted[k] : admitted[k][i] \in {u \in Times : u >= t /\ u < t + WindowSeconds}}
          = Window(admitted[k], t)
    BY <2>1, Elements DEF Window
  <2> QED
    BY <2>2 DEF Admissions, AdmittedIn, IInv, WindowsOK
<1> QED
  BY <1>1, Invariance, PTL

(* While the dict is over max_buckets, check() adds a key only after it has *)
(* dropped every entry older than window_seconds.                          *)
THEOREM MemoryTheorem == Spec => MemoryBounded
<1> DEFINE Bounded == Cardinality(DOMAIN buckets) > MaxBuckets /\ ~(DOMAIN buckets' \subseteq DOMAIN buckets)
                        => \A k \in DOMAIN buckets' : buckets'[k].start + WindowSeconds >= now
<1>1. IInv /\ [Next]_vars => [Bounded]_vars
  <2> SUFFICES ASSUME IInv, Next, Cardinality(DOMAIN buckets) > MaxBuckets,
                      ~(DOMAIN buckets' \subseteq DOMAIN buckets), NEW j \in DOMAIN buckets'
               PROVE  buckets'[j].start + WindowSeconds >= now
    OBVIOUS
  <2>1. PICK k \in Keys : CheckExpired(k) \/ CheckUnder(k)
    BY SweptOK DEF Next, CheckOver, Tick, Restart, NoBuckets
  <2>2. PICK bucket : /\ buckets' = Put(Swept, k, bucket)
                      /\ bucket.start = now \/ (k \in DOMAIN Swept /\ bucket.start = Swept[k].start)
    <3>1. CASE CheckExpired(k)
      <4>1. PICK bucket : bucket = [count |-> 1, start |-> now]
        OBVIOUS
      <4>2. buckets' = Put(Swept, k, bucket) /\ bucket.start = now
        BY <3>1, <4>1 DEF CheckExpired
      <4> QED
        BY <4>2
    <3>2. CASE CheckUnder(k)
      <4>1. PICK bucket : bucket = [Lookup(Swept, k) EXCEPT !.count = @ + 1]
        OBVIOUS
      <4>2. Lookup(Swept, k) \in [count : Nat, start : Nat]
        BY LookupCases, NowType DEF BucketOK, IInv
      <4>3. bucket.start = Lookup(Swept, k).start
        BY <4>1, <4>2
      <4>4. buckets' = Put(Swept, k, bucket)
        BY <3>2, <4>1 DEF CheckUnder
      <4>5. bucket.start = now \/ (k \in DOMAIN Swept /\ bucket.start = Swept[k].start)
        BY <4>3 DEF Lookup
      <4> QED
        BY <4>4, <4>5
    <3> QED
      BY <2>1, <3>1, <3>2
  <2>3. \A i \in DOMAIN Swept : Swept[i].start + WindowSeconds >= now
    BY DEF Swept, Kept
  <2> QED
    BY <2>2, <2>3, NowType, LimitsAssumption DEF Put, IInv
<1>2. Spec => []IInv /\ [][Next]_vars
  BY Invariance DEF Spec
<1> QED
  BY <1>1, <1>2, PTL DEF MemoryBounded

-----------------------------------------------------------------------------
(* The limiter implements the one that forgets a window when it ends. *)

(* Dropping ended windows closes none. *)
LEMMA SweepUnseen ==
  ASSUME IInv, NEW k \in Keys
  PROVE  /\ k \in DOMAIN Swept /\ ~Expired(buckets[k]) => OpenWindow(k) = buckets[k]
         /\ k \notin DOMAIN Swept \/ Expired(buckets[k]) => OpenWindow(k) = Closed
<1>1. CASE k \in DOMAIN Swept \/ k \notin DOMAIN buckets
  BY <1>1, SweptOK DEF OpenWindow
<1>2. CASE k \in DOMAIN buckets \ DOMAIN Swept
  <2>1. ~Kept(k) /\ buckets[k].start \in Nat /\ now \in Nat
    BY <1>2, SweptOK, NowType DEF IInv, KeyOK, BucketOK
  <2>2. Expired(buckets[k])
    BY <2>1, LimitsAssumption DEF Kept, Expired
  <2> QED
    BY <1>2, <2>2 DEF OpenWindow
<1> QED
  BY <1>1, <1>2

LEMMA OthersUnseen ==
  ASSUME IInv, NEW k \in Keys, now' = now, NEW j \in Keys \ {k},
         buckets' = Swept \/ \E bucket : buckets' = Put(Swept, k, bucket)
  PROVE  OpenWindow(j)' = OpenWindow(j)
<1>1. /\ j \in DOMAIN buckets' <=> j \in DOMAIN Swept
      /\ j \in DOMAIN Swept => buckets'[j] = buckets[j]
  BY SweptOK DEF Put
<1> QED
  BY <1>1, SweepUnseen DEF OpenWindow, Expired

LEMMA CheckOpens ==
  ASSUME IInv, NEW k \in Keys,
         CheckExpired(k) \/ (CheckUnder(k) /\ k \notin DOMAIN Swept)
  PROVE  FW!Open(k)
<1>1. PICK bucket : bucket = [count |-> 1, start |-> now]
  OBVIOUS
<1>2. buckets' = Put(Swept, k, bucket) /\ now' = now /\ verdict' = "admitted"
  BY <1>1, LookupCases DEF CheckExpired, CheckUnder, Admitted
<1>3. OpenWindow(k) = Closed
  BY SweepUnseen, LookupCases DEF CheckExpired
<1>4. OpenWindow(k)' = bucket
  BY <1>1, <1>2, NowType, LimitsAssumption DEF OpenWindow, Put, Expired, IInv
<1> QED
  BY <1>1, <1>2, <1>3, <1>4, OthersUnseen DEF FW!Open

LEMMA CheckAdmits ==
  ASSUME IInv, NEW k \in Keys, CheckUnder(k), k \in DOMAIN Swept
  PROVE  FW!Admit(k)
<1>1. PICK bucket : bucket = buckets[k]
  OBVIOUS
<1>2. bucket \in [count : Nat, start : Nat] /\ now \in Nat /\ Lookup(Swept, k) = bucket
  BY <1>1, LookupCases, NowType DEF BucketOK, IInv
<1>3. PICK more : more = [bucket EXCEPT !.count = @ + 1]
  OBVIOUS
<1>4. more.start = bucket.start
  BY <1>2, <1>3
<1>5. /\ ~Expired(bucket) /\ bucket.count + 1 <= MaxRequests
      /\ buckets' = Put(Swept, k, more) /\ now' = now /\ verdict' = "admitted"
  BY <1>2, <1>3 DEF CheckUnder, Admitted
<1>6. OpenWindow(k) = bucket /\ bucket # Closed
  BY <1>1, <1>2, <1>5, SweepUnseen, ClosedAssumption
<1>7. OpenWindow(k)' = more
  BY <1>4, <1>5 DEF OpenWindow, Put, Expired
<1>8. \A j \in Keys \ {k} : OpenWindow(j)' = OpenWindow(j)
  BY <1>5, OthersUnseen
<1>9. bucket.count < MaxRequests
  BY <1>2, <1>5, LimitsAssumption
<1> QED
  BY <1>3, <1>5, <1>6, <1>7, <1>8, <1>9 DEF FW!Admit

LEMMA CheckRefuses ==
  ASSUME IInv, NEW k \in Keys, CheckOver(k)
  PROVE  FW!Refuse(k)
<1>1. /\ ~Expired(Lookup(Swept, k)) /\ Lookup(Swept, k).count + 1 > MaxRequests
      /\ buckets' = Swept /\ now' = now /\ verdict' = "refused"
  BY DEF CheckOver
<1>2. k \in DOMAIN Swept /\ Lookup(Swept, k) = buckets[k] /\ buckets[k] \in [count : Nat, start : Nat]
  BY <1>1, LookupCases, NowType, LimitsAssumption DEF BucketOK, IInv
<1>3. OpenWindow(k) = buckets[k] /\ OpenWindow(k)' = buckets[k]
  BY <1>1, <1>2, SweepUnseen, SweptOK DEF OpenWindow, Expired
<1> QED
  BY <1>1, <1>2, <1>3, OthersUnseen, ClosedAssumption, LimitsAssumption DEF FW!Refuse

LEMMA TickPasses ==
  ASSUME IInv, Tick
  PROVE  FW!Pass
<1>1. now \in Nat /\ now' = now + 1 /\ buckets' = buckets /\ verdict' = "none"
  BY NowType DEF Tick, IInv
<1>2. ASSUME NEW k \in Keys
      PROVE  OpenWindow(k)' = IF OpenWindow(k) # Closed /\ OpenWindow(k).start + WindowSeconds > now'
                                THEN OpenWindow(k) ELSE Closed
  <2>1. CASE k \in DOMAIN buckets
    <3>1. buckets[k] \in [count : Nat, start : Nat]
      BY <1>1, <2>1 DEF IInv, KeyOK, BucketOK
    <3> QED
      BY <1>1, <2>1, <3>1, LimitsAssumption, ClosedAssumption DEF OpenWindow, Expired
  <2>2. CASE k \notin DOMAIN buckets
    BY <1>1, <2>2 DEF OpenWindow
  <2> QED
    BY <2>1, <2>2
<1> QED
  BY <1>1, <1>2 DEF FW!Pass

(* Every answer of check() is the one a limiter would give that knew        *)
(* nothing of _cleanup and of entries left behind.                         *)
THEOREM WindowTheorem == Spec => ImplementsFixedWindow
<1>1. Init => FW!FWInit
  BY DEF Init, NoBuckets, FW!FWInit, OpenWindow
<1>2. IInv /\ [Next]_vars => [FW!FWNext]_(FW!fwvars)
  <2> SUFFICES ASSUME IInv, [Next]_vars PROVE FW!FWNext \/ UNCHANGED FW!fwvars
    OBVIOUS
  <2>1. CASE UNCHANGED vars
    BY <2>1 DEF vars, FW!fwvars, OpenWindow, Expired
  <2>2. ASSUME NEW k \in Keys, CheckExpired(k) \/ CheckOver(k) \/ CheckUnder(k) PROVE FW!FWNext
    BY <2>2, CheckOpens, CheckAdmits, CheckRefuses DEF FW!FWNext
  <2>3. CASE Restart
    BY <2>3 DEF Restart, NoBuckets, FW!Restart, FW!FWNext, OpenWindow
  <2>4. CASE Tick
    BY <2>4, TickPasses DEF FW!FWNext
  <2> QED
    BY <2>1, <2>2, <2>3, <2>4 DEF Next
<1> QED
  BY <1>1, <1>2, Invariance, PTL DEF Spec, ImplementsFixedWindow, FW!FWSpec
-----------------------------------------------------------------------------
(* RateLimiterThreads. *)

Bucket == [count : Nat, start : Nat]
Dicts == UNION {[D -> Bucket] : D \in SUBSET SharedKeys}
Sweeps == [copy : Dicts, todo : SUBSET SharedKeys, size : SUBSET SharedKeys,
           replaced : BOOLEAN, source : Dicts]
Thread == [at : {"idle", "start", "timed", "sweeping", "swept", "got"}, keys : Seq(SharedKeys),
           now : Nat, sweep : Sweeps, bucket : Bucket]

Since(time) == {s \in Seconds : s >= time}

(* A bucket counts no more than was let in since its start, for whoever has *)
(* it: the dict, the copy a sweep makes, a dict that was replaced, or a     *)
(* thread that is about to write.                                          *)
Covered(bucket, seconds, time) ==
  bucket.start <= time /\ bucket.count <= AdmittedIn(seconds, Since(bucket.start))
Justified(dict, record, time) == \A k \in DOMAIN dict : Covered(dict[k], record[k], time)
ThreadOK(r, record, time) ==
  /\ r.now <= time
  /\ r.at # "idle" => r.keys # << >>
  /\ r.sweep.todo \subseteq r.sweep.size
  /\ Justified(r.sweep.copy, record, time) /\ Justified(r.sweep.source, record, time)
  /\ r.at = "got" => Covered(r.bucket, record[Head(r.keys)], time)

SharedTypeOK ==
  /\ table \in Dicts
  /\ clock \in Seconds
  /\ thread \in [Threads -> Thread]
  /\ letIn \in [SharedKeys -> Seq(Seconds)]

SharedIInv ==
  /\ SharedTypeOK
  /\ Justified(table, letIn, clock)
  /\ \A t \in Threads : ThreadOK(thread[t], letIn, clock)

(* A request that is let in is one more since any time that has come. *)
LEMMA AdmittedGrows ==
  ASSUME NEW a \in Seq(Seconds), NEW time \in Seconds, NEW start \in Nat
  PROVE  /\ AdmittedIn(a, Since(start)) \in Nat
         /\ AdmittedIn(Append(a, time), Since(start)) \in Nat
         /\ AdmittedIn(Append(a, time), Since(start)) >= AdmittedIn(a, Since(start))
         /\ start <= time => AdmittedIn(Append(a, time), Since(start)) >= AdmittedIn(a, Since(start)) + 1
<1> DEFINE b == Append(a, time)
           A == {i \in DOMAIN a : a[i] \in Since(start)}
           B == {i \in DOMAIN b : b[i] \in Since(start)}
<1>1. /\ DOMAIN a = 1 .. Len(a) /\ DOMAIN b = 1 .. (Len(a) + 1) /\ Len(a) \in Nat
      /\ \A i \in DOMAIN a : b[i] = a[i]
      /\ b[Len(a) + 1] = time
  OBVIOUS
<1>2. IsFiniteSet(DOMAIN a) /\ IsFiniteSet(DOMAIN b)
  BY <1>1, FS_Interval
<1>3. IsFiniteSet(A) /\ IsFiniteSet(B) /\ Cardinality(A) \in Nat /\ Cardinality(B) \in Nat
  BY <1>2, FS_Subset, FS_CardinalityType
<1>4. A \subseteq B
  BY <1>1
<1>5. Cardinality(B) >= Cardinality(A)
  BY <1>3, <1>4, FS_Subset
<1>6. ASSUME start <= time PROVE Cardinality(B) >= Cardinality(A) + 1
  <2>1. A \cup {Len(a) + 1} \subseteq B /\ Len(a) + 1 \notin A
    BY <1>1, <1>4, <1>6 DEF Since
  <2>2. Cardinality(A \cup {Len(a) + 1}) = Cardinality(A) + 1
    BY <1>3, <2>1, FS_AddElement
  <2>3. Cardinality(B) >= Cardinality(A \cup {Len(a) + 1})
    BY <1>3, <2>1, FS_Subset
  <2> QED
    BY <1>3, <2>2, <2>3
<1>7. AdmittedIn(a, Since(start)) = Cardinality(A) /\ AdmittedIn(b, Since(start)) = Cardinality(B)
  BY DEF AdmittedIn
<1> HIDE DEF A, B
<1> QED
  BY <1>3, <1>5, <1>6, <1>7

(* What is let in stays let in. *)
Longer(record, later, time) ==
  \A k \in SharedKeys : later[k] = record[k] \/ later[k] = Append(record[k], time)

LEMMA CoveredStays ==
  ASSUME NEW record \in [SharedKeys -> Seq(Seconds)], NEW later, NEW time \in Seconds,
         NEW now2 \in Seconds, time <= now2, Longer(record, later, time), NEW k \in SharedKeys,
         NEW bucket \in Bucket, Covered(bucket, record[k], time)
  PROVE  Covered(bucket, later[k], now2)
<1>1. /\ bucket.start \in Nat /\ bucket.count \in Nat /\ time \in Nat /\ now2 \in Nat
      /\ record[k] \in Seq(Seconds)
  BY DEF Bucket, Seconds
<1>2. /\ AdmittedIn(record[k], Since(bucket.start)) \in Nat
      /\ AdmittedIn(Append(record[k], time), Since(bucket.start)) \in Nat
      /\ AdmittedIn(Append(record[k], time), Since(bucket.start)) >= AdmittedIn(record[k], Since(bucket.start))
  BY <1>1, AdmittedGrows
<1>3. bucket.start <= now2
  BY <1>1 DEF Covered
<1>4. CASE later[k] = record[k]
  BY <1>3, <1>4 DEF Covered
<1>5. CASE later[k] = Append(record[k], time)
  <2>1. bucket.count <= AdmittedIn(record[k], Since(bucket.start))
    BY DEF Covered
  <2>2. bucket.count <= AdmittedIn(Append(record[k], time), Since(bucket.start))
    BY <1>1, <1>2, <2>1
  <2> QED
    BY <1>3, <1>5, <2>2 DEF Covered
<1> QED
  BY <1>4, <1>5 DEF Longer

LEMMA DictEntries ==
  ASSUME NEW dict \in Dicts
  PROVE  DOMAIN dict \subseteq SharedKeys /\ \A k \in DOMAIN dict : dict[k] \in Bucket
BY DEF Dicts

LEMMA JustifiedStays ==
  ASSUME NEW record \in [SharedKeys -> Seq(Seconds)], NEW later, NEW time \in Seconds,
         NEW now2 \in Seconds, time <= now2, Longer(record, later, time),
         NEW dict \in Dicts, Justified(dict, record, time)
  PROVE  Justified(dict, later, now2)
BY DictEntries, CoveredStays DEF Justified

LEMMA ThreadStays ==
  ASSUME NEW record \in [SharedKeys -> Seq(Seconds)], NEW later, NEW time \in Seconds,
         NEW now2 \in Seconds, time <= now2, Longer(record, later, time),
         NEW r \in Thread, ThreadOK(r, record, time)
  PROVE  ThreadOK(r, later, now2)
<1>1. /\ r.sweep.copy \in Dicts /\ r.sweep.source \in Dicts /\ r.bucket \in Bucket /\ r.now \in Nat
      /\ time \in Nat /\ now2 \in Nat
  BY DEF Thread, Sweeps, Seconds
<1>2. Justified(r.sweep.copy, later, now2) /\ Justified(r.sweep.source, later, now2)
  BY <1>1, JustifiedStays DEF ThreadOK
<1>3. r.at = "got" => Covered(r.bucket, later[Head(r.keys)], now2)
  <2>1. r.at = "got" => Head(r.keys) \in SharedKeys
    BY DEF ThreadOK, Thread
  <2> QED
    BY <1>1, <2>1, CoveredStays DEF ThreadOK
<1> QED
  BY <1>1, <1>2, <1>3 DEF ThreadOK

(* One thread goes on, in any way that keeps to the invariant. *)
LEMMA OneThread ==
  ASSUME SharedIInv, clock' = clock, letIn' \in [SharedKeys -> Seq(Seconds)],
         Longer(letIn, letIn', clock),
         table' \in Dicts, Justified(table', letIn', clock),
         NEW t \in Threads, NEW r \in Thread, ThreadOK(r, letIn', clock),
         thread' = [thread EXCEPT ![t] = r]
  PROVE  SharedIInv'
<1>1. clock \in Seconds /\ clock <= clock
  BY DEF SharedIInv, SharedTypeOK, Seconds
<1>2. thread' \in [Threads -> Thread]
  BY DEF SharedIInv, SharedTypeOK
<1>3. ASSUME NEW u \in Threads PROVE ThreadOK(thread'[u], letIn', clock)
  <2>1. u # t => thread'[u] = thread[u] /\ thread[u] \in Thread /\ ThreadOK(thread[u], letIn, clock)
    BY DEF SharedIInv, SharedTypeOK
  <2>2. u = t => thread'[u] = r
    BY DEF SharedIInv, SharedTypeOK
  <2>3. letIn \in [SharedKeys -> Seq(Seconds)]
    BY DEF SharedIInv, SharedTypeOK
  <2> QED
    BY <1>1, <2>1, <2>2, <2>3, ThreadStays
<1> QED
  BY <1>1, <1>2, <1>3 DEF SharedIInv, SharedTypeOK

LEMMA QuietThread ==
  ASSUME SharedIInv, UNCHANGED <<table, clock, letIn>>,
         NEW t \in Threads, NEW r \in Thread, ThreadOK(r, letIn, clock),
         thread' = [thread EXCEPT ![t] = r]
  PROVE  SharedIInv'
<1>1. Longer(letIn, letIn', clock)
  BY DEF Longer
<1> QED
  BY <1>1, OneThread DEF SharedIInv, SharedTypeOK

LEMMA IdleThread ==
  /\ NoBuckets \in Dicts /\ NoSweep \in Sweeps /\ Idle \in Thread
  /\ \A record, time : Justified(NoBuckets, record, time)
  /\ \A record, time : time \in Nat => ThreadOK(Idle, record, time)
<1>1. NoBuckets \in Dicts /\ DOMAIN NoBuckets = {}
  BY DEF NoBuckets, Dicts, Bucket
<1>2. NoSweep \in Sweeps /\ Idle \in Thread
  BY <1>1 DEF NoSweep, Sweeps, Idle, Thread, Bucket
<1>3. \A record, time : Justified(NoBuckets, record, time)
  BY <1>1 DEF Justified
<1>4. ASSUME NEW record, NEW time \in Nat PROVE ThreadOK(Idle, record, time)
  BY <1>3, <1>4 DEF ThreadOK, Idle, NoSweep
<1> QED
  BY <1>1, <1>2, <1>3, <1>4

LEMMA ThreadType ==
  ASSUME SharedIInv, NEW t \in Threads
  PROVE  /\ thread[t] \in Thread /\ ThreadOK(thread[t], letIn, clock)
         /\ clock \in Seconds /\ clock \in Nat /\ table \in Dicts /\ DOMAIN table \subseteq SharedKeys
         /\ Justified(table, letIn, clock) /\ letIn \in [SharedKeys -> Seq(Seconds)]
BY DictEntries DEF SharedIInv, SharedTypeOK, Seconds

LEMMA ArriveSafe ==
  ASSUME SharedIInv, NEW t \in Threads, NEW keys \in Requests, Arrive(t, keys)
  PROVE  SharedIInv'
<1> DEFINE r == [Idle EXCEPT !.at = "start", !.keys = keys]
<1>1. keys \in Seq(SharedKeys) /\ keys # << >>
  BY SharedAssumption
<1>2. r \in Thread
  BY <1>1, IdleThread DEF Thread
<1>3. ThreadOK(r, letIn, clock)
  BY <1>1, IdleThread, ThreadType DEF ThreadOK, Idle
<1> QED
  BY <1>2, <1>3, QuietThread DEF Arrive

LEMMA ReadClockSafe ==
  ASSUME SharedIInv, NEW t \in Threads, ReadClock(t)
  PROVE  SharedIInv'
<1> DEFINE r == [thread[t] EXCEPT !.at = "timed", !.now = clock]
<1>1. r \in Thread
  BY ThreadType DEF Thread
<1>2. ThreadOK(r, letIn, clock)
  BY ThreadType DEF ThreadOK, Thread, ReadClock
<1> QED
  BY <1>1, <1>2, QuietThread DEF ReadClock

LEMMA CheckSizeSafe ==
  ASSUME SharedIInv, NEW t \in Threads, CheckSize(t)
  PROVE  SharedIInv'
<1> DEFINE swept == [thread[t] EXCEPT !.at = "swept"]
           sweep == [NoSweep EXCEPT !.todo = DOMAIN table, !.size = DOMAIN table]
           sweeping == [thread[t] EXCEPT !.at = "sweeping", !.sweep = sweep]
<1>1. swept \in Thread /\ ThreadOK(swept, letIn, clock)
  BY ThreadType DEF ThreadOK, Thread, CheckSize
<1>2. /\ sweep \in Sweeps /\ sweep.todo = sweep.size
      /\ sweep.copy = NoBuckets /\ sweep.source = NoBuckets
  BY IdleThread, ThreadType DEF Sweeps, NoSweep
<1>3. sweeping \in Thread /\ ThreadOK(sweeping, letIn, clock)
  <2> HIDE DEF sweep
  <2>1. thread[t] \in Thread /\ ThreadOK(thread[t], letIn, clock) /\ thread[t].at = "timed"
    BY ThreadType DEF CheckSize
  <2>2. /\ sweeping \in Thread
        /\ sweeping.at = "sweeping" /\ sweeping.sweep = sweep
        /\ sweeping.now = thread[t].now /\ sweeping.keys = thread[t].keys
    BY <1>2, <2>1 DEF Thread
  <2> HIDE DEF sweeping
  <2> QED
    BY <1>2, <2>1, <2>2, IdleThread DEF ThreadOK
<1>4. thread' = [thread EXCEPT ![t] = swept] \/ thread' = [thread EXCEPT ![t] = sweeping]
  BY ThreadType DEF CheckSize
<1> QED
  BY <1>1, <1>3, <1>4, QuietThread DEF CheckSize

LEMMA PutJustified ==
  ASSUME NEW dict \in Dicts, NEW k \in SharedKeys, NEW bucket \in Bucket, NEW record, NEW time,
         Justified(dict, record, time), Covered(bucket, record[k], time)
  PROVE  Put(dict, k, bucket) \in Dicts /\ Justified(Put(dict, k, bucket), record, time)
<1>1. /\ DOMAIN Put(dict, k, bucket) = DOMAIN dict \cup {k}
      /\ \A j \in DOMAIN dict \cup {k} :
           Put(dict, k, bucket)[j] = IF j = k THEN bucket ELSE dict[j]
  BY DEF Put
<1>2. DOMAIN dict \cup {k} \in SUBSET SharedKeys /\ Put(dict, k, bucket) \in [DOMAIN dict \cup {k} -> Bucket]
  BY DictEntries DEF Put
<1> QED
  BY <1>1, <1>2 DEF Justified, Dicts

(* The entry a sweep reads is justified in the dict it is read from. *)
LEMMA SweepKeySafe ==
  ASSUME SharedIInv, NEW t \in Threads, NEW k \in SharedKeys, SweepKey(t, k)
  PROVE  SharedIInv'
<1> DEFINE copy == IF Expiring(t, Source(t)[k]) THEN thread[t].sweep.copy
                   ELSE Put(thread[t].sweep.copy, k, Source(t)[k])
           sweep == [thread[t].sweep EXCEPT !.todo = @ \ {k}, !.copy = copy]
           r == [thread[t] EXCEPT !.sweep = sweep]
<1>1. /\ thread[t].sweep \in Sweeps /\ thread[t].sweep.copy \in Dicts
      /\ thread[t].sweep.todo \subseteq thread[t].sweep.size
      /\ Justified(thread[t].sweep.copy, letIn, clock)
  BY ThreadType DEF Thread, Sweeps, ThreadOK
<1>2. Source(t) \in Dicts /\ Justified(Source(t), letIn, clock)
  BY ThreadType DEF Source, Thread, Sweeps, ThreadOK
<1>3. k \in DOMAIN Source(t)
  BY <1>1 DEF SweepKey, SameSize
<1>4. Source(t)[k] \in Bucket /\ Covered(Source(t)[k], letIn[k], clock)
  BY <1>2, <1>3, DictEntries DEF Justified
<1>5. copy \in Dicts /\ Justified(copy, letIn, clock)
  BY <1>1, <1>4, PutJustified
<1>6. /\ sweep \in Sweeps /\ sweep.todo \subseteq sweep.size
      /\ sweep.copy = copy /\ sweep.source = thread[t].sweep.source
  <2> HIDE DEF copy
  <2> QED
    BY <1>1, <1>5 DEF Sweeps
<1>7. r \in Thread /\ ThreadOK(r, letIn, clock)
  <2> HIDE DEF copy, sweep
  <2> QED
    BY <1>5, <1>6, ThreadType DEF Thread, ThreadOK, SweepKey
<1>8. thread' = [thread EXCEPT ![t] = r]
  BY <1>1, ThreadType DEF SweepKey
<1> QED
  BY <1>7, <1>8, QuietThread DEF SweepKey

(* The dict a sweep makes is justified, and so is the one it replaces, which *)
(* other sweeps go on reading.                                             *)
LEMMA SweepSafe ==
  ASSUME SharedIInv, NEW t \in Threads, Sweep(t)
  PROVE  SharedIInv'
<1>1. table' \in Dicts /\ Justified(table', letIn, clock)
  BY ThreadType DEF Sweep, Thread, Sweeps, ThreadOK
<1>2. ASSUME NEW u \in Threads
      PROVE  thread'[u] \in Thread /\ ThreadOK(thread'[u], letIn, clock)
  <2>1. CASE u = t
    <3>1. thread'[u] = [thread[u] EXCEPT !.at = "swept", !.sweep = NoSweep]
      BY <2>1 DEF Sweep
    <3>2. NoSweep.todo = NoSweep.size /\ NoSweep.copy = NoBuckets /\ NoSweep.source = NoBuckets
      BY DEF NoSweep
    <3>3. thread[u] \in Thread /\ ThreadOK(thread[u], letIn, clock) /\ thread[u].at = "sweeping"
      BY <2>1, ThreadType DEF Sweep
    <3>4. /\ thread'[u] \in Thread /\ thread'[u].sweep = NoSweep /\ thread'[u].at = "swept"
          /\ thread'[u].now = thread[u].now /\ thread'[u].keys = thread[u].keys
      BY <3>1, <3>3, IdleThread DEF Thread
    <3> QED
      BY <3>2, <3>3, <3>4, IdleThread DEF ThreadOK
  <2>2. CASE u # t /\ thread[u].at = "sweeping" /\ ~thread[u].sweep.replaced
    <3> DEFINE sweep == [thread[u].sweep EXCEPT !.replaced = TRUE, !.source = table]
    <3>1. thread[u].sweep \in Sweeps /\ thread[u] \in Thread /\ ThreadOK(thread[u], letIn, clock)
      BY ThreadType DEF Thread
    <3>2. thread'[u] = [thread[u] EXCEPT !.sweep = sweep]
      BY <2>2, <3>1 DEF Sweep
    <3>3. /\ sweep \in Sweeps /\ sweep.todo = thread[u].sweep.todo /\ sweep.size = thread[u].sweep.size
          /\ sweep.copy = thread[u].sweep.copy /\ sweep.source = table
      BY <3>1, ThreadType DEF Sweeps
    <3> HIDE DEF sweep
    <3>4. /\ thread'[u] \in Thread /\ thread'[u].sweep = sweep /\ thread'[u].at = thread[u].at
          /\ thread'[u].now = thread[u].now /\ thread'[u].keys = thread[u].keys
      BY <3>1, <3>2, <3>3 DEF Thread
    <3>5. Justified(table, letIn, clock)
      BY ThreadType
    <3>6. thread[u].at = "sweeping"
      BY <2>2
    <3> HIDE <2>2
    <3> QED
      BY <3>1, <3>3, <3>4, <3>5, <3>6 DEF ThreadOK
  <2>3. CASE u # t /\ ~(thread[u].at = "sweeping" /\ ~thread[u].sweep.replaced)
    BY <2>3, ThreadType DEF Sweep
  <2> QED
    BY <2>1, <2>2, <2>3
<1>3. thread' \in [Threads -> Thread]
  BY <1>2 DEF Sweep
<1> QED
  BY <1>1, <1>2, <1>3 DEF SharedIInv, SharedTypeOK, Sweep

LEMMA GetSafe ==
  ASSUME SharedIInv, NEW t \in Threads, Get(t)
  PROVE  SharedIInv'
<1> DEFINE bucket == IF Key(t) \in DOMAIN table THEN table[Key(t)] ELSE [count |-> 0, start |-> thread[t].now]
           r == [thread[t] EXCEPT !.at = "got", !.bucket = bucket]
<1>1. thread[t].keys \in Seq(SharedKeys) /\ thread[t].keys # << >> /\ thread[t].now \in Nat /\ thread[t].now <= clock
  BY ThreadType DEF Get, Thread, ThreadOK
<1>2. Key(t) \in SharedKeys /\ Key(t) = Head(thread[t].keys)
  BY <1>1 DEF Key
<1>3. AdmittedIn(letIn[Key(t)], Since(thread[t].now)) \in Nat
  BY <1>1, <1>2, ThreadType, AdmittedGrows
<1>4. bucket \in Bucket /\ Covered(bucket, letIn[Key(t)], clock)
  <2>1. CASE Key(t) \in DOMAIN table
    BY <2>1, ThreadType, DictEntries DEF Justified
  <2>2. CASE Key(t) \notin DOMAIN table
    BY <2>2, <1>1, <1>3 DEF Bucket, Covered
  <2> QED
    BY <2>1, <2>2
<1>5. r \in Thread /\ ThreadOK(r, letIn, clock)
  <2> HIDE DEF bucket
  <2> QED
    BY <1>1, <1>2, <1>4, ThreadType DEF Thread, ThreadOK
<1>6. thread' = [thread EXCEPT ![t] = r]
  BY ThreadType DEF Get
<1> QED
  BY <1>5, <1>6, QuietThread DEF Get

(* Who is let in is counted; the bucket that is written counts it, or less. *)
LEMMA PassedSafe ==
  ASSUME SharedIInv, NEW t \in Threads, thread[t].at = "got", NEW bucket \in Bucket,
         bucket.start <= clock,
         bucket.count <= AdmittedIn(letIn[Key(t)], Since(bucket.start)) + 1,
         table' = Put(table, Key(t), bucket), Passed(t)
  PROVE  SharedIInv'
<1> DEFINE k == Key(t)
           r == IF Len(thread[t].keys) = 1 THEN Idle
                ELSE [Idle EXCEPT !.at = "start", !.keys = Tail(thread[t].keys)]
<1>1. thread[t].keys \in Seq(SharedKeys) /\ thread[t].keys # << >>
  BY ThreadType DEF Thread, ThreadOK
<1>2. k \in SharedKeys
  BY <1>1 DEF Key
<1>3. /\ letIn' \in [SharedKeys -> Seq(Seconds)] /\ letIn'[k] = Append(letIn[k], clock)
      /\ Longer(letIn, letIn', clock)
  BY <1>2, ThreadType DEF Passed, Longer
<1>4. Covered(bucket, letIn'[k], clock)
  <2>1. bucket.start \in Nat /\ bucket.count \in Nat
    BY DEF Bucket
  <2>2. /\ AdmittedIn(letIn[k], Since(bucket.start)) \in Nat
        /\ AdmittedIn(Append(letIn[k], clock), Since(bucket.start)) \in Nat
        /\ AdmittedIn(Append(letIn[k], clock), Since(bucket.start)) >= AdmittedIn(letIn[k], Since(bucket.start)) + 1
    BY <1>2, <2>1, ThreadType, AdmittedGrows
  <2> QED
    BY <1>3, <2>1, <2>2 DEF Covered
<1>5. Justified(table, letIn', clock)
  <2>1. clock \in Seconds /\ clock <= clock
    BY ThreadType
  <2> QED
    BY <1>3, <2>1, ThreadType, JustifiedStays
<1>6. table' \in Dicts /\ Justified(table', letIn', clock)
  BY <1>2, <1>4, <1>5, ThreadType, PutJustified
<1>7. r \in Thread /\ ThreadOK(r, letIn', clock)
  <2>1. CASE Len(thread[t].keys) = 1
    BY <2>1, IdleThread, ThreadType
  <2>2. CASE Len(thread[t].keys) # 1
    <3>1. Tail(thread[t].keys) \in Seq(SharedKeys) /\ Tail(thread[t].keys) # << >>
      <4>1. Len(thread[t].keys) \in Nat /\ Len(thread[t].keys) # 0
        BY <1>1, EmptySeq
      <4>2. /\ Tail(thread[t].keys) \in Seq(SharedKeys)
            /\ Len(Tail(thread[t].keys)) = Len(thread[t].keys) - 1
        BY <1>1, HeadTailProperties
      <4>3. Len(Tail(thread[t].keys)) # 0 /\ Len(<< >>) = 0
        BY <2>2, <4>1, <4>2
      <4> QED
        BY <4>2, <4>3
    <3> QED
      BY <2>2, <3>1, IdleThread, ThreadType DEF Thread, ThreadOK, Idle
  <2> QED
    BY <2>1, <2>2
<1>8. thread' = [thread EXCEPT ![t] = r] /\ clock' = clock
  BY ThreadType DEF Passed
<1> QED
  BY <1>3, <1>6, <1>7, <1>8, OneThread

LEMMA ResetSafe ==
  ASSUME SharedIInv, NEW t \in Threads, Reset(t)
  PROVE  SharedIInv'
<1>1. PICK bucket : bucket = [count |-> 1, start |-> thread[t].now]
  OBVIOUS
<1>2. /\ thread[t].keys \in Seq(SharedKeys) /\ thread[t].keys # << >>
      /\ thread[t].now \in Nat /\ thread[t].now <= clock
  BY ThreadType DEF Reset, Thread, ThreadOK
<1>3. bucket \in Bucket /\ bucket.start = thread[t].now /\ bucket.count = 1
  BY <1>1, <1>2 DEF Bucket
<1>4. Key(t) \in SharedKeys
  BY <1>2 DEF Key
<1>5. AdmittedIn(letIn[Key(t)], Since(bucket.start)) \in Nat
  BY <1>2, <1>3, <1>4, ThreadType, AdmittedGrows
<1>6. bucket.count <= AdmittedIn(letIn[Key(t)], Since(bucket.start)) + 1
  BY <1>3, <1>5
<1> QED
  BY <1>1, <1>2, <1>3, <1>6, PassedSafe DEF Reset

LEMMA CountSafe ==
  ASSUME SharedIInv, NEW t \in Threads, Count(t)
  PROVE  SharedIInv'
<1>1. PICK bucket : bucket = [thread[t].bucket EXCEPT !.count = @ + 1]
  OBVIOUS
<1>2. /\ thread[t].keys \in Seq(SharedKeys) /\ thread[t].keys # << >>
      /\ thread[t].bucket \in Bucket /\ Covered(thread[t].bucket, letIn[Key(t)], clock)
  BY ThreadType DEF Count, Thread, ThreadOK, Key
<1>3. bucket \in Bucket /\ bucket.start = thread[t].bucket.start /\ bucket.count = thread[t].bucket.count + 1
  BY <1>1, <1>2 DEF Bucket
<1>4. Key(t) \in SharedKeys /\ bucket.start \in Nat /\ thread[t].bucket.count \in Nat
  BY <1>2, <1>3 DEF Key, Bucket
<1>5. AdmittedIn(letIn[Key(t)], Since(bucket.start)) \in Nat
  BY <1>4, ThreadType, AdmittedGrows
<1>6. bucket.start <= clock /\ bucket.count <= AdmittedIn(letIn[Key(t)], Since(bucket.start)) + 1
  BY <1>2, <1>3, <1>4, <1>5 DEF Covered
<1> QED
  BY <1>1, <1>3, <1>6, PassedSafe DEF Count

LEMMA TickSafe ==
  ASSUME SharedIInv, SharedTick
  PROVE  SharedIInv'
<1>1. clock' \in Seconds /\ clock \in Seconds /\ clock <= clock' /\ letIn \in [SharedKeys -> Seq(Seconds)]
  BY SharedAssumption DEF SharedTick, Seconds, SharedIInv, SharedTypeOK
<1>2. Longer(letIn, letIn', clock)
  BY DEF SharedTick, Longer
<1>3. Justified(table', letIn', clock')
  BY <1>1, <1>2, JustifiedStays DEF SharedTick, SharedIInv, SharedTypeOK
<1>4. \A t \in Threads : ThreadOK(thread'[t], letIn', clock')
  BY <1>1, <1>2, ThreadStays, ThreadType DEF SharedTick
<1> QED
  BY <1>1, <1>3, <1>4 DEF SharedTick, SharedIInv, SharedTypeOK

LEMMA SharedInitIInv == SharedInit => SharedIInv
<1> SUFFICES ASSUME SharedInit PROVE SharedIInv
  OBVIOUS
<1>1. 0 \in Seconds /\ 0 \in Nat
  BY SharedAssumption DEF Seconds
<1> QED
  BY <1>1, IdleThread DEF SharedInit, SharedIInv, SharedTypeOK

LEMMA SharedNextIInv == SharedIInv /\ [SharedNext]_sharedvars => SharedIInv'
<1> SUFFICES ASSUME SharedIInv, [SharedNext]_sharedvars PROVE SharedIInv'
  OBVIOUS
<1>1. CASE UNCHANGED sharedvars
  BY <1>1 DEF sharedvars, SharedIInv, SharedTypeOK
<1>2. ASSUME NEW t \in Threads, SweepFails(t) \/ Refuse(t) PROVE SharedIInv'
  BY <1>2, IdleThread, ThreadType, QuietThread DEF SweepFails, Refuse
<1>3. ASSUME NEW t \in Threads, Step(t) PROVE SharedIInv'
  BY <1>2, <1>3, ReadClockSafe, CheckSizeSafe, SweepKeySafe, SweepSafe, GetSafe, ResetSafe, CountSafe DEF Step
<1> QED
  BY <1>1, <1>3, ArriveSafe, TickSafe DEF SharedNext

LEMMA SharedInvariance == SharedSpec => []SharedIInv
BY SharedInitIInv, SharedNextIInv, PTL DEF SharedSpec

(* However many threads race for the limiter, whatever they overwrite, and  *)
(* whenever a sweep is overtaken: no request is refused without as many    *)
(* others let in as the limit allows.                                      *)
THEOREM RefusalTheorem == SharedSpec => RefusalJustified
<1> DEFINE Unexpired(time) == {s \in Seconds : s + SharedWindow > time}
<1>1. ASSUME SharedIInv, NEW t \in Threads, Refuse(t)
      PROVE  AdmittedIn(letIn[Key(t)], Unexpired(thread[t].now)) >= SharedLimit
  <2> DEFINE a == letIn[Key(t)]
             start == thread[t].bucket.start
  <2>1. /\ thread[t].keys \in Seq(SharedKeys) /\ thread[t].keys # << >> /\ thread[t].now \in Nat
        /\ thread[t].bucket \in Bucket /\ Covered(thread[t].bucket, a, clock)
    BY <1>1, ThreadType DEF Refuse, Thread, ThreadOK, Key
  <2>2. a \in Seq(Seconds) /\ start \in Nat /\ thread[t].bucket.count \in Nat
    BY <1>1, <2>1, ThreadType DEF Key, Bucket
  <2>3. AdmittedIn(a, Since(start)) \in Nat /\ AdmittedIn(a, Since(start)) >= SharedLimit
    <3>1. thread[t].bucket.count >= SharedLimit
      BY <1>1, <2>2, SharedAssumption DEF Refuse, Over
    <3>2. AdmittedIn(a, Since(start)) \in Nat
      BY <1>1, <2>2, ThreadType, AdmittedGrows
    <3> QED
      BY <2>1, <2>2, <3>1, <3>2, SharedAssumption DEF Covered
  <2>4. Since(start) \subseteq Unexpired(thread[t].now)
    BY <1>1, <2>1, <2>2, SharedAssumption DEF Refuse, Lapsed, Since, Seconds
  <2>5. DOMAIN a = 1 .. Len(a) /\ Len(a) \in Nat
    BY <2>2
  <2>6. /\ IsFiniteSet({i \in DOMAIN a : a[i] \in Unexpired(thread[t].now)})
        /\ {i \in DOMAIN a : a[i] \in Since(start)} \subseteq {i \in DOMAIN a : a[i] \in Unexpired(thread[t].now)}
    <3> HIDE DEF a, start, Unexpired
    <3>1. IsFiniteSet(DOMAIN a)
      BY <2>5, FS_Interval
    <3> QED
      BY <2>4, <3>1, FS_Subset
  <2>7. /\ AdmittedIn(a, Unexpired(thread[t].now)) \in Nat
        /\ AdmittedIn(a, Since(start)) <= AdmittedIn(a, Unexpired(thread[t].now))
    BY <2>6, SmallerSet DEF AdmittedIn
  <2> QED
    BY <2>3, <2>7, SharedAssumption
<1>2. SharedIInv => \A t \in Threads : Refuse(t) =>
        AdmittedIn(letIn[Key(t)], {s \in Seconds : s + SharedWindow > thread[t].now}) >= SharedLimit
  BY <1>1
<1> QED
  BY <1>2, SharedInvariance, PTL DEF RefusalJustified
=============================================================================
