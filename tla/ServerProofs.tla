---------------------------- MODULE ServerProofs ----------------------------
(***************************************************************************)
(* What holds of any number of servers that start on one database file,    *)
(* for any schema script and however often a start is cut off; and of the  *)
(* worker threads and the connection pool of one that runs, for any number *)
(* of requests, threads and connections.                                   *)
(***************************************************************************)
EXTENDS Startup, Pool, FiniteSetTheorems, TLAPS

-----------------------------------------------------------------------------
(* The start: the inductive invariant. *)

Places == {"down", "secrets", "probe", "touch", "script", "migrate", "alter", "serving"}

Run(n) == {Script[i] : i \in 1..n}

(* What a server has reason to rely on where it is: from the script on      *)
(* there is a file, with what its own start has run of the script; all of  *)
(* it from the migration on, and the column when it serves.  Nothing that  *)
(* another server does takes that away.                                    *)
ServerOK(s) ==
  /\ pc[s] \in {"script", "migrate", "alter", "serving"} => file # None
  /\ pc[s] = "script" => Run(line[s]) \subseteq file.tables
  /\ pc[s] \in {"migrate", "alter", "serving"} => file.tables = Tables
  /\ pc[s] = "serving" => file.column

TypeOK ==
  /\ file \in File \cup {None}
  /\ pc \in [Servers -> Places]
  /\ line \in [Servers -> 0..Len(Script)]

IInv == TypeOK /\ \A s \in Servers : ServerOK(s)

-----------------------------------------------------------------------------
(* The file grows. *)
Grows ==
  /\ file' \in File \cup {None}
  /\ file # None => /\ file' # None
                    /\ file.tables \subseteq file'.tables
                    /\ file.column => file'.column

(* What the script creates, statement by statement.                         *)
LEMMA ScriptIsTables ==
  /\ Len(Script) \in Nat
  /\ Run(Len(Script)) = Tables
  /\ \A i \in 1..Len(Script) : Script[i] \in Tables
  /\ Run(0) = {} /\ 0 \in 0..Len(Script)
BY ScriptAssumption DEF Run, Tables, Range

(* While one server's step lets the file grow, the others stay where they   *)
(* are and keep what they rely on.                                         *)
LEMMA OthersKeep ==
  ASSUME IInv, Grows, NEW v \in Servers, pc'[v] = pc[v], line'[v] = line[v]
  PROVE  ServerOK(v)'
<1>1. file' # None => file'.tables \subseteq Tables
  BY DEF Grows, File
<1> QED
  BY <1>1 DEF IInv, TypeOK, ServerOK, Grows

(* A step of one server leaves the others sound if the file only grows.     *)
LEMMA ServerStep ==
  ASSUME IInv, Grows, NEW s \in Servers, NEW place \in Places, NEW n \in 0..Len(Script),
         pc' = [pc EXCEPT ![s] = place], line' = [line EXCEPT ![s] = n],
         ServerOK(s)'
  PROVE  IInv'
<1>1. TypeOK'
  BY DEF IInv, TypeOK, Grows
<1>2. ASSUME NEW v \in Servers \ {s} PROVE ServerOK(v)'
  <2>1. pc'[v] = pc[v] /\ line'[v] = line[v]
    BY DEF IInv, TypeOK
  <2> QED
    BY <2>1, OthersKeep
<1> QED
  BY <1>1, <1>2 DEF IInv

(* The actions of one server let the file grow. *)
LEMMA StepGrows == IInv /\ [Next]_vars => Grows
<1> SUFFICES ASSUME IInv, [Next]_vars PROVE Grows
  OBVIOUS
<1>1. CASE file' = file
  BY <1>1 DEF IInv, TypeOK, Grows
<1>2. ASSUME NEW s \in Servers, Touch(s) PROVE Grows
  BY <1>2 DEF Touch, Touched, EmptyFile, IInv, TypeOK, Grows, File
<1>3. ASSUME NEW s \in Servers, RunStatement(s) PROVE Grows
  <2>1. file \in File /\ Script[line[s] + 1] \in Tables
    BY <1>3, ScriptIsTables DEF RunStatement, IInv, TypeOK, ServerOK
  <2>2. file' \in File /\ file.tables \subseteq file'.tables /\ (file.column => file'.column)
    BY <1>3, <2>1 DEF RunStatement, Create, File
  <2> QED
    BY <2>2, NoneAssumption DEF Grows
<1>4. ASSUME NEW s \in Servers, AlterTable(s) PROVE Grows
  <2>1. file \in File
    BY <1>4 DEF AlterTable, IInv, TypeOK, ServerOK
  <2>2. file' \in File /\ file'.tables = file.tables /\ file'.column
    BY <1>4, <2>1 DEF AlterTable, File
  <2> QED
    BY <2>2, NoneAssumption DEF Grows
<1> QED
  BY <1>1, <1>2, <1>3, <1>4
     DEF Next, Step, vars, LoadSettings, DecodeSecrets, ProbeFile, EndScript, CheckColumn, Stop

(* A file left by a start that was cut off has some first tables.           *)
LEMMA InitIInv == Init => IInv
<1> SUFFICES ASSUME Init PROVE IInv
  OBVIOUS
<1>1. file \in File \cup {None}
  <2>1. \A n \in 0..Len(Script) : {Script[i] : i \in 1..n} \subseteq Tables
    BY ScriptIsTables
  <2>2. ASSUME NEW n \in 0..Len(Script),
               file = [tables |-> {Script[i] : i \in 1..n}, column |-> FALSE]
        PROVE  file \in File
    BY <2>1, <2>2 DEF File
  <2> QED
    BY <2>2 DEF Init
<1> QED
  BY <1>1, ScriptIsTables DEF Init, IInv, TypeOK, Places, ServerOK

(* Every step of every server keeps the invariant.                          *)
LEMMA NextIInv == IInv /\ [Next]_vars => IInv'
<1> SUFFICES ASSUME IInv, [Next]_vars PROVE IInv'
  OBVIOUS
<1>1. Grows
  BY StepGrows
<1>2. CASE UNCHANGED vars
  BY <1>2 DEF vars, IInv, TypeOK, ServerOK
<1>3. ASSUME NEW s \in Servers, NEW place \in Places, Goto(s, place), ServerOK(s)' PROVE IInv'
  <2>1. pc' = [pc EXCEPT ![s] = place] /\ line' = [line EXCEPT ![s] = 0]
    BY <1>3 DEF Goto
  <2> QED
    BY <1>1, <1>3, <2>1, ScriptIsTables, ServerStep
<1>4. ASSUME NEW s \in Servers, NEW secret, LoadSettings(s, secret) PROVE IInv'
  <2>1. CASE UNCHANGED <<pc, line>>
    BY <1>4, <2>1 DEF LoadSettings, IInv, TypeOK, ServerOK
  <2>2. CASE Goto(s, "secrets")
    BY <1>3, <1>4, <2>2 DEF Goto, Places, ServerOK, IInv, TypeOK
  <2> QED
    BY <1>4, <2>1, <2>2 DEF LoadSettings
<1>5. ASSUME NEW s \in Servers, NEW secret, DecodeSecrets(s, secret) PROVE IInv'
  BY <1>3, <1>5 DEF DecodeSecrets, Goto, Places, ServerOK, IInv, TypeOK
<1>6. ASSUME NEW s \in Servers, ProbeFile(s) PROVE IInv'
  BY <1>3, <1>6, ScriptIsTables DEF ProbeFile, Goto, Places, ServerOK, IInv, TypeOK
<1>7. ASSUME NEW s \in Servers, Touch(s) PROVE IInv'
  <2>1. EmptyFile \in File
    BY DEF EmptyFile, File
  <2>2. file' # None
    BY <1>7, <2>1, NoneAssumption DEF Touch, Touched
  <2> QED
    BY <1>3, <1>7, <2>2, ScriptIsTables DEF Touch, Goto, Places, ServerOK, IInv, TypeOK
<1>8. ASSUME NEW s \in Servers, RunStatement(s) PROVE IInv'
  <2>1. PICK n \in 0..Len(Script) : n = line[s] + 1
    BY <1>8, ScriptIsTables DEF RunStatement, IInv, TypeOK
  <2>2. Run(n) \subseteq file'.tables /\ file' # None
    <3>1. Run(n) = Run(line[s]) \cup {Script[n]}
      BY <2>1, ScriptIsTables DEF Run, IInv, TypeOK
    <3>2. Run(line[s]) \subseteq file.tables /\ file # None
      BY <1>8 DEF RunStatement, IInv, ServerOK
    <3> QED
      BY <1>1, <1>8, <2>1, <3>1, <3>2 DEF RunStatement, Create, Grows
  <2>3. line' = [line EXCEPT ![s] = n] /\ pc' = [pc EXCEPT ![s] = "script"]
    BY <1>8, <2>1 DEF RunStatement, IInv, TypeOK
  <2>4. ServerOK(s)'
    BY <2>2, <2>3 DEF ServerOK, IInv, TypeOK
  <2> QED
    BY <1>1, <2>3, <2>4, ServerStep DEF Places
<1>9. ASSUME NEW s \in Servers, EndScript(s) PROVE IInv'
  <2>1. file # None /\ file.tables = Tables
    BY <1>9, ScriptIsTables DEF EndScript, IInv, TypeOK, ServerOK, File
  <2> QED
    BY <1>3, <1>9, <2>1 DEF EndScript, Goto, Places, ServerOK, IInv, TypeOK
<1>10. ASSUME NEW s \in Servers, CheckColumn(s) PROVE IInv'
  BY <1>3, <1>10 DEF CheckColumn, Goto, Places, ServerOK, IInv, TypeOK
<1>11. ASSUME NEW s \in Servers, AlterTable(s) PROVE IInv'
  <2>1. file \in File /\ file.tables = Tables
    BY <1>11 DEF AlterTable, IInv, TypeOK, ServerOK
  <2>2. file' # None /\ file'.tables = Tables /\ file'.column
    BY <1>1, <1>11, <2>1, NoneAssumption DEF AlterTable, File, Grows
  <2> QED
    BY <1>3, <1>11, <2>2 DEF AlterTable, Goto, Places, ServerOK, IInv, TypeOK
<1>12. ASSUME NEW s \in Servers, Stop(s) PROVE IInv'
  BY <1>3, <1>12 DEF Stop, Goto, Places, ServerOK, IInv, TypeOK
<1> QED
  BY <1>2, <1>4, <1>5, <1>6, <1>7, <1>8, <1>9, <1>10, <1>11, <1>12 DEF Next, Step

(* File and servers are as described in every reachable state. *)
THEOREM Invariance == Spec => []IInv
BY InitIInv, NextIInv, PTL DEF Spec

-----------------------------------------------------------------------------
(* Whatever start left the file behind, was cut off or raced: a server that *)
(* serves has every table of schema.sql and the migrated column.           *)
THEOREM SchemaTheorem == Spec => []ServesCompleteSchema
<1>1. IInv => ServesCompleteSchema
  <2> SUFFICES ASSUME IInv, NEW s \in Servers, pc[s] = "serving"
               PROVE  file = [tables |-> Tables, column |-> TRUE]
    BY DEF ServesCompleteSchema
  <2>1. file \in File /\ file.tables = Tables /\ file.column
    BY DEF IInv, TypeOK, ServerOK
  <2> QED
    BY <2>1 DEF File
<1> QED
  BY <1>1, Invariance, PTL

(* init_sqlite_schema takes nothing from a file that others use or used. *)
THEOREM NothingLostTheorem == Spec => NothingLost
<1> DEFINE Kept == file # None => /\ file' # None
                                  /\ file.tables \subseteq file'.tables
                                  /\ file.column => file'.column
<1>1. IInv /\ [Next]_vars => [Kept]_vars
  BY StepGrows DEF Grows
<1>2. Spec => []IInv /\ [][Next]_vars
  BY Invariance DEF Spec
<1> QED
  BY <1>1, <1>2, PTL DEF NothingLost

-----------------------------------------------------------------------------
(* The pool: where a request can be. *)
PoolPlaces == {"new", "auth", "upload", "handler", "committed", "exit", "answered"}

(* Who occupies a thread, the loop or a connection is being served; on the  *)
(* loop runs the handler of a `send` only; a `send` that is past its        *)
(* authentication keeps its connection until it commits.                   *)
PoolIInv ==
  /\ at \in [Requests -> PoolPlaces]
  /\ threads \subseteq {r \in Requests : at[r] \in {"auth", "upload", "handler", "committed"}}
  /\ held \subseteq InFlight
  /\ loop # None => loop \in Sends /\ at[loop] \in {"handler", "committed"}
  /\ \A r \in Sends : at[r] \in {"upload", "handler"} => r \in held

(* Before the first request nothing is taken.                               *)
LEMMA PoolInitIInv == PoolInit => PoolIInv
BY DEF PoolInit, PoolIInv, PoolPlaces, InFlight, Requests

(* A thread that is done is given back, the connection is kept.             *)
LEMMA ReturnIInv ==
  ASSUME PoolIInv, NEW r \in Requests, NEW place \in {"upload", "handler", "exit"},
         Return(r, place), at[r] \notin {"new", "answered"},
         r \in Sends /\ place # "exit" => r \in held
  PROVE  PoolIInv'
<1>1. /\ at' = [at EXCEPT ![r] = place] /\ threads' = threads \ {r}
      /\ loop' = None /\ held' = held
  BY DEF Return
<1> QED
  BY <1>1 DEF PoolIInv, InFlight, PoolPlaces, Requests

(* Every step of every request keeps the invariant.                         *)
LEMMA PoolNextIInv == PoolIInv /\ [PoolNext]_poolvars => PoolIInv'
<1> SUFFICES ASSUME PoolIInv, [PoolNext]_poolvars PROVE PoolIInv'
  OBVIOUS
<1>1. CASE UNCHANGED poolvars
  BY <1>1 DEF poolvars, PoolIInv, InFlight
<1>2. ASSUME NEW r \in Requests, Arrive(r) PROVE PoolIInv'
  BY <1>2, PoolAssumption DEF Arrive, PoolIInv, InFlight, PoolPlaces, Requests
<1>3. ASSUME NEW r \in Requests, StartThread(r) PROVE PoolIInv'
  BY <1>3 DEF StartThread, NeedsThread, Waiting, PoolIInv, InFlight
<1>4. ASSUME NEW r \in Requests, StartOnLoop(r) PROVE PoolIInv'
  BY <1>4 DEF StartOnLoop, OnLoop, PoolIInv, InFlight
<1>5. ASSUME NEW r \in Requests, Connect(r) PROVE PoolIInv'
  BY <1>5, PoolAssumption DEF Connect, NeedsConnection, Running, PoolIInv, InFlight
<1>6. ASSUME NEW r \in Requests, Commit(r) PROVE PoolIInv'
  BY <1>6 DEF Commit, PoolIInv, InFlight, PoolPlaces, Requests
<1>7. ASSUME NEW r \in Requests, Exit(r) PROVE PoolIInv'
  BY <1>7, PoolAssumption DEF Exit, PoolIInv, InFlight, PoolPlaces, Requests
<1>8. ASSUME NEW r \in Requests,
             Authenticated(r) \/ ReadUpload(r) \/ Unauthenticated(r) \/ Finish(r) \/ PoolTimeout(r)
      PROVE  PoolIInv'
  <2>1. at[r] \notin {"new", "answered"}
    BY <1>8, PoolAssumption DEF Authenticated, ReadUpload, Unauthenticated, Finish, PoolTimeout,
                NeedsConnection, Running, PoolIInv
  <2>2. \E place \in {"upload", "handler", "exit"} :
          Return(r, place) /\ (r \in Sends /\ place # "exit" => r \in held)
    BY <1>8 DEF Authenticated, ReadUpload, Unauthenticated, Finish, PoolTimeout, PoolIInv
  <2> QED
    BY <2>1, <2>2, ReturnIInv
<1> QED
  BY <1>1, <1>2, <1>3, <1>4, <1>5, <1>6, <1>7, <1>8 DEF PoolNext, PoolStep

(* Threads, connections and the loop are occupied as described in every     *)
(* reachable state.                                                        *)
THEOREM PoolInvariance == PoolSpec => []PoolIInv
<1>1. PoolIInv /\ [PoolNext]_poolvars => PoolIInv'
  BY PoolNextIInv
<1> QED
  BY <1>1, PoolInitIInv, PTL DEF PoolSpec

-----------------------------------------------------------------------------
(* What is taken can be counted.                                            *)
LEMMA Finite ==
  ASSUME PoolIInv
  PROVE  /\ IsFiniteSet(InFlight) /\ IsFiniteSet(held) /\ IsFiniteSet(threads)
         /\ Cardinality(InFlight) \in Nat /\ Cardinality(held) \in Nat
         /\ Cardinality(threads) \in Nat
<1>1. InFlight \subseteq Requests /\ held \subseteq Requests /\ threads \subseteq Requests
  BY DEF PoolIInv, InFlight
<1>2. IsFiniteSet(InFlight) /\ IsFiniteSet(held) /\ IsFiniteSet(threads)
  BY <1>1, FS_Subset, PoolAssumption
<1> QED
  BY <1>2, FS_CardinalityType

(* Who finds the pool empty is told so by others: whichever way a request   *)
(* ends, get_db has given its connection back by then.                     *)
THEOREM ExhaustionTheorem == PoolSpec => []ExhaustedByLoad
<1>1. PoolIInv => ExhaustedByLoad
  <2> SUFFICES ASSUME PoolIInv, NEW r \in Requests, r \notin held, Free = 0
               PROVE  Cardinality(InFlight \ {r}) >= Connections
    BY DEF ExhaustedByLoad, NeedsConnection
  <2>1. held \subseteq InFlight \ {r} /\ IsFiniteSet(InFlight \ {r})
    BY Finite, FS_RemoveElement DEF PoolIInv
  <2>2. Cardinality(held) <= Cardinality(InFlight \ {r})
    BY <2>1, FS_Subset
  <2>3. Cardinality(held) = Connections
    BY Finite, PoolAssumption DEF Free
  <2>4. Cardinality(InFlight \ {r}) \in Nat
    BY <2>1, FS_CardinalityType
  <2> QED
    BY <2>2, <2>3, <2>4, PoolAssumption
<1> QED
  BY <1>1, PoolInvariance, PTL

(* A standstill has one of two causes: more requests than threads, or a     *)
(* `send` whose db.refresh blocks the loop.  Somebody holds a connection    *)
(* and does not give it back: for want of a thread, and then the threads    *)
(* are others', or because of the loop; and the loop, which a `send` keeps  *)
(* while it runs, waits for a connection only after that `send` committed. *)
THEOREM StallTheorem == PoolSpec => []StallHasCause
<1>1. PoolIInv => StallHasCause
  <2> SUFFICES ASSUME PoolIInv, Stalled, ~(loop # None /\ at[loop] = "committed")
               PROVE  Cardinality(InFlight) > Threads
    BY DEF StallHasCause
  <2>1. PICK h \in InFlight : h \in held
    <3>1. held # {}
      BY Finite, FS_EmptySet, PoolAssumption DEF Stalled, Free
    <3> QED
      BY <3>1 DEF PoolIInv
  <2>2. loop = None
    <3> SUFFICES ASSUME loop # None PROVE FALSE
      OBVIOUS
    <3>1. loop \in Sends /\ at[loop] = "handler" /\ loop \in InFlight /\ loop \in held
      BY DEF PoolIInv, InFlight, Requests
    <3> QED
      BY <3>1 DEF Stalled, NeedsConnection, NeedsThread, Waiting
  <2>3. h \notin threads /\ Cardinality(threads) = Threads
    BY <2>1, <2>2 DEF Stalled, NeedsConnection, NeedsThread, Waiting
  <2>4. threads \subseteq InFlight \ {h}
    BY <2>3 DEF PoolIInv, InFlight
  <2>5. /\ IsFiniteSet(InFlight \ {h})
        /\ Cardinality(InFlight \ {h}) = Cardinality(InFlight) - 1
    BY <2>1, Finite, FS_RemoveElement
  <2>6. Cardinality(threads) <= Cardinality(InFlight \ {h})
    BY <2>4, <2>5, FS_Subset
  <2> QED
    BY <2>3, <2>5, <2>6, Finite, PoolAssumption
<1> QED
  BY <1>1, PoolInvariance, PTL
=============================================================================
