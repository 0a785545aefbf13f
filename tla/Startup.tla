------------------------------ MODULE Startup -------------------------------
(***************************************************************************)
(* The start of the server: settings, secrets, then the database file, its *)
(* schema script and the migration of a file an earlier version left.      *)
(* Several servers may start on one file, a start may be cut off anywhere. *)
(*                                                                         *)
(* sqlite3's executescript commits first and leaves no transaction open,   *)
(* and neither does the ALTER TABLE: each statement is a commit of its own. *)
(***************************************************************************)
EXTENDS Naturals, Sequences, Functions, Null

CONSTANTS
  Servers,    \* processes that use the file
  Script,     \* what schema.sql creates, in its order; "users" is one of them
  MaxFaults   \* how many faults from outside happen (bound)

ASSUME ScriptAssumption == Script \in Seq(STRING) /\ "users" \in Range(Script)
ASSUME FaultAssumption == MaxFaults \in Nat

VARIABLES
  file,   \* None, or what the database file holds
  pc,     \* where each server is
  line,   \* how many statements of the script its start has run
  faults  \* faults from outside so far

vars == <<file, pc, line, faults>>

-----------------------------------------------------------------------------
Tables == Range(Script)

(* `column` says whether users has the column totp_last_used_step. *)
File == [tables : SUBSET Tables, column : BOOLEAN]

ASSUME NoneAssumption == None \notin File

EmptyFile == [tables |-> {}, column |-> FALSE]

(* No file yet, or what an earlier version left, its start cut off or not. *)
Init ==
  /\ file \in {None} \cup
       {[tables |-> {Script[i] : i \in 1..n}, column |-> FALSE] : n \in 0..Len(Script)}
  /\ pc = [s \in Servers |-> "down"]
  /\ line = [s \in Servers |-> 0]
  /\ faults = 0

Goto(s, place) ==
  /\ pc' = [pc EXCEPT ![s] = place]
  /\ line' = [line EXCEPT ![s] = 0]

Fault ==
  /\ faults < MaxFaults
  /\ faults' = faults + 1

-----------------------------------------------------------------------------
(* Settings() is built when the module is imported, and refuses a missing   *)
(* or blank secret; the startup hook decodes them before it opens the file. *)
Secrets == {"missing", "blank", "not_base64", "short", "32_bytes"}
NonEmpty(secret) == secret \notin {"missing", "blank"}
Decodes(secret) == NonEmpty(secret) /\ secret \notin {"not_base64", "short"}

LoadSettings(s, secret) ==
  /\ pc[s] = "down"
  /\ IF NonEmpty(secret)
       THEN Goto(s, "secrets") /\ UNCHANGED faults
       ELSE Fault /\ UNCHANGED <<pc, line>>
  /\ UNCHANGED file

DecodeSecrets(s, secret) ==
  /\ pc[s] = "secrets"
  /\ NonEmpty(secret)
  /\ IF Decodes(secret)
       THEN Goto(s, "probe") /\ UNCHANGED faults
       ELSE Fault /\ Goto(s, "down")
  /\ UNCHANGED file

-----------------------------------------------------------------------------
(* init_sqlite_schema. *)

ProbeFile(s) ==
  /\ pc[s] = "probe"
  /\ Goto(s, IF file = None THEN "touch" ELSE "script")
  /\ UNCHANGED <<file, faults>>

(* Mutant: the file is opened for writing, which empties it. *)
Touched_Truncated == EmptyFile
Touched == IF file = None THEN EmptyFile ELSE file

Touch(s) ==
  /\ pc[s] = "touch"
  /\ file' = Touched
  /\ Goto(s, "script")
  /\ UNCHANGED faults

(* CREATE ... IF NOT EXISTS: a users table that is there keeps its columns. *)
(* Mutant: without IF NOT EXISTS the statement fails, and the start with it. *)
Create_Plain(name) ==
  /\ name \notin file.tables
  /\ file' = [tables |-> file.tables \cup {name}, column |-> file.column \/ name = "users"]

Create(name) ==
  file' = [tables |-> file.tables \cup {name},
           column |-> file.column \/ (name = "users" /\ "users" \notin file.tables)]

RunStatement(s) ==
  /\ pc[s] = "script"
  /\ line[s] < Len(Script)
  /\ Create(Script[line[s] + 1])
  /\ line' = [line EXCEPT ![s] = @ + 1]
  /\ UNCHANGED <<pc, faults>>

EndScript(s) ==
  /\ pc[s] = "script"
  /\ line[s] = Len(Script)
  /\ Goto(s, "migrate")
  /\ UNCHANGED <<file, faults>>

(* Mutant: an existing file is taken to be up to date. *)
CheckColumn_UpToDate(s) ==
  /\ pc[s] = "migrate"
  /\ Goto(s, "serving")
  /\ UNCHANGED <<file, faults>>

CheckColumn(s) ==
  /\ pc[s] = "migrate"
  /\ Goto(s, IF file.column THEN "serving" ELSE "alter")
  /\ UNCHANGED <<file, faults>>

(* ALTER TABLE fails on a duplicate column, which another server may have   *)
(* added since the check; the start ends with that error.                  *)
AlterTable(s) ==
  /\ pc[s] = "alter"
  /\ file' = [file EXCEPT !.column = TRUE]
  /\ Goto(s, IF file.column THEN "down" ELSE "serving")
  /\ UNCHANGED faults

(* A server is killed, or its start fails because the file is locked. *)
Stop(s) ==
  /\ pc[s] # "down"
  /\ Fault
  /\ Goto(s, "down")
  /\ UNCHANGED file

-----------------------------------------------------------------------------
Step(s) ==
  \/ LoadSettings(s, "32_bytes")
  \/ DecodeSecrets(s, "32_bytes")
  \/ ProbeFile(s)
  \/ Touch(s)
  \/ RunStatement(s)
  \/ EndScript(s)
  \/ CheckColumn(s)
  \/ AlterTable(s)

Next ==
  \E s \in Servers :
    \/ Step(s)
    \/ \E secret \in Secrets : LoadSettings(s, secret) \/ DecodeSecrets(s, secret)
    \/ Stop(s)

(* A server that is down is started again, and a start runs on. *)
Fairness == \A s \in Servers : WF_vars(Step(s))

Spec == Init /\ [][Next]_vars /\ Fairness

-----------------------------------------------------------------------------
(* Properties. *)

(* No request is served on a half-made schema: whatever start left the file *)
(* behind, was cut off or raced, a serving server has every table and the  *)
(* column that logins read.                                                *)
ServesCompleteSchema ==
  \A s \in Servers : pc[s] = "serving" => file = [tables |-> Tables, column |-> TRUE]

(* A start on a file others use or used takes nothing from it. *)
NothingLost ==
  [][file # None =>
       /\ file' # None
       /\ file.tables \subseteq file'.tables
       /\ file.column => file'.column]_vars

(* Once nothing from outside goes wrong, all servers get to serve, even     *)
(* though one whose ALTER TABLE came second has to be started again: no    *)
(* state a start was cut off in stands in the way of the next one.         *)
AllServe == <>[](\A s \in Servers : pc[s] = "serving")
=============================================================================
