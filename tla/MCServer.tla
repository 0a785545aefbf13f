------------------------------ MODULE MCServer ------------------------------
(***************************************************************************)
(* The server on small instances: its start (Startup), what its requests   *)
(* hold (Pool), and its layers with the script that probes them            *)
(* (SecurityChecks).  The three share no state: a behaviour runs one.      *)
(***************************************************************************)
EXTENDS Startup, Pool, SecurityChecks

VARIABLE part  \* what this behaviour runs

(* Of schema.sql, two tables and an index. *)
MCScript == <<"users", "idx_users_email", "user_sessions">>

MCInit ==
  /\ part \in {"startup", "pool", "checks"}
  /\ Init
  /\ part # "startup" => file = None
  /\ PoolInit
  /\ SInit

MCNext ==
  /\ UNCHANGED part
  /\ \/ part = "startup" /\ Next /\ UNCHANGED <<poolvars, svars>>
     \/ part = "pool" /\ PoolNext /\ UNCHANGED <<vars, svars>>
     \/ part = "checks" /\ SNext /\ UNCHANGED <<vars, poolvars>>

MCFairness ==
  /\ part = "startup" => \A s \in Servers : WF_vars(part = "startup" /\ Step(s))
  /\ part = "pool" => \A r \in Requests : WF_poolvars(part = "pool" /\ PoolStep(r))
  /\ part = "checks" => WF_svars(part = "checks" /\ Run)

MCSpec == MCInit /\ [][MCNext]_<<part, vars, poolvars, svars>> /\ MCFairness

-----------------------------------------------------------------------------
(* A liveness property is one of the behaviours of its part. *)

(* Once nothing from outside goes wrong, all servers get to serve. *)
StartupAllServe == part = "startup" => AllServe

(* Every request that has arrived is answered. *)
PoolRequestsAnswered == part = "pool" => EveryRequestAnswered

(* The script sees the answers it expects. *)
ChecksEndOK == part = "checks" => ScriptEndsOK
=============================================================================
