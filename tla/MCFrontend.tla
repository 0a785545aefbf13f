----------------------------- MODULE MCFrontend -----------------------------
(***************************************************************************)
(* The stateful parts of the single-page application on small instances:   *)
(* who is logged in (AuthContext), the form of a new message (ComposePage) *)
(* and the page of one message (MessagePage).  A behaviour runs one.       *)
(***************************************************************************)
EXTENDS AuthContext, ComposePage, MessagePage

VARIABLE part  \* what this behaviour runs

MCInit ==
  /\ part \in {"auth", "compose", "message"}
  /\ Init
  /\ part # "auth" => used = {}
  /\ ComposeInit
  /\ PageInit

MCNext ==
  /\ UNCHANGED part
  /\ \/ part = "auth" /\ Next /\ UNCHANGED <<composevars, pagevars>>
     \/ part = "compose" /\ ComposeNext /\ UNCHANGED <<vars, pagevars>>
     \/ part = "message" /\ PageNext /\ UNCHANGED <<vars, composevars>>

MCFairness ==
  part = "auth" => WF_vars(part = "auth" /\ (Handle("mount") \/ Receive("mount")))

MCSpec == MCInit /\ [][MCNext]_<<part, vars, composevars, pagevars>> /\ MCFairness

-----------------------------------------------------------------------------
(* The loading screen of AuthProvider ends. *)
AuthLoadingEnds == part = "auth" => LoadingEnds
=============================================================================
