----------------------------- MODULE MCMessages -----------------------------
(***************************************************************************)
(* One message from one of three users to one or both of the others; and   *)
(* the steps of sending that Messages takes as one: reading the uploads,   *)
(* listing what is signed, encoding the list.  They share no state, and a  *)
(* behaviour runs one of them.                                             *)
(***************************************************************************)
EXTENDS Messages, HmacPayload, LenPrefix, Uploads, TLC

VARIABLE part  \* what this behaviour runs

MCInit ==
  /\ part \in {"store", "encoding", "payload", "uploads"}
  /\ Init
  /\ PrefixInit
  /\ PayloadInit
  /\ UploadInit
  /\ part # "uploads" => files = << >>

MCNext ==
  /\ UNCHANGED part
  /\ \/ part = "store" /\ Next /\ UNCHANGED <<prefixvars, payloadvars, uploadvars>>
     \/ part = "encoding" /\ PrefixNext /\ UNCHANGED <<vars, payloadvars, uploadvars>>
     \/ part = "payload" /\ PayloadNext /\ UNCHANGED <<vars, prefixvars, uploadvars>>
     \/ part = "uploads" /\ UploadNext /\ UNCHANGED <<vars, prefixvars, payloadvars>>

MCSpec == MCInit /\ [][MCNext]_<<part, vars, prefixvars, payloadvars, uploadvars>>

-----------------------------------------------------------------------------
Symmetry == Permutations(Workers) \cup Permutations(Users)

(* No action reads `answer`: states that differ in it only are one. *)
View == <<part, messages, active, req, gone, prefixvars, payloadvars, uploadvars>>
=============================================================================
