----------------------------- MODULE Directory ------------------------------
(***************************************************************************)
(* What registration promises: entries are added one at a time, each with  *)
(* an e-mail and a username no other entry has, and stay as they are.      *)
(***************************************************************************)
CONSTANTS Emails, Usernames, Ids

VARIABLE entries

DInit == entries = {}

Enter(id, email, username) ==
  /\ \A entry \in entries :
       entry.id # id /\ entry.email # email /\ entry.username # username
  /\ entries' = entries \cup {[id |-> id, email |-> email, username |-> username]}

DNext == \E id \in Ids, email \in Emails, username \in Usernames : Enter(id, email, username)

DSpec == DInit /\ [][DNext]_entries
=============================================================================
