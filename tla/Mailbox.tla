------------------------------ MODULE Mailbox -------------------------------
(***************************************************************************)
(* What the message store promises its users: a message reaches its sender *)
(* and all its recipients at once, each of them has a copy of their own,   *)
(* a copy is read at most once for the first time, and deleting it is      *)
(* final and nobody else's business.                                       *)
(***************************************************************************)
CONSTANTS Messages, Users

VARIABLE box  \* box[m][u]: what user u has of message m

States == {"absent", "sent", "unread", "read", "deleted"}

MInit == box = [m \in Messages |-> [u \in Users |-> "absent"]]

Deliver(m) ==
  /\ \A u \in Users : box[m][u] = "absent"
  /\ \E sender \in Users : \E recipients \in (SUBSET (Users \ {sender})) \ {{}} :
       box' = [box EXCEPT ![m] =
         [u \in Users |-> IF u = sender THEN "sent"
                          ELSE IF u \in recipients THEN "unread" ELSE "absent"]]

Open(m, u) ==
  /\ box[m][u] = "unread"
  /\ box' = [box EXCEPT ![m][u] = "read"]

Discard(m, u) ==
  /\ box[m][u] \in {"sent", "unread", "read"}
  /\ box' = [box EXCEPT ![m][u] = "deleted"]

MNext ==
  \E m \in Messages :
    \/ Deliver(m)
    \/ \E u \in Users : Open(m, u) \/ Discard(m, u)

MSpec == MInit /\ [][MNext]_box
=============================================================================
