---------------------------- MODULE ComposePage ----------------------------
(***************************************************************************)
(* One message somebody writes on the compose page, and the copies of it   *)
(* that the server stores: an attempt whose answer fails leaves the form   *)
(* as it was, and the user may press Send again.  Every attempt that       *)
(* reaches send_message is a new message with a new id.                    *)
(***************************************************************************)
EXTENDS Naturals

CONSTANT MaxTries  \* how often the user presses Send (bound)

VARIABLES
  page,      \* whether the form is still shown
  awaiting,  \* the attempts whose answer the page awaits
  attempt,   \* what has become of each attempt on the server
  stored,    \* the attempts that were committed
  told       \* what the page made of each attempt

composevars == <<page, awaiting, attempt, stored, told>>

Attempts == 1..MaxTries

ComposeInit ==
  /\ page = "open"
  /\ awaiting = {}
  /\ attempt = [i \in Attempts |-> "unsent"]
  /\ stored = {}
  /\ told = [i \in Attempts |-> "nothing"]

-----------------------------------------------------------------------------
(* handleSubmit; the button is disabled while it runs.  Mutant: it is not. *)
Enabled_Always == page = "open"
Enabled == page = "open" /\ awaiting = {}

Submit(i) ==
  /\ Enabled
  /\ attempt[i] = "unsent"
  /\ \A j \in 1..(i - 1) : attempt[j] # "unsent"
  /\ attempt' = [attempt EXCEPT ![i] = "sent"]
  /\ awaiting' = awaiting \cup {i}
  /\ UNCHANGED <<page, stored, told>>

(* The server works on an attempt, whether the page still waits or not. *)
Store(i) ==
  /\ attempt[i] = "sent"
  /\ attempt' = [attempt EXCEPT ![i] = "stored"]
  /\ stored' = stored \cup {i}
  /\ UNCHANGED <<page, awaiting, told>>

(* Invalid recipients, the limiter, a session that has ended: 4xx.          *)
Refuse(i) ==
  /\ attempt[i] = "sent"
  /\ attempt' = [attempt EXCEPT ![i] = "refused"]
  /\ UNCHANGED <<page, awaiting, stored, told>>

(* 500, before the commit or, in db.refresh, after it. *)
Break(i) ==
  /\ attempt[i] \in {"sent", "stored"}
  /\ attempt' = [attempt EXCEPT ![i] = "failed"]
  /\ UNCHANGED <<page, awaiting, stored, told>>

(* The page goes to the message, or shows the error: all errors alike.      *)
Settle(i, what, next) ==
  /\ i \in awaiting
  /\ awaiting' = awaiting \ {i}
  /\ told' = [told EXCEPT ![i] = what]
  /\ page' = next
  /\ UNCHANGED <<attempt, stored>>

Accepted(i) == attempt[i] = "stored" /\ Settle(i, "ok", "left")
Rejected(i) == attempt[i] = "refused" /\ Settle(i, "rejected", page)
Failed(i) == attempt[i] = "failed" /\ Settle(i, "unknown", page)

(* The connection breaks, or the proxy answers 504. *)
Lose(i) == Settle(i, "unknown", page)

ComposeNext ==
  \E i \in Attempts :
    \/ Submit(i)
    \/ Store(i) \/ Refuse(i) \/ Break(i)
    \/ Accepted(i) \/ Rejected(i) \/ Failed(i) \/ Lose(i)

ComposeSpec == ComposeInit /\ [][ComposeNext]_composevars

-----------------------------------------------------------------------------
(* Properties. *)

(* Sending again stores another copy only after an answer that leaves open  *)
(* what happened: of all copies at most one was told of, and none refused. *)
CopiesExcused ==
  /\ \A i, j \in stored : told[i] = "ok" /\ told[j] = "ok" => i = j
  /\ \A i \in stored : told[i] # "rejected"
=============================================================================
