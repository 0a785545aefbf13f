---------------------------- MODULE MessagePage ----------------------------
(***************************************************************************)
(* The page of one message: the id in the address, the message it shows,   *)
(* and the calls under way.  Stepping through the browser's history from   *)
(* one message to another keeps the component and changes the id; leaving  *)
(* for another page drops it, with its state and its calls' effects.       *)
(***************************************************************************)
EXTENDS Naturals, Null

CONSTANTS
  Ids,    \* messages of the user
  Calls   \* calls that can be under way at a time (bound)

(* A GET under way: the id it asks for, and whether it has found it. *)
Asked == [id : Ids, found : BOOLEAN]

ASSUME PageAssumption == None \notin Ids \cup Asked

VARIABLES
  id,                    \* useParams; None on the other pages
  data, pageLoading, pageError,  \* the state of the component
  loads,                 \* GET: call -> what it asks for, or None
  deletes,               \* DELETE: call -> its id, or None
  orphans,               \* the deletes whose component has gone
  live,                  \* the messages the user has not deleted
  newest,                \* history: the call of the load begun last
  late                   \* history: the load that ended last was an older one

pagevars == <<id, data, pageLoading, pageError, loads, deletes, orphans, live, newest, late>>

-----------------------------------------------------------------------------
NoCalls == [c \in Calls |-> None]
UnderWay(calls) == {c \in Calls : calls[c] # None}

PageInit ==
  /\ id = None /\ data = None /\ pageLoading = TRUE /\ pageError = FALSE
  /\ loads = NoCalls /\ deletes = NoCalls
  /\ orphans = {}
  /\ live = Ids
  /\ newest = None
  /\ late = FALSE

(* load(m), by the effect that depends on the id. *)
Load(c, m) ==
  /\ loads[c] = None
  /\ loads' = [loads EXCEPT ![c] = [id |-> m, found |-> FALSE]]
  /\ pageLoading' = TRUE
  /\ pageError' = FALSE
  /\ newest' = c
  /\ late' = FALSE

Open(c, m) ==
  /\ id = None
  /\ Load(c, m)
  /\ id' = m
  /\ data' = None
  /\ UNCHANGED <<deletes, orphans, live>>

Step(c, m) ==
  /\ id \notin {None, m}
  /\ Load(c, m)
  /\ id' = m
  /\ UNCHANGED <<data, deletes, orphans, live>>

(* The component goes; a delete that is under way has still its nav('/').   *)
Leave ==
  /\ id' = None
  /\ loads' = NoCalls
  /\ orphans' = UnderWay(deletes')
  /\ UNCHANGED <<data, pageLoading, pageError, newest, late>>

GoElsewhere == id # None /\ deletes' = deletes /\ Leave /\ UNCHANGED live

LoadHandled(c) ==
  /\ loads[c] # None
  /\ loads[c].id \in live
  /\ loads' = [loads EXCEPT ![c].found = TRUE]
  /\ UNCHANGED <<id, data, pageLoading, pageError, deletes, orphans, live, newest, late>>

(* The answer sets `data`, whatever the id is by then, and though the       *)
(* message may be gone by then.                                            *)
LoadAnswered(c) ==
  /\ loads[c] # None
  /\ loads[c].found
  /\ data' = loads[c].id
  /\ pageLoading' = FALSE
  /\ loads' = [loads EXCEPT ![c] = None]
  /\ late' = (c # newest)
  /\ UNCHANGED <<id, pageError, deletes, orphans, live, newest>>

(* Deleted before, an expired session, a call that fails: `data` stays.     *)
(* Mutant: and so does `pageError`.                                        *)
ShowError_Not(c) == pageError
ShowError(c) == TRUE

LoadFailed(c) ==
  /\ loads[c] # None
  /\ pageError' = ShowError(c)
  /\ pageLoading' = FALSE
  /\ loads' = [loads EXCEPT ![c] = None]
  /\ late' = (c # newest)
  /\ UNCHANGED <<id, data, deletes, orphans, live, newest>>

(* Delete takes the id of the address. *)
OnDelete(c) ==
  /\ id # None
  /\ deletes[c] = None
  /\ deletes' = [deletes EXCEPT ![c] = id]
  /\ UNCHANGED <<id, data, pageLoading, pageError, loads, orphans, live, newest, late>>

DeleteHandled(c) ==
  /\ deletes[c] \in live
  /\ live' = live \ {deletes[c]}
  /\ UNCHANGED <<id, data, pageLoading, pageError, loads, deletes, orphans, newest, late>>

(* Handled and answered: the inbox, from wherever the user is by now. *)
Deleted(c) ==
  /\ deletes[c] \in Ids \ live
  /\ deletes' = [deletes EXCEPT ![c] = None]
  /\ Leave
  /\ UNCHANGED live

(* A repeated or a failed delete, or a lost answer. *)
DeleteFailed(c) ==
  /\ deletes[c] # None
  /\ deletes' = [deletes EXCEPT ![c] = None]
  /\ orphans' = orphans \ {c}
  /\ pageError' = (pageError \/ c \notin orphans)
  /\ UNCHANGED <<id, data, pageLoading, loads, live, newest, late>>

PageNext ==
  \/ \E c \in Calls :
       \/ \E m \in Ids : Open(c, m) \/ Step(c, m)
       \/ LoadHandled(c) \/ LoadAnswered(c) \/ LoadFailed(c)
       \/ OnDelete(c) \/ DeleteHandled(c) \/ Deleted(c) \/ DeleteFailed(c)
  \/ GoElsewhere

PageSpec == PageInit /\ [][PageNext]_pagevars

-----------------------------------------------------------------------------
(* Properties. *)

(* What is shown is the message the address names, which is the one Delete  *)
(* would delete, or an error is shown; however the loads have overtaken    *)
(* each other before, unless the load that ended last was an older one.    *)
ShownIsNamed ==
  id # None /\ ~pageLoading /\ ~late => data = id \/ pageError
=============================================================================
