---------------------------- MODULE FixedWindow -----------------------------
(***************************************************************************)
(* What a fixed-window rate limiter promises, without its memory           *)
(* management: a key's window opens with its first admitted request, lasts *)
(* WindowSeconds, admits MaxRequests requests and then refuses the rest.   *)
(***************************************************************************)
EXTENDS Naturals

CONSTANTS Keys, WindowSeconds, MaxRequests, Closed

VARIABLES
  window,  \* key -> [count, start] of its open window, or Closed
  time,    \* the clock
  verdict  \* the answer given by the last step

fwvars == <<window, time, verdict>>

FWInit ==
  /\ window = [k \in Keys |-> Closed]
  /\ time = 0
  /\ verdict = "none"

Open(k) ==
  /\ window[k] = Closed
  /\ window' = [window EXCEPT ![k] = [count |-> 1, start |-> time]]
  /\ verdict' = "admitted"
  /\ UNCHANGED time

Admit(k) ==
  /\ window[k] # Closed
  /\ window[k].count < MaxRequests
  /\ window' = [window EXCEPT ![k].count = @ + 1]
  /\ verdict' = "admitted"
  /\ UNCHANGED time

Refuse(k) ==
  /\ window[k] # Closed
  /\ window[k].count >= MaxRequests
  /\ verdict' = "refused"
  /\ UNCHANGED <<window, time>>

(* Time passes, and windows that have lasted WindowSeconds close. *)
Pass ==
  /\ time' = time + 1
  /\ window' = [k \in Keys |->
                  IF window[k] # Closed /\ window[k].start + WindowSeconds > time'
                    THEN window[k] ELSE Closed]
  /\ verdict' = "none"

Restart ==
  /\ window' = [k \in Keys |-> Closed]
  /\ verdict' = "none"
  /\ UNCHANGED time

FWNext ==
  \/ \E k \in Keys : Open(k) \/ Admit(k) \/ Refuse(k)
  \/ Pass
  \/ Restart

FWSpec == FWInit /\ [][FWNext]_fwvars
=============================================================================
