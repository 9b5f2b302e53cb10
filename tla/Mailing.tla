------------------------------- MODULE Mailing -------------------------------
(***************************************************************************)
(* What campaign dispatch promises, without jobs, workers, sweeps, gates   *)
(* or locks: a message is taken, sent at most once at a time and recorded; *)
(* it is only taken, or released to be taken again, while every copy the   *)
(* mail service has of it is one whose acknowledgement was lost.           *)
(***************************************************************************)
EXTENDS Integers

CONSTANT Messages

VARIABLES
  stage,     \* where a message is: waiting, taken, sent, refused or erased
  underway,  \* messages that are with the mail service right now
  copies,    \* emails the mail service took for a message
  unheard    \* those of them nobody here knows of

vars == <<stage, underway, copies, unheard>>

Settled(m) == copies[m] <= unheard[m]

Begin(m) ==
  /\ stage[m] = "waiting" /\ m \notin underway
  /\ Settled(m)
  /\ stage' = [stage EXCEPT ![m] = "taken"]
  /\ underway' = underway \cup {m}
  /\ UNCHANGED <<copies, unheard>>

\* The service takes the email, and says so or not; or it takes nothing.
Deliver(m) ==
  /\ m \in underway
  /\ underway' = underway \ {m}
  /\ copies' = [copies EXCEPT ![m] = @ + 1]
  /\ \/ UNCHANGED unheard
     \/ unheard' = [unheard EXCEPT ![m] = @ + 1]
  /\ UNCHANGED stage
Fail(m) ==
  /\ m \in underway
  /\ underway' = underway \ {m}
  /\ UNCHANGED <<stage, copies, unheard>>

Release(m) ==
  /\ stage[m] = "taken" /\ m \notin underway
  /\ Settled(m)
  /\ stage' = [stage EXCEPT ![m] = "waiting"]
  /\ UNCHANGED <<underway, copies, unheard>>

Record(m) ==
  /\ stage[m] = "taken" /\ m \notin underway
  /\ ~Settled(m)
  /\ stage' = [stage EXCEPT ![m] = "sent"]
  /\ UNCHANGED <<underway, copies, unheard>>

\* Suppressed or failed.  It may be taken, and even be under way: a gate of
\* another pass does not wait for the one that sends.
Refuse(m) ==
  /\ stage[m] \in {"waiting", "taken"}
  /\ stage' = [stage EXCEPT ![m] = "refused"]
  /\ UNCHANGED <<underway, copies, unheard>>

\* An erasure takes a customer's messages away, whatever they are at.
Erase(S) ==
  /\ stage' = [m \in Messages |-> IF m \in S THEN "erased" ELSE stage[m]]
  /\ UNCHANGED <<underway, copies, unheard>>

Init ==
  /\ stage = [m \in Messages |-> "waiting"]
  /\ underway = {}
  /\ copies = [m \in Messages |-> 0] /\ unheard = [m \in Messages |-> 0]

Next ==
  \/ \E m \in Messages :
       Begin(m) \/ Deliver(m) \/ Fail(m) \/ Release(m) \/ Record(m) \/ Refuse(m)
  \/ \E S \in SUBSET Messages : Erase(S)

Spec == Init /\ [][Next]_vars
=============================================================================
