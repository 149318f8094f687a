---------------------------- MODULE DeliveryQueue -----------------------------
(***************************************************************************)
(* What the broker promises its users (comm_layer/broker/base.py): an      *)
(* event is in the hands of at most one worker, ends delivered or dead,    *)
(* leaves "dead" by a replay only and "delivered" never, and is delivered  *)
(* only within its budget of attempts.  A worker that disappears gives its *)
(* event back.  There is no lease, no clock and no HubSpot here.           *)
(***************************************************************************)
EXTENDS Naturals

CONSTANTS Events, Workers, NoEvent, MaxAttempts

VARIABLES
  state,  \* where each event is
  job,    \* the event each worker has in hand
  tries   \* claims of each event since it was published or replayed

vars == <<state, job, tries>>

Init ==
  /\ state = [e \in Events |-> "unpublished"]
  /\ job = [w \in Workers |-> NoEvent]
  /\ tries = [e \in Events |-> 0]

Publish(e) ==
  /\ state[e] = "unpublished"
  /\ state' = [state EXCEPT ![e] = "ready"]
  /\ UNCHANGED <<job, tries>>

ClaimNext(w, e) ==
  /\ job[w] = NoEvent /\ state[e] = "ready"
  /\ state' = [state EXCEPT ![e] = "held"]
  /\ job' = [job EXCEPT ![w] = e]
  /\ tries' = [tries EXCEPT ![e] = @ + 1]

(* The worker w is done with e and leaves it in the state to. *)
Settle(w, e, to) ==
  /\ job[w] = e /\ state[e] = "held"
  /\ state' = [state EXCEPT ![e] = to]
  /\ job' = [job EXCEPT ![w] = NoEvent]
  /\ UNCHANGED tries

Ack(w, e)        == tries[e] <= MaxAttempts /\ Settle(w, e, "delivered")
GiveBack(w, e)   == Settle(w, e, "waiting")   \* nack, or the worker is gone
DeadLetter(w, e) == Settle(w, e, "dead")

Wake(e) ==
  /\ state[e] = "waiting"
  /\ state' = [state EXCEPT ![e] = "ready"]
  /\ UNCHANGED <<job, tries>>

Replay ==
  /\ \E e \in Events : state[e] = "dead"
  /\ state' = [e \in Events |-> IF state[e] = "dead" THEN "ready" ELSE state[e]]
  /\ tries' = [e \in Events |-> IF state[e] = "dead" THEN 0 ELSE tries[e]]
  /\ UNCHANGED job

Next ==
  \/ \E e \in Events : Publish(e) \/ Wake(e)
  \/ \E w \in Workers, e \in Events :
       ClaimNext(w, e) \/ Ack(w, e) \/ GiveBack(w, e) \/ DeadLetter(w, e)
  \/ Replay

Spec == Init /\ [][Next]_vars
=============================================================================
