-------------------------- MODULE DeliveryRefinement --------------------------
(***************************************************************************)
(* The delivery workers implement the queue the broker promises, as long   *)
(* as a lease outlives the work done under it.  An event is held while a   *)
(* worker has its message; an open row nobody holds is ready once          *)
(* next_retry_at has passed, whether that was a lease or a backoff.        *)
(***************************************************************************)
EXTENDS DeliveryWorker

QueueState(e) ==
  CASE row[e].status = "received"  -> "unpublished"
    [] row[e].status = "delivered" -> "delivered"
    [] row[e].status = "dead"      -> "dead"
    [] OTHER -> IF \E w \in Workers : Holds(w, e) THEN "held"
                ELSE IF row[e].retry = "none" THEN "ready" ELSE "waiting"

Queue == INSTANCE DeliveryQueue WITH
  NoEvent <- NULL,
  state   <- [e \in Events |-> QueueState(e)],
  job     <- [w \in Workers |-> worker[w].event],
  tries   <- [e \in Events |-> row[e].attempts]

(* Every step of the workers is a step of the abstract queue or none.      *)
ImplementsQueue == Queue!Spec
=============================================================================
