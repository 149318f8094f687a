------------------------- MODULE WhatsAppReplyProofs --------------------------
(***************************************************************************)
(* TLAPS proofs about the WhatsApp reply consumer, for every set of events *)
(* and processes: type correctness and the boundary no claim crosses hold  *)
(* as they are; at-most-once, the meaning of a final row and its stability *)
(* hold when a lease outlives the work done under it, or with one process. *)
(* Otherwise a customer is texted at most once per process.                *)
(***************************************************************************)
EXTENDS WhatsAppReply, FiniteSets, FiniteSetTheorems, TLAPS

(* A process about to send, or past that, knows whether the reply answers. *)
Decided == {"flip", "window", "twilio", "recordSent", "recordRefused", "recordExpired"}

TypeInv ==
  /\ TypeOK
  /\ \A w \in Workers : worker[w].pc \in Decided => worker[w].resolved \in {"yes", "no"}

(* A working process has an event, and so does one with a claim to make.   *)
LEMMA HasEvent ==
  ASSUME TypeInv, NEW w \in Workers, worker[w].pc \notin {"down", "poll"}
  PROVE  MyEvent(w) \in Events
<1>1. worker[w] \in Process BY DEF TypeInv, TypeOK
<1>2. worker[w].event # NULL BY DEF TypeInv, TypeOK, MyEvent
<1> QED BY <1>1, <1>2 DEF Process, MyEvent

(* _update_reply keeps the table well typed. *)
LEMMA UpdateReplyType ==
  ASSUME TypeInv, NEW e \in Events, NEW st \in InFlight \cup Final, NEW res \in Resolved,
         UpdateReply(e, st, res)
  PROVE  /\ reply' \in [Events -> Row]
         /\ \A f \in Events : reply'[f].fresh => reply'[f].status \in InFlight
<1> DEFINE r == [status |-> st, fresh |-> st \in InFlight, resolved |-> res]
<1>1. r \in Row /\ (r.fresh => r.status \in InFlight)
  <2>1. CASE st \in InFlight
    <3>0. (st \in InFlight) = TRUE BY <2>1
    <3>1. r = [status |-> st, fresh |-> TRUE, resolved |-> res] BY <3>0
    <3> HIDE DEF r
    <3> QED BY <2>1, <3>1 DEF Row
  <2>2. CASE st \notin InFlight
    <3>0. (st \in InFlight) = FALSE BY <2>2
    <3>1. r = [status |-> st, fresh |-> FALSE, resolved |-> res] BY <3>0
    <3> HIDE DEF r
    <3> QED BY <2>2, <3>1 DEF Row
  <2> QED BY <2>1, <2>2
<1>2. reply' = [reply EXCEPT ![e] = r] BY DEF UpdateReply
<1>3. reply \in [Events -> Row] /\ \A f \in Events : reply[f].fresh => reply[f].status \in InFlight
  BY DEF TypeInv, TypeOK
<1> HIDE DEF r
<1>4. reply' \in [Events -> Row] BY <1>1, <1>2, <1>3
<1>5. ASSUME NEW f \in Events, reply'[f].fresh
      PROVE  reply'[f].status \in InFlight
  <2>1. CASE f = e BY <1>1, <1>2, <1>3, <1>5, <2>1
  <2>2. CASE f # e BY <1>2, <1>3, <1>5, <2>2
  <2> QED BY <2>1, <2>2
<1> QED BY <1>4, <1>5

(* A step that moves one process and leaves the rest of the world alone.   *)
LEMMA MoveType ==
  ASSUME TypeInv, NEW w \in Workers, NEW p \in Process,
         worker' = [worker EXCEPT ![w] = p],
         p.pc \in {"down", "poll"} <=> p.event = NULL,
         p.pc \in Decided => p.resolved \in {"yes", "no"}
  PROVE  /\ worker' \in [Workers -> Process]
         /\ \A v \in Workers : worker'[v].pc \in {"down", "poll"} <=> worker'[v].event = NULL
         /\ \A v \in Workers : worker'[v].pc \in Decided => worker'[v].resolved \in {"yes", "no"}
  BY DEF TypeInv, TypeOK, MyEvent

(* Goto moves a process that has an event on to an await with that event.  *)
LEMMA GotoType ==
  ASSUME TypeInv, NEW w \in Workers, NEW pc \in PC \ {"down", "poll"}, Goto(w, pc),
         worker[w].pc \notin {"down", "poll"},
         pc \in Decided => worker[w].resolved \in {"yes", "no"}
  PROVE  /\ worker' \in [Workers -> Process]
         /\ \A v \in Workers : worker'[v].pc \in {"down", "poll"} <=> worker'[v].event = NULL
         /\ \A v \in Workers : worker'[v].pc \in Decided => worker'[v].resolved \in {"yes", "no"}
  BY DEF TypeInv, TypeOK, MyEvent, Goto, Process

LEMMA IdleType ==
  /\ Idle \in Process /\ Idle.pc = "poll" /\ Idle.event = NULL
  /\ Down \in Process /\ Down.pc = "down" /\ Down.event = NULL
  /\ "poll" \notin Decided /\ "down" \notin Decided
  BY DEF Idle, Down, Process, PC, Idling, Decided, Resolved

(* An await that raises leaves the process with its event, or polling.     *)
LEMMA RaisesType ==
  ASSUME TypeInv, NEW w \in Workers, Raises(w), worker[w].pc \notin {"down", "poll"}
  PROVE  /\ worker' \in [Workers -> Process]
         /\ \A v \in Workers : worker'[v].pc \in {"down", "poll"} <=> worker'[v].event = NULL
         /\ \A v \in Workers : worker'[v].pc \in Decided => worker'[v].resolved \in {"yes", "no"}
         /\ faults' \in 0 .. MaxFaults
<1>1. faults' \in 0 .. MaxFaults BY ConstantsOK DEF Raises, TypeInv, TypeOK, ConstantsOK
<1>2. CASE worker' = [worker EXCEPT ![w] = Idle] BY <1>1, <1>2, IdleType, MoveType
<1>3. CASE Goto(w, "recordCrashed") BY <1>1, <1>3, GotoType DEF PC, Decided
<1>4. CASE Goto(w, "recordRefused") /\ worker[w].pc \in {"window", "twilio", "recordSent"}
  <2>1. worker[w].resolved \in {"yes", "no"} BY <1>4 DEF TypeInv, Decided
  <2> QED BY <1>1, <1>4, <2>1, GotoType DEF PC
<1> QED BY <1>2, <1>3, <1>4 DEF Raises

(* Every step keeps the type invariant. *)
LEMMA TypeStep == TypeInv /\ [Next]_vars => TypeInv'
<1> SUFFICES ASSUME TypeInv, [Next]_vars PROVE TypeInv'
  OBVIOUS
<1> USE DEF MyEvent
<1>1. ASSUME NEW w \in Workers, Start(w) PROVE TypeInv'
  <2>1. reply' \in [Events -> Row] /\ \A e \in Events : reply'[e].fresh => reply'[e].status \in InFlight
    <3>1. ASSUME NEW e \in Events
          PROVE  reply'[e] \in Row /\ (reply'[e].fresh => reply'[e].status \in InFlight)
      <4>1. reply[e] \in Row /\ (reply[e].fresh => reply[e].status \in InFlight)
        BY DEF TypeInv, TypeOK
      <4>2. CASE reply[e].status = "sending" /\ ~reply[e].fresh
        <5>1. reply'[e] = [reply[e] EXCEPT !.status = "failed"] BY <1>1, <4>2 DEF Start
        <5> QED BY <4>1, <4>2, <5>1 DEF Row, Final
      <4>3. CASE ~(reply[e].status = "sending" /\ ~reply[e].fresh)
        <5>1. reply'[e] = reply[e] BY <1>1, <4>3 DEF Start
        <5> QED BY <4>1, <5>1
      <4> QED BY <4>2, <4>3
    <3>2. reply' = [e \in Events |-> reply'[e]] BY <1>1 DEF Start
    <3> QED BY <3>1, <3>2
  <2>2. worker' = [worker EXCEPT ![w] = Idle] BY <1>1 DEF Start
  <2> QED BY <1>1, <2>1, <2>2, IdleType, MoveType DEF Start, TypeInv, TypeOK
<1>2. ASSUME NEW w \in Workers, Scan(w) PROVE TypeInv'
  <2>1. PICK e \in Events : worker' = [worker EXCEPT ![w] = [Idle EXCEPT !.pc = "claim", !.event = e]]
    BY <1>2 DEF Scan
  <2> DEFINE p == [Idle EXCEPT !.pc = "claim", !.event = e]
  <2>2. p \in Process /\ p.pc = "claim" /\ p.event = e
    BY DEF Idle, Down, Process, PC, Idling, Resolved
  <2>3. e # NULL BY ConstantsOK DEF ConstantsOK
  <2> HIDE DEF p
  <2>4. /\ worker' \in [Workers -> Process]
        /\ \A v \in Workers : worker'[v].pc \in {"down", "poll"} <=> worker'[v].event = NULL
        /\ \A v \in Workers : worker'[v].pc \in Decided => worker'[v].resolved \in {"yes", "no"}
    BY <2>1, <2>2, <2>3, MoveType DEF Decided, p
  <2> QED BY <1>2, <2>4 DEF Scan, TypeInv, TypeOK
<1>3. ASSUME NEW w \in Workers, Claim(w) PROVE TypeInv'
  <2>1. MyEvent(w) \in Events BY <1>3, HasEvent DEF Claim, At
  <2>2. CASE Claimable(MyEvent(w))
    <3>1. reply[MyEvent(w)].resolved \in Resolved BY <2>1 DEF TypeInv, TypeOK, Row
    <3>2. UpdateReply(MyEvent(w), "processing", reply[MyEvent(w)].resolved) /\ AnsweredTo(w, "switch")
      BY <1>3, <2>2 DEF Claim
    <3>3. reply' \in [Events -> Row] /\ \A f \in Events : reply'[f].fresh => reply'[f].status \in InFlight
      BY <2>1, <3>1, <3>2, UpdateReplyType DEF InFlight
    <3>4. worker[w].pc \notin {"down", "poll"} BY <1>3 DEF Claim, At
    <3>5. "switch" \in PC \ {"down", "poll"} /\ "switch" \notin Decided BY DEF PC, Decided
    <3>6. /\ worker' \in [Workers -> Process]
          /\ \A v \in Workers : worker'[v].pc \in {"down", "poll"} <=> worker'[v].event = NULL
          /\ \A v \in Workers : worker'[v].pc \in Decided => worker'[v].resolved \in {"yes", "no"}
          /\ faults' \in 0 .. MaxFaults
      <4>1. CASE Goto(w, "switch") /\ UNCHANGED faults
        BY <3>4, <3>5, <4>1, GotoType DEF TypeInv, TypeOK
      <4>2. CASE Raises(w) BY <3>4, <4>2, RaisesType
      <4> QED BY <3>2, <4>1, <4>2 DEF AnsweredTo
    <3> QED BY <1>3, <3>3, <3>6 DEF Claim, TypeInv, TypeOK
  <2>3. CASE ~Claimable(MyEvent(w))
    BY <1>3, <2>3, IdleType, MoveType DEF Claim, TypeInv, TypeOK
  <2> QED BY <2>2, <2>3
<1>4. ASSUME NEW w \in Workers, ReadSwitch(w) PROVE TypeInv'
  BY <1>4, GotoType DEF ReadSwitch, At, TypeInv, TypeOK, PC, Decided
<1>5. ASSUME NEW w \in Workers, NEW res \in {"yes", "no"}, worker[w].pc \notin {"down", "poll"},
             worker' = [worker EXCEPT ![w].resolved = res, ![w].pc = "flip"],
             UNCHANGED <<reply, texted, aiEnabled, faults>>
      PROVE  TypeInv'
  <2> DEFINE p == [worker[w] EXCEPT !.resolved = res, !.pc = "flip"]
  <2>1. worker[w] \in Process /\ worker[w].event # NULL BY <1>5 DEF TypeInv, TypeOK
  <2>2. p \in Process /\ p.pc = "flip" /\ p.event # NULL /\ p.resolved \in {"yes", "no"}
    BY <2>1 DEF Process, PC, Resolved
  <2>3. worker' = [worker EXCEPT ![w] = p] BY <1>5, <2>1 DEF TypeInv, TypeOK, Process
  <2> HIDE DEF p
  <2>4. /\ worker' \in [Workers -> Process]
        /\ \A v \in Workers : worker'[v].pc \in {"down", "poll"} <=> worker'[v].event = NULL
        /\ \A v \in Workers : worker'[v].pc \in Decided => worker'[v].resolved \in {"yes", "no"}
    BY <2>2, <2>3, MoveType
  <2> QED BY <1>5, <2>4 DEF TypeInv, TypeOK
<1>6. ASSUME NEW w \in Workers, Screen(w) PROVE TypeInv'
  <2>1. CASE Goto(w, "generate")
    BY <1>6, <2>1, GotoType DEF Screen, At, TypeInv, TypeOK, PC, Decided
  <2>2. CASE worker' = [worker EXCEPT ![w].resolved = "no", ![w].pc = "flip"]
    BY <1>5, <1>6, <2>2 DEF Screen, At
  <2> QED BY <1>6, <2>1, <2>2 DEF Screen
<1>7. ASSUME NEW w \in Workers, Generate(w) PROVE TypeInv'
  <2>1. CASE Goto(w, "recordFailed")
    BY <1>7, <2>1, GotoType DEF Generate, At, TypeInv, TypeOK, PC, Decided
  <2> QED BY <1>5, <1>7, <2>1 DEF Generate, At
<1>8. ASSUME NEW w \in Workers, FlipToSending(w) PROVE TypeInv'
  <2>1. MyEvent(w) \in Events BY <1>8, HasEvent DEF FlipToSending, At
  <2>2. reply[MyEvent(w)].resolved \in Resolved BY <2>1 DEF TypeInv, TypeOK, Row
  <2>3. reply' \in [Events -> Row] /\ \A f \in Events : reply'[f].fresh => reply'[f].status \in InFlight
    BY <1>8, <2>1, <2>2, UpdateReplyType DEF FlipToSending, InFlight
  <2>4. worker[w].resolved \in {"yes", "no"} BY <1>8 DEF FlipToSending, At, TypeInv, Decided
  <2>5. CASE Goto(w, "window") /\ UNCHANGED faults
    BY <1>8, <2>3, <2>4, <2>5, GotoType DEF FlipToSending, At, TypeInv, TypeOK, PC
  <2>6. CASE Raises(w)
    BY <1>8, <2>3, <2>6, RaisesType DEF FlipToSending, At, TypeInv, TypeOK
  <2> QED BY <1>8, <2>5, <2>6 DEF FlipToSending, AnsweredTo
<1>9. ASSUME NEW w \in Workers, CheckWindow(w) PROVE TypeInv'
  <2>1. worker[w].resolved \in {"yes", "no"} BY <1>9 DEF CheckWindow, At, TypeInv, Decided
  <2>2. ASSUME NEW pc \in {"twilio", "recordExpired"}, Goto(w, pc) PROVE TypeInv'
    BY <1>9, <2>1, <2>2, GotoType DEF CheckWindow, At, TypeInv, TypeOK, PC
  <2>3. CASE worker' = [worker EXCEPT ![w] = Idle]
    BY <1>9, <2>3, IdleType, MoveType DEF CheckWindow, TypeInv, TypeOK
  <2> QED BY <1>9, <2>2, <2>3 DEF CheckWindow
<1>10. ASSUME NEW w \in Workers, CallTwilio(w) PROVE TypeInv'
  <2>1. worker[w].resolved \in {"yes", "no"} BY <1>10 DEF CallTwilio, At, TypeInv, Decided
  <2>2. MyEvent(w) \in Events BY <1>10, HasEvent DEF CallTwilio, At
  <2>3. texted' \in [Events -> Seq({"yes", "no"})]
    <3>1. Append(texted[MyEvent(w)], worker[w].resolved) \in Seq({"yes", "no"})
      BY <2>1, <2>2 DEF TypeInv, TypeOK
    <3>2. texted' = texted \/ texted' = [texted EXCEPT ![MyEvent(w)] = Append(@, worker[w].resolved)]
      BY <1>10 DEF CallTwilio
    <3> QED BY <2>2, <3>1, <3>2 DEF TypeInv, TypeOK
  <2>4. ASSUME NEW pc \in {"recordSent", "recordRefused"}, Goto(w, pc) PROVE TypeInv'
    BY <1>10, <2>1, <2>3, <2>4, GotoType DEF CallTwilio, At, TypeInv, TypeOK, PC
  <2> QED BY <1>10, <2>4 DEF CallTwilio
<1>11. ASSUME NEW w \in Workers, NEW pc \in PC \ {"down", "poll"}, NEW st \in Final,
              NEW res \in Resolved, Done(w, pc, st, res)
       PROVE  TypeInv'
  <2>1. MyEvent(w) \in Events BY <1>11, HasEvent DEF Done, At
  <2>2. reply' \in [Events -> Row] /\ \A f \in Events : reply'[f].fresh => reply'[f].status \in InFlight
    BY <1>11, <2>1, UpdateReplyType DEF Done
  <2>3. CASE worker' = [worker EXCEPT ![w] = Idle] /\ UNCHANGED faults
    BY <1>11, <2>2, <2>3, IdleType, MoveType DEF Done, TypeInv, TypeOK
  <2>4. CASE Raises(w)
    BY <1>11, <2>2, <2>4, RaisesType DEF Done, At, TypeInv, TypeOK
  <2> QED BY <1>11, <2>3, <2>4 DEF Done
<1>12. ASSUME NEW w \in Workers,
              RecordSent(w) \/ RecordRefused(w) \/ RecordExpired(w) \/ RecordSkipped(w)
                \/ RecordFailed(w) \/ RecordCrashed(w)
       PROVE  TypeInv'
  <2>1. worker[w].pc \notin {"down", "poll"}
    BY <1>12 DEF RecordSent, RecordRefused, RecordExpired, RecordSkipped, RecordFailed, RecordCrashed, Done, At
  <2>2. reply[MyEvent(w)].resolved \in Resolved /\ worker[w].resolved \in Resolved
    BY <2>1, HasEvent DEF TypeInv, TypeOK, Row, Process
  <2> QED BY <1>11, <1>12, <2>2
       DEF RecordSent, RecordRefused, RecordExpired, RecordSkipped, RecordFailed, RecordCrashed, PC, Final
<1>13. ASSUME NEW w \in Workers, Fault(w) PROVE TypeInv'
  BY <1>13, RaisesType DEF Fault, TypeInv, TypeOK
<1>14. ASSUME NEW w \in Workers, Crash(w) PROVE TypeInv'
  <2>1. faults' \in 0 .. MaxFaults BY <1>14, ConstantsOK DEF Crash, TypeInv, TypeOK, ConstantsOK
  <2> QED BY <1>14, <2>1, IdleType, MoveType DEF Crash, TypeInv, TypeOK
<1>15. ASSUME NEW e \in Events, LeaseExpires(e) PROVE TypeInv'
  BY <1>15 DEF LeaseExpires, TypeInv, TypeOK, Row
<1>16. CASE ToggleSwitch
  BY <1>16 DEF ToggleSwitch, TypeInv, TypeOK
<1>17. CASE UNCHANGED vars
  BY <1>17 DEF vars, TypeInv, TypeOK
<1> QED BY <1>1, <1>2, <1>3, <1>4, <1>6, <1>7, <1>8, <1>9, <1>10, <1>12, <1>13, <1>14, <1>15, <1>16, <1>17
     DEF Next, Step

LEMMA TypeInit == Init => TypeInv
  BY ConstantsOK DEF Init, TypeInv, TypeOK, Row, Process, PC, Idling, Resolved, Down, Decided,
     MyEvent, InFlight, ConstantsOK

(* Every variable of the reply consumer stays in its domain.               *)
THEOREM TypeCorrect == Spec => []TypeOK
<1>1. TypeInv => TypeOK BY DEF TypeInv
<1> QED BY TypeInit, TypeStep, <1>1, PTL DEF Spec

-----------------------------------------------------------------------------
(***************************************************************************)
(* The boundary: once Twilio may have taken a message, no claim accepts    *)
(* the row.  The invariant is inductive as it stands.                      *)
(***************************************************************************)
BeyondFlip == {"window", "twilio", "recordSent", "recordRefused", "recordExpired"}

Closed(e) == reply[e].status \in {"sending"} \cup Final

BoundaryInv ==
  /\ \A e \in Events : texted[e] # <<>> => Closed(e)
  /\ \A w \in Workers : worker[w].pc \in BeyondFlip => Closed(worker[w].event)

LEMMA GotoEffect ==
  ASSUME TypeInv, NEW w \in Workers, NEW pc, Goto(w, pc)
  PROVE  /\ worker'[w].pc = pc /\ worker'[w].event = worker[w].event
         /\ worker'[w].resolved = worker[w].resolved
         /\ \A v \in Workers \ {w} : worker'[v] = worker[v]
  BY DEF TypeInv, TypeOK, Process, Goto

LEMMA DecideEffect ==
  ASSUME TypeInv, NEW w \in Workers, NEW res,
         worker' = [worker EXCEPT ![w].resolved = res, ![w].pc = "flip"]
  PROVE  /\ worker'[w].pc = "flip" /\ worker'[w].event = worker[w].event
         /\ \A v \in Workers \ {w} : worker'[v] = worker[v]
  BY DEF TypeInv, TypeOK, Process

LEMMA IdleEffect ==
  ASSUME TypeInv, NEW w \in Workers,
         worker' = [worker EXCEPT ![w] = Idle] \/ worker' = [worker EXCEPT ![w] = Down]
  PROVE  /\ worker'[w].pc \in {"poll", "down"}
         /\ \A v \in Workers \ {w} : worker'[v] = worker[v]
  BY DEF TypeInv, TypeOK, Idle, Down

LEMMA RaisesEffect ==
  ASSUME TypeInv, NEW w \in Workers, Raises(w)
  PROVE  /\ \A v \in Workers \ {w} : worker'[v] = worker[v]
         /\ \/ worker[w].pc \in {"claim", "recordCrashed"} /\ worker'[w].pc = "poll"
            \/ /\ worker[w].pc \notin {"claim", "recordCrashed"}
               /\ worker'[w].event = worker[w].event /\ worker'[w].resolved = worker[w].resolved
               /\ \/ worker'[w].pc = "recordCrashed"
                  \/ worker'[w].pc = "recordRefused" /\ worker[w].pc \in {"window", "twilio", "recordSent"}
  BY GotoEffect DEF Raises, TypeInv, TypeOK, Idle, Down

(* No process goes beyond the flip except by it, and none changes events   *)
(* on the way.                                                             *)
LEMMA BoundaryMove ==
  ASSUME TypeInv, BoundaryInv, NEW w \in Workers,
         \A v \in Workers \ {w} : worker'[v] = worker[v], UNCHANGED <<reply, texted>>,
         worker'[w].pc \in BeyondFlip => worker[w].pc \in BeyondFlip /\ worker'[w].event = worker[w].event
  PROVE  BoundaryInv'
  BY DEF BoundaryInv, Closed

LEMMA BoundaryStep == TypeInv /\ BoundaryInv /\ [Next]_vars => BoundaryInv'
<1> SUFFICES ASSUME TypeInv, BoundaryInv, [Next]_vars PROVE BoundaryInv'
  OBVIOUS
<1> USE DEF MyEvent
<1>0. /\ worker \in [Workers -> Process] /\ reply \in [Events -> Row]
      /\ texted \in [Events -> Seq({"yes", "no"})]
  BY DEF TypeInv, TypeOK
<1>1. ASSUME NEW w \in Workers, Start(w) PROVE BoundaryInv'
  <2>1. \A e \in Events : Closed(e) => Closed(e)'
    BY <1>0, <1>1 DEF Start, Closed, Row, Final
  <2>2. \A v \in Workers : worker'[v].pc \in BeyondFlip => worker'[v] = worker[v]
    BY <1>0, <1>1 DEF Start, Idle, Down, BeyondFlip
  <2>3. \A v \in Workers : worker[v].pc \in BeyondFlip => worker[v].event \in Events
    BY HasEvent DEF BeyondFlip
  <2> QED BY <1>1, <2>1, <2>2, <2>3 DEF Start, BoundaryInv
<1>2. ASSUME NEW w \in Workers, Scan(w) PROVE BoundaryInv'
  BY <1>0, <1>2 DEF Scan, BoundaryInv, Closed, Idle, Down, BeyondFlip
<1>3. ASSUME NEW w \in Workers, Claim(w) PROVE BoundaryInv'
  <2>1. worker[w].event \in Events BY <1>3, HasEvent DEF Claim, At
  <2>2. Claimable(worker[w].event) => ~Closed(worker[w].event)
    BY DEF Claimable, Closed, Final
  <2>3. \A e \in Events : Closed(e) => reply'[e] = reply[e]
    BY <1>0, <1>3, <2>1, <2>2 DEF Claim, UpdateReply
  <2>4. \A v \in Workers : worker'[v].pc \in BeyondFlip => worker'[v] = worker[v]
    <3>1. CASE Goto(w, "switch") BY <3>1, GotoEffect DEF BeyondFlip
    <3>2. CASE worker' = [worker EXCEPT ![w] = Idle] BY <3>2, IdleEffect DEF BeyondFlip
    <3>3. CASE Raises(w) BY <1>3, <3>3, RaisesEffect DEF Claim, At, BeyondFlip
    <3> QED BY <1>3, <3>1, <3>2, <3>3 DEF Claim, AnsweredTo
  <2>5. \A v \in Workers : worker[v].pc \in BeyondFlip => worker[v].event \in Events
    BY HasEvent DEF BeyondFlip
  <2> QED BY <1>3, <2>3, <2>4, <2>5 DEF Claim, BoundaryInv, Closed
<1>4. ASSUME NEW w \in Workers, ReadSwitch(w) PROVE BoundaryInv'
  BY <1>4, GotoEffect, BoundaryMove DEF ReadSwitch, BeyondFlip
<1>5. ASSUME NEW w \in Workers, Screen(w) PROVE BoundaryInv'
  BY <1>5, GotoEffect, DecideEffect, BoundaryMove DEF Screen, BeyondFlip
<1>6. ASSUME NEW w \in Workers, Generate(w) PROVE BoundaryInv'
  BY <1>6, GotoEffect, DecideEffect, BoundaryMove DEF Generate, BeyondFlip
<1>7. ASSUME NEW w \in Workers, NEW st \in {"sending"} \cup Final, NEW res,
             worker[w].pc \notin Idling, UpdateReply(worker[w].event, st, res),
             UNCHANGED texted, \A v \in Workers \ {w} : worker'[v] = worker[v],
             worker'[w].pc \in BeyondFlip => worker'[w].event = worker[w].event
      PROVE  BoundaryInv'
  <2>1. worker[w].event \in Events BY <1>7, HasEvent DEF Idling
  <2>2. \A e \in Events : Closed(e) \/ e = worker[w].event => Closed(e)'
    BY <1>0, <1>7, <2>1 DEF UpdateReply, Closed
  <2>3. \A v \in Workers : worker[v].pc \in BeyondFlip => worker[v].event \in Events
    BY HasEvent DEF BeyondFlip
  <2> QED BY <1>7, <2>1, <2>2, <2>3 DEF BoundaryInv
<1>8. ASSUME NEW w \in Workers, FlipToSending(w) PROVE BoundaryInv'
  <2>1. worker'[w].event = worker[w].event /\ \A v \in Workers \ {w} : worker'[v] = worker[v]
    BY <1>8, GotoEffect, RaisesEffect DEF FlipToSending, At, AnsweredTo
  <2> QED BY <1>7, <1>8, <2>1 DEF FlipToSending, At, Idling
<1>9. ASSUME NEW w \in Workers, CheckWindow(w) PROVE BoundaryInv'
  <2>1. worker[w].pc \in BeyondFlip BY <1>9 DEF CheckWindow, At, BeyondFlip
  <2>2. CASE Goto(w, "twilio") \/ Goto(w, "recordExpired")
    BY <1>9, <2>1, <2>2, GotoEffect, BoundaryMove DEF CheckWindow
  <2>3. CASE worker' = [worker EXCEPT ![w] = Idle]
    BY <1>9, <2>3, IdleEffect, BoundaryMove DEF CheckWindow, BeyondFlip
  <2> QED BY <1>9, <2>2, <2>3 DEF CheckWindow
<1>10. ASSUME NEW w \in Workers, CallTwilio(w) PROVE BoundaryInv'
  <2>1. Closed(worker[w].event) BY <1>10 DEF CallTwilio, At, BoundaryInv, BeyondFlip
  <2>2. worker[w].event \in Events BY <1>10, HasEvent DEF CallTwilio, At
  <2>3. \A e \in Events : e # worker[w].event => texted'[e] = texted[e]
    BY <1>0, <1>10, <2>2 DEF CallTwilio
  <2>4. \A v \in Workers : worker'[v].event = worker[v].event /\ (worker'[v].pc \in BeyondFlip => worker[v].pc \in BeyondFlip)
    BY <1>0, <1>10 DEF CallTwilio, At, Goto, Process, BeyondFlip
  <2> QED BY <1>10, <2>1, <2>3, <2>4 DEF CallTwilio, BoundaryInv, Closed
<1>11. ASSUME NEW w \in Workers,
              RecordSent(w) \/ RecordRefused(w) \/ RecordExpired(w) \/ RecordSkipped(w)
                \/ RecordFailed(w) \/ RecordCrashed(w)
       PROVE  BoundaryInv'
  <2>1. PICK pc \in {"recordSent", "recordRefused", "recordExpired", "recordSkipped",
                     "recordFailed", "recordCrashed"},
             st \in Final, res \in {worker[w].resolved, reply[worker[w].event].resolved} :
          Done(w, pc, st, res)
    BY <1>11 DEF RecordSent, RecordRefused, RecordExpired, RecordSkipped, RecordFailed,
       RecordCrashed, Final
  <2>2. /\ worker'[w].pc \in BeyondFlip => worker'[w].event = worker[w].event
        /\ \A v \in Workers \ {w} : worker'[v] = worker[v]
    BY <2>1, IdleEffect, RaisesEffect DEF Done, BeyondFlip
  <2> QED BY <1>7, <2>1, <2>2 DEF Done, At, Idling
<1>12. ASSUME NEW w \in Workers, Fault(w) PROVE BoundaryInv'
  BY <1>12, RaisesEffect, BoundaryMove DEF Fault, BeyondFlip
<1>13. ASSUME NEW w \in Workers, Crash(w) PROVE BoundaryInv'
  BY <1>0, <1>13 DEF Crash, BoundaryInv, Closed, BeyondFlip, Down
<1>14. ASSUME NEW e \in Events, LeaseExpires(e) PROVE BoundaryInv'
  <2>1. \A f \in Events : reply'[f].status = reply[f].status
    BY <1>0, <1>14 DEF LeaseExpires, Row
  <2>2. \A v \in Workers : worker[v].pc \in BeyondFlip => worker[v].event \in Events
    BY HasEvent DEF BeyondFlip
  <2> QED BY <1>14, <2>1, <2>2 DEF LeaseExpires, BoundaryInv, Closed
<1>15. CASE ToggleSwitch BY <1>15 DEF ToggleSwitch, BoundaryInv, Closed
<1>16. CASE UNCHANGED vars BY <1>16 DEF vars, BoundaryInv, Closed
<1> QED BY <1>1, <1>2, <1>3, <1>4, <1>5, <1>6, <1>8, <1>9, <1>10, <1>11, <1>12, <1>13, <1>14, <1>15, <1>16
     DEF Next, Step

LEMMA BoundaryInit == Init => BoundaryInv
  BY DEF Init, BoundaryInv, Down, BeyondFlip

(* Once Twilio may have taken a message for an event, its row is 'sending' *)
(* or final: for any number of processes, and also when leases run out     *)
(* under processes that are still at work.                                 *)
THEOREM BoundaryHolds == Spec => []TextedNotClaimable
<1>1. BoundaryInv => TextedNotClaimable
  BY DEF BoundaryInv, TextedNotClaimable, MyEvent, Closed, BeyondFlip
<1> QED BY TypeInit, TypeStep, BoundaryInit, BoundaryStep, <1>1, PTL DEF Spec

-----------------------------------------------------------------------------
(***************************************************************************)
(* What is left when leases run out under the work.  The first message     *)
(* closes the row to claims, so whoever sends another one has claimed the  *)
(* event before that, and a process sends at most once per claim.          *)
(***************************************************************************)
Unsent == {"switch", "screen", "generate", "flip", "window", "twilio"}

MaySend(e) == {w \in Workers : worker[w].event = e /\ worker[w].pc \in Unsent}

SharedInv ==
  \A e \in Events : texted[e] # <<>> =>
    Len(texted[e]) + Cardinality(MaySend(e)) <= Cardinality(Workers)

(* Nobody takes up an event about which the customer has a message.        *)
LEMMA NoLateSender ==
  ASSUME TypeInv, BoundaryInv, [Next]_vars, NEW e \in Events, texted[e] # <<>>
  PROVE  MaySend(e)' \subseteq MaySend(e)
<1> USE DEF MyEvent
<1>0. ~Claimable(e) BY DEF BoundaryInv, Closed, Claimable, Final
<1>1. SUFFICES ASSUME NEW v \in Workers, worker'[v].event = e, worker'[v].pc \in Unsent
               PROVE  worker[v].event = e /\ worker[v].pc \in Unsent
  BY DEF MaySend
<1>2. CASE worker'[v] = worker[v] BY <1>1, <1>2
<1>3. ASSUME NEW w \in Workers, NEW pc, Goto(w, pc), pc \in Unsent => worker[w].pc \in Unsent
      PROVE  worker[v].event = e /\ worker[v].pc \in Unsent
  BY <1>1, <1>2, <1>3, GotoEffect
<1>4. ASSUME NEW w \in Workers, worker' = [worker EXCEPT ![w] = Idle] \/ worker' = [worker EXCEPT ![w] = Down]
      PROVE  worker[v].event = e /\ worker[v].pc \in Unsent
  BY <1>1, <1>2, <1>4, IdleEffect DEF Unsent
<1>5. ASSUME NEW w \in Workers, NEW res, worker[w].pc \in Unsent,
             worker' = [worker EXCEPT ![w].resolved = res, ![w].pc = "flip"]
      PROVE  worker[v].event = e /\ worker[v].pc \in Unsent
  BY <1>1, <1>2, <1>5, DecideEffect
<1>r. ASSUME NEW w \in Workers, Raises(w) PROVE worker[v].event = e /\ worker[v].pc \in Unsent
  BY <1>1, <1>2, <1>r, RaisesEffect DEF Unsent
<1>6. ASSUME NEW w \in Workers, Scan(w) PROVE worker[v].event = e /\ worker[v].pc \in Unsent
  BY <1>1, <1>2, <1>6 DEF Scan, Idle, Down, Unsent, TypeInv, TypeOK
<1>7. ASSUME NEW w \in Workers, Claim(w) PROVE worker[v].event = e /\ worker[v].pc \in Unsent
  <2>1. CASE ~Claimable(worker[w].event) BY <1>4, <1>7, <2>1 DEF Claim
  <2>2. CASE Claimable(worker[w].event)
    BY <1>0, <1>1, <1>2, <1>7, <1>r, <2>2, GotoEffect DEF Claim, AnsweredTo
  <2> QED BY <2>1, <2>2
<1>8. ASSUME NEW w \in Workers, Step(w) PROVE worker[v].event = e /\ worker[v].pc \in Unsent
  <2>1. CASE ReadSwitch(w) BY <1>3, <2>1 DEF ReadSwitch, At, Unsent
  <2>2. CASE Screen(w) \/ Generate(w)
    BY <1>3, <1>5, <2>2 DEF Screen, Generate, At, Unsent
  <2>3. CASE FlipToSending(w) \/ CheckWindow(w) \/ CallTwilio(w)
    BY <1>3, <1>4, <1>r, <2>3 DEF FlipToSending, CheckWindow, CallTwilio, At, AnsweredTo, Unsent
  <2>4. CASE Start(w) \/ RecordSent(w) \/ RecordRefused(w) \/ RecordExpired(w)
             \/ RecordSkipped(w) \/ RecordFailed(w) \/ RecordCrashed(w)
    BY <1>4, <1>r, <2>4 DEF Start, RecordSent, RecordRefused, RecordExpired, RecordSkipped, RecordFailed, RecordCrashed, Done
  <2> QED BY <1>6, <1>7, <1>8, <2>1, <2>2, <2>3, <2>4 DEF Step
<1>9. ASSUME NEW w \in Workers, Fault(w) \/ Crash(w) PROVE worker[v].event = e /\ worker[v].pc \in Unsent
  BY <1>4, <1>9, <1>r DEF Fault, Crash
<1>10. CASE worker' = worker BY <1>2, <1>10
<1> QED BY <1>8, <1>9, <1>10 DEF Next, LeaseExpires, ToggleSwitch, vars

(* A message is the last thing its process does for the event.             *)
LEMMA SenderIsDone ==
  ASSUME TypeInv, [Next]_vars, NEW e \in Events, texted'[e] # texted[e]
  PROVE  \E w \in MaySend(e) : /\ Len(texted'[e]) = Len(texted[e]) + 1
                               /\ MaySend(e)' \subseteq MaySend(e) \ {w}
<1> USE DEF MyEvent
<1>0. texted \in [Events -> Seq({"yes", "no"})] BY DEF TypeInv, TypeOK
<1>1. PICK w \in Workers : CallTwilio(w)
  BY DEF Next, Step, Start, Scan, Claim, ReadSwitch, Screen, Generate, FlipToSending,
     CheckWindow, RecordSent, RecordRefused, RecordExpired, RecordSkipped,
     RecordFailed, RecordCrashed, Done, Fault, Crash, LeaseExpires, ToggleSwitch, vars
<1>2. texted' = [texted EXCEPT ![worker[w].event] = Append(@, worker[w].resolved)]
  BY <1>1 DEF CallTwilio
<1>3. worker[w].event = e /\ w \in MaySend(e)
  BY <1>0, <1>1, <1>2 DEF MaySend, CallTwilio, At, Unsent
<1>4. Len(texted'[e]) = Len(texted[e]) + 1
  <2>1. worker[w].resolved \in {"yes", "no"} BY <1>1 DEF CallTwilio, At, TypeInv, Decided
  <2> QED BY <1>0, <1>2, <1>3, <2>1
<1>5. PICK pc \in {"recordSent", "recordRefused"} : Goto(w, pc) BY <1>1 DEF CallTwilio
<1>6. MaySend(e)' \subseteq MaySend(e) \ {w}
  BY <1>5, GotoEffect DEF MaySend, Unsent
<1> QED BY <1>3, <1>4, <1>6

LEMMA SharedStep ==
  ASSUME IsFiniteSet(Workers), TypeInv, BoundaryInv, SharedInv, [Next]_vars
  PROVE  SharedInv'
<1> SUFFICES ASSUME NEW e \in Events, texted'[e] # <<>>
             PROVE  Len(texted'[e]) + Cardinality(MaySend(e)') <= Cardinality(Workers)
  BY DEF SharedInv
<1>1. /\ IsFiniteSet(MaySend(e)) /\ Cardinality(MaySend(e)) \in Nat
      /\ Cardinality(MaySend(e)) <= Cardinality(Workers) /\ Cardinality(Workers) \in Nat
  <2>1. MaySend(e) \in SUBSET Workers BY DEF MaySend
  <2> QED BY <2>1, FS_Subset, FS_CardinalityType
<1>2. texted[e] \in Seq({"yes", "no"}) BY DEF TypeInv, TypeOK
<1>3. CASE texted'[e] = texted[e]
  <2>1. MaySend(e)' \in SUBSET MaySend(e) BY <1>3, NoLateSender
  <2>2. Cardinality(MaySend(e)') <= Cardinality(MaySend(e)) /\ Cardinality(MaySend(e)') \in Nat
    BY <1>1, <2>1, FS_Subset, FS_CardinalityType
  <2>3. Len(texted[e]) + Cardinality(MaySend(e)) <= Cardinality(Workers) BY <1>3 DEF SharedInv
  <2> QED BY <1>1, <1>2, <1>3, <2>2, <2>3
<1>4. CASE texted'[e] # texted[e]
  <2>1. PICK w \in MaySend(e) : /\ Len(texted'[e]) = Len(texted[e]) + 1
                               /\ MaySend(e)' \in SUBSET (MaySend(e) \ {w})
    BY <1>4, SenderIsDone
  <2>2. /\ IsFiniteSet(MaySend(e) \ {w})
        /\ Cardinality(MaySend(e) \ {w}) = Cardinality(MaySend(e)) - 1
    BY <1>1, <2>1, FS_RemoveElement
  <2>3. Cardinality(MaySend(e)') <= Cardinality(MaySend(e)) - 1 /\ Cardinality(MaySend(e)') \in Nat
    BY <2>1, <2>2, FS_Subset, FS_CardinalityType
  <2>4. CASE texted[e] = <<>> BY <1>1, <2>1, <2>3, <2>4
  <2>5. CASE texted[e] # <<>>
    <3>1. Len(texted[e]) + Cardinality(MaySend(e)) <= Cardinality(Workers) BY <2>5 DEF SharedInv
    <3> QED BY <1>1, <1>2, <2>1, <2>3, <3>1
  <2> QED BY <2>4, <2>5
<1> QED BY <1>3, <1>4

(* However short the lease, however often processes crash and rows are     *)
(* claimed again, a customer gets at most one message per process for what *)
(* they wrote.  Two processes do reach two: see AtMostOnce.                *)
OncePerProcess == \A e \in Events : Len(texted[e]) <= Cardinality(Workers)

THEOREM TextsAreBounded == ASSUME IsFiniteSet(Workers) PROVE Spec => []OncePerProcess
<1>1. Init => SharedInv BY DEF Init, SharedInv
<1>2. TypeInv /\ BoundaryInv /\ SharedInv /\ [Next]_vars => SharedInv' BY SharedStep
<1>3. TypeInv /\ SharedInv => OncePerProcess
  <2> SUFFICES ASSUME TypeInv, SharedInv, NEW e \in Events
               PROVE  Len(texted[e]) <= Cardinality(Workers)
    BY DEF OncePerProcess
  <2>1. Cardinality(Workers) \in Nat BY FS_CardinalityType
  <2>2. Cardinality(MaySend(e)) \in Nat
    <3>1. MaySend(e) \in SUBSET Workers BY DEF MaySend
    <3> QED BY <3>1, FS_Subset, FS_CardinalityType
  <2>3. texted[e] \in Seq({"yes", "no"}) BY DEF TypeInv, TypeOK
  <2>4. CASE texted[e] = <<>> BY <2>1, <2>4
  <2>5. CASE texted[e] # <<>> BY <2>1, <2>2, <2>3, <2>5 DEF SharedInv
  <2> QED BY <2>4, <2>5
<1> QED BY TypeInit, TypeStep, BoundaryInit, BoundaryStep, <1>1, <1>2, <1>3, PTL DEF Spec

-----------------------------------------------------------------------------
(***************************************************************************)
(* At most one message, if a lease outlives the work done under it or one  *)
(* process does all of it.  Then no two processes work on one event, the   *)
(* row being worked on stays in flight until the process has ended it, and *)
(* each stage of the work knows what the customer has received so far.     *)
(***************************************************************************)
OneAtATime == LeaseOutlivesWork \/ \A v, w \in Workers : v = w

Working(w) == worker[w].pc \notin Idling

Attended(r) == r.status \in InFlight /\ (LeaseOutlivesWork => r.fresh)

(* The process was told that an await raised although its UPDATE had ended *)
(* the row; the flag it is about to write is the one that is there.        *)
Ended(w) ==
  LET p == worker[w]
      r == reply[worker[w].event]
  IN /\ p.pc \in {"recordRefused", "recordCrashed"}
     /\ faults > 0
     /\ r.status \in Final
     /\ p.pc = "recordRefused" => r.resolved = p.resolved

Stage(w) ==
  LET p == worker[w]
  IN /\ p.pc \in {"switch", "screen", "generate", "flip"} => reply[p.event].status = "processing"
     /\ p.pc \in {"recordSkipped", "window", "twilio", "recordExpired"} => texted[p.event] = <<>>
     /\ p.pc = "recordSent" => texted[p.event] = <<p.resolved>>

SendInv ==
  /\ \A w \in Workers : Working(w) => Attended(reply[worker[w].event]) \/ Ended(w)
  /\ \A v, w \in Workers : v # w /\ Working(v) /\ Working(w) => worker[v].event # worker[w].event
  /\ \A w \in Workers : Stage(w)
  /\ AtMostOnce
  /\ RecordMatchesText

(* A process at work moves on and touches neither the table nor Twilio.    *)
LEMMA SendMove ==
  ASSUME SendInv, NEW w \in Workers,
         \A v \in Workers \ {w} : worker'[v] = worker[v], UNCHANGED <<reply, texted>>,
         faults > 0 => faults' > 0,
         Working(w)' => /\ Working(w) /\ worker'[w].event = worker[w].event
                        /\ Attended(reply[worker[w].event]) \/ Ended(w)',
         Stage(w)'
  PROVE  SendInv'
<1>0. \A v \in Workers \ {w} : Ended(v) => Ended(v)' BY DEF Ended
<1>1. \A v \in Workers : Stage(v)' BY DEF SendInv, Stage
<1>2. AtMostOnce' /\ RecordMatchesText' BY DEF SendInv, AtMostOnce, RecordMatchesText
<1> QED BY <1>0, <1>1, <1>2 DEF SendInv, Working

(* Nobody else works on the row of the event w writes to.                  *)
LEMMA WorkerStays ==
  ASSUME SendInv, NEW w \in Workers, NEW e \in Events,
         \A v \in Workers \ {w} : worker'[v] = worker[v],
         \A v \in Workers \ {w} : Working(v) => worker[v].event # e,
         \A f \in Events \ {e} : reply'[f] = reply[f] /\ texted'[f] = texted[f],
         \A v \in Workers : Working(v) => worker[v].event \in Events,
         faults > 0 => faults' > 0,
         Working(w)' => worker'[w].event = e /\ (Attended(reply'[e]) \/ Ended(w)'),
         Stage(w)',
         Len(texted'[e]) <= 1,
         reply'[e].status = "sent" => texted'[e] = <<reply'[e].resolved>>,
         reply'[e].status = "skipped" => texted'[e] = <<>>
  PROVE  SendInv'
<1>1. \A v \in Workers \ {w} : Working(v)' =>
        /\ Working(v) /\ worker'[v] = worker[v] /\ worker[v].event \in Events \ {e}
        /\ reply'[worker[v].event] = reply[worker[v].event]
        /\ texted'[worker[v].event] = texted[worker[v].event]
  BY DEF Working
<1>2. ASSUME NEW v \in Workers, Working(v)'
      PROVE  Attended(reply'[worker'[v].event]) \/ Ended(v)'
  <2>1. CASE v = w BY <1>2, <2>1
  <2>2. CASE v # w
    <3>1. Attended(reply[worker[v].event]) \/ Ended(v) BY <1>1, <1>2, <2>2 DEF SendInv
    <3> QED BY <1>1, <1>2, <2>2, <3>1 DEF Ended
  <2> QED BY <2>1, <2>2
<1>3. \A u, v \in Workers : u # v /\ Working(u)' /\ Working(v)' => worker'[u].event # worker'[v].event
  BY <1>1 DEF SendInv
<1>4. ASSUME NEW v \in Workers PROVE Stage(v)'
  <2>1. CASE v = w BY <2>1
  <2>2. CASE v # w /\ Working(v)' BY <1>1, <2>2 DEF SendInv, Stage
  <2>3. CASE ~Working(v)' BY <2>3 DEF Working, Stage, Idling
  <2> QED BY <2>1, <2>2, <2>3
<1>5. AtMostOnce' BY DEF SendInv, AtMostOnce
<1>6. RecordMatchesText' BY DEF SendInv, RecordMatchesText
<1> QED BY <1>2, <1>3, <1>4, <1>5, <1>6 DEF SendInv

(* Faults are counted and never forgotten. *)
LEMMA FaultsGrow ==
  ASSUME TypeInv, [Next]_vars
  PROVE  /\ faults \in Nat /\ faults' \in Nat /\ faults <= faults'
         /\ faults > 0 => faults' > 0
<1>1. faults \in Nat BY ConstantsOK DEF TypeInv, TypeOK, ConstantsOK
<1>2. faults' = faults \/ faults' = faults + 1
  <2>1. ASSUME NEW w \in Workers, Step(w) \/ Fault(w) \/ Crash(w)
        PROVE  faults' = faults \/ faults' = faults + 1
    BY <2>1 DEF Step, Start, Scan, Claim, ReadSwitch, Screen, Generate, FlipToSending,
       CheckWindow, CallTwilio, RecordSent, RecordRefused, RecordExpired, RecordSkipped,
       RecordFailed, RecordCrashed, Done, AnsweredTo, Raises, Fault, Crash
  <2> QED BY <2>1 DEF Next, LeaseExpires, ToggleSwitch, vars
<1> QED BY <1>1, <1>2

LEMMA SendStep ==
  ASSUME OneAtATime
  PROVE  TypeInv /\ BoundaryInv /\ SendInv /\ [Next]_vars => SendInv'
<1> SUFFICES ASSUME TypeInv, BoundaryInv, SendInv, [Next]_vars PROVE SendInv'
  OBVIOUS
<1> USE DEF MyEvent
<1>0. /\ worker \in [Workers -> Process] /\ reply \in [Events -> Row]
      /\ texted \in [Events -> Seq({"yes", "no"})]
      /\ \A e \in Events : reply[e].fresh => reply[e].status \in InFlight
  BY DEF TypeInv, TypeOK
<1>a. \A w \in Workers : Working(w) => worker[w].event \in Events
  BY HasEvent DEF Working, Idling
<1>b. \A e \in Events : reply[e].status \in {"none", "processing"} => texted[e] = <<>>
  BY DEF BoundaryInv, Closed, Final
<1>c. \A v, w \in Workers : v # w /\ Working(v) /\ Working(w) => worker[v].event # worker[w].event
  BY DEF SendInv
<1>f. faults > 0 => faults' > 0 BY FaultsGrow
<1>g. \A w \in Workers : Working(w) /\ worker[w].pc \notin {"recordRefused", "recordCrashed"}
                           => Attended(reply[worker[w].event])
  BY DEF SendInv, Ended
<1>d. ASSUME NEW w \in Workers, worker[w].pc \in {"poll", "down", "claim"}, UNCHANGED <<reply, texted>>,
             \A v \in Workers \ {w} : worker'[v] = worker[v], worker'[w].pc \in Idling
      PROVE  SendInv'
  BY <1>d, <1>f, SendMove DEF Working, Stage, Idling
<1>e. ASSUME NEW w \in Workers, UNCHANGED <<reply, texted>>,
             worker' = [worker EXCEPT ![w] = Idle] \/ worker' = [worker EXCEPT ![w] = Down]
      PROVE  SendInv'
  <2>1. worker'[w].pc \in {"poll", "down"} /\ \A v \in Workers \ {w} : worker'[v] = worker[v]
    BY <1>e, IdleEffect
  <2> QED BY <1>e, <1>f, <2>1, SendMove DEF Working, Stage, Idling
<1>1. ASSUME NEW w \in Workers, Start(w) PROVE SendInv'
  <2>1. \A v \in Workers \ {w} : worker'[v] = worker[v] /\ worker'[w].pc = "poll"
    BY <1>0, <1>1, IdleEffect DEF Start, Idle, Down
  <2>2. worker'[w].pc = "poll" BY <1>0, <1>1 DEF Start, Idle, Down
  <2>3. \A e \in Events : reply[e].fresh => reply'[e] = reply[e]
    BY <1>1 DEF Start
  <2>4. \A e \in Events : reply'[e].status \in {"sent", "skipped"} => reply'[e] = reply[e]
    <3>1. SUFFICES ASSUME NEW e \in Events PROVE reply'[e].status \in {"sent", "skipped"} => reply'[e] = reply[e]
      OBVIOUS
    <3>2. reply'[e] = reply[e] \/ reply'[e] = [reply[e] EXCEPT !.status = "failed"]
      BY <1>1 DEF Start
    <3> QED BY <1>0, <3>2 DEF Row
  <2>5. \A v \in Workers : Working(v)' =>
          /\ Working(v) /\ worker'[v] = worker[v] /\ reply'[worker[v].event] = reply[worker[v].event]
    <3>1. CASE LeaseOutlivesWork
      <4> SUFFICES ASSUME NEW v \in Workers, Working(v)'
                   PROVE  /\ Working(v) /\ worker'[v] = worker[v]
                          /\ reply'[worker[v].event] = reply[worker[v].event]
        OBVIOUS
      <4>1. Working(v) /\ worker'[v] = worker[v] /\ worker[v].event \in Events
        BY <1>a, <2>1, <2>2 DEF Working, Idling
      <4>2. reply[worker[v].event].fresh \/ reply[worker[v].event].status \in Final
        BY <3>1, <4>1 DEF SendInv, Attended, Ended
      <4> QED BY <1>1, <2>3, <4>1, <4>2 DEF Start, Final
    <3>2. CASE \A u, v \in Workers : u = v
      BY <2>2, <3>2 DEF Working, Idling
    <3> QED BY <3>1, <3>2 DEF OneAtATime
  <2>6. \A v \in Workers : Stage(v)'
    <3>1. SUFFICES ASSUME NEW v \in Workers PROVE Stage(v)'
      OBVIOUS
    <3>2. CASE Working(v)'
      <4>1. /\ Stage(v) /\ texted' = texted /\ worker'[v] = worker[v]
            /\ reply'[worker[v].event] = reply[worker[v].event]
        BY <1>1, <2>5, <3>2 DEF Start, SendInv
      <4> QED BY <4>1 DEF Stage
    <3>3. CASE ~Working(v)' BY <3>3 DEF Working, Stage, Idling
    <3> QED BY <3>2, <3>3
  <2>7. AtMostOnce' BY <1>1 DEF Start, SendInv, AtMostOnce
  <2>8. RecordMatchesText' BY <1>1, <2>4 DEF Start, SendInv, RecordMatchesText
  <2>9. \A v \in Workers : Working(v)' => Attended(reply'[worker'[v].event]) \/ Ended(v)'
    <3> SUFFICES ASSUME NEW v \in Workers, Working(v)'
                 PROVE  Attended(reply'[worker'[v].event]) \/ Ended(v)'
      OBVIOUS
    <3>1. Attended(reply[worker[v].event]) \/ Ended(v) BY <2>5 DEF SendInv
    <3> QED BY <1>f, <2>5, <3>1 DEF Ended
  <2> QED BY <2>5, <2>6, <2>7, <2>8, <2>9 DEF SendInv
<1>2. ASSUME NEW w \in Workers, Scan(w) PROVE SendInv'
  <2>1. \A v \in Workers \ {w} : worker'[v] = worker[v] BY <1>0, <1>2 DEF Scan
  <2>2. worker'[w].pc = "claim" BY <1>0, <1>2 DEF Scan, Idle, Down
  <2> QED BY <1>2, <1>d, <2>1, <2>2 DEF Scan, At, Idling
<1>3. ASSUME NEW w \in Workers, Claim(w) PROVE SendInv'
  <2> DEFINE e == worker[w].event
  <2>1. e \in Events BY <1>3, HasEvent DEF Claim, At
  <2>2. CASE Claimable(e)
    <3>1. ~reply[e].fresh BY <1>0, <2>1, <2>2 DEF Claimable, InFlight
    <3>2. \A v \in Workers : Working(v) => worker[v].event # e
      <4>1. CASE LeaseOutlivesWork
        BY <2>2, <3>1, <4>1 DEF SendInv, Attended, Ended, Claimable, Final
      <4>2. CASE \A u, v \in Workers : u = v
        <5>1. ~Working(w) BY <1>3 DEF Claim, At, Working, Idling
        <5> QED BY <4>2, <5>1
      <4> QED BY <4>1, <4>2 DEF OneAtATime
    <3>3. texted[e] = <<>> BY <1>b, <2>1, <2>2 DEF Claimable
    <3>4. AnsweredTo(w, "switch") /\ UpdateReply(e, "processing", reply[e].resolved) /\ UNCHANGED texted
      BY <1>3, <2>2 DEF Claim
    <3>5. /\ reply'[e].fresh /\ reply'[e].status = "processing"
          /\ \A f \in Events \ {e} : reply'[f] = reply[f]
      BY <1>0, <2>1, <3>4 DEF UpdateReply, InFlight
    <3>6. /\ \/ worker'[w].pc = "switch" /\ worker'[w].event = e
             \/ worker'[w].pc = "poll"
          /\ \A v \in Workers \ {w} : worker'[v] = worker[v]
      BY <1>3, <3>4, GotoEffect, RaisesEffect DEF AnsweredTo, Claim, At
    <3>7. Stage(w)' BY <3>5, <3>6 DEF Stage
    <3>8. Working(w)' => worker'[w].event = e BY <3>6 DEF Working, Idling
    <3> HIDE DEF e
    <3> QED BY <1>a, <1>f, <2>1, <3>2, <3>3, <3>4, <3>5, <3>6, <3>7, <3>8, WorkerStays DEF Attended, InFlight
  <2>3. CASE ~Claimable(e)
    BY <1>3, <1>e, <2>3 DEF Claim
  <2> QED BY <2>2, <2>3
<1>4. ASSUME NEW w \in Workers, ReadSwitch(w) PROVE SendInv'
  <2>1. /\ Working(w) /\ reply[worker[w].event].status = "processing"
        /\ Attended(reply[worker[w].event])
    BY <1>4, <1>g DEF ReadSwitch, At, Working, Idling, SendInv, Stage
  <2>2. texted[worker[w].event] = <<>> BY <1>a, <1>b, <2>1
  <2> QED BY <1>4, <1>f, <2>1, <2>2, GotoEffect, SendMove DEF ReadSwitch, Stage
<1>5. ASSUME NEW w \in Workers, Screen(w) PROVE SendInv'
  <2>1. /\ Working(w) /\ reply[worker[w].event].status = "processing"
        /\ Attended(reply[worker[w].event])
    BY <1>5, <1>g DEF Screen, At, Working, Idling, SendInv, Stage
  <2>2. CASE Goto(w, "generate") BY <1>5, <1>f, <2>1, <2>2, GotoEffect, SendMove DEF Screen, Stage
  <2>3. CASE worker' = [worker EXCEPT ![w].resolved = "no", ![w].pc = "flip"]
    BY <1>5, <1>f, <2>1, <2>3, DecideEffect, SendMove DEF Screen, Stage
  <2> QED BY <1>5, <2>2, <2>3 DEF Screen
<1>6. ASSUME NEW w \in Workers, Generate(w) PROVE SendInv'
  <2>1. /\ Working(w) /\ reply[worker[w].event].status = "processing"
        /\ Attended(reply[worker[w].event])
    BY <1>6, <1>g DEF Generate, At, Working, Idling, SendInv, Stage
  <2>2. CASE Goto(w, "recordFailed") BY <1>6, <1>f, <2>1, <2>2, GotoEffect, SendMove DEF Generate, Stage
  <2>3. ASSUME NEW res, worker' = [worker EXCEPT ![w].resolved = res, ![w].pc = "flip"] PROVE SendInv'
    BY <1>6, <1>f, <2>1, <2>3, DecideEffect, SendMove DEF Generate, Stage
  <2> QED BY <1>6, <2>2, <2>3 DEF Generate
<1>7. ASSUME NEW w \in Workers, FlipToSending(w) PROVE SendInv'
  <2> DEFINE e == worker[w].event
  <2>1. Working(w) /\ e \in Events /\ texted[e] = <<>>
    BY <1>7, <1>a, <1>b DEF FlipToSending, At, Working, Idling, SendInv, Stage
  <2>2. AnsweredTo(w, "window") /\ UpdateReply(e, "sending", reply[e].resolved) /\ UNCHANGED texted
    BY <1>7 DEF FlipToSending
  <2>3. /\ reply'[e].fresh /\ reply'[e].status = "sending"
        /\ \A f \in Events \ {e} : reply'[f] = reply[f]
    BY <1>0, <2>1, <2>2 DEF UpdateReply, InFlight
  <2>4. /\ worker'[w].pc \in {"window", "recordCrashed"} /\ worker'[w].event = e
        /\ \A v \in Workers \ {w} : worker'[v] = worker[v]
    BY <1>7, <2>2, GotoEffect, RaisesEffect DEF AnsweredTo, FlipToSending, At
  <2>5. Stage(w)' BY <2>1, <2>2, <2>4 DEF Stage
  <2>6. \A v \in Workers \ {w} : Working(v) => worker[v].event # e BY <1>c, <2>1
  <2> HIDE DEF e
  <2> QED BY <1>a, <1>f, <2>1, <2>2, <2>3, <2>4, <2>5, <2>6, WorkerStays DEF Attended, InFlight
<1>8. ASSUME NEW w \in Workers, CheckWindow(w) PROVE SendInv'
  <2>1. Working(w) /\ texted[worker[w].event] = <<>> /\ Attended(reply[worker[w].event])
    BY <1>8, <1>g DEF CheckWindow, At, Working, Idling, SendInv, Stage
  <2>2. CASE Goto(w, "twilio") \/ Goto(w, "recordExpired")
    BY <1>8, <1>f, <2>1, <2>2, GotoEffect, SendMove DEF CheckWindow, Stage
  <2>3. CASE worker' = [worker EXCEPT ![w] = Idle] BY <1>8, <1>e, <2>3 DEF CheckWindow
  <2> QED BY <1>8, <2>2, <2>3 DEF CheckWindow
<1>9. ASSUME NEW w \in Workers, CallTwilio(w) PROVE SendInv'
  <2> DEFINE e == worker[w].event
             r == worker[w].resolved
  <2>1. Working(w) /\ e \in Events /\ texted[e] = <<>>
    BY <1>9, <1>a DEF CallTwilio, At, Working, Idling, SendInv, Stage
  <2>2. r \in {"yes", "no"} BY <1>9 DEF CallTwilio, At, TypeInv, Decided
  <2>3. Append(texted[e], r) = <<r>> /\ Len(<<r>>) = 1 BY <2>1
  <2>4. PICK pc \in {"recordSent", "recordRefused"} :
          /\ Goto(w, pc)
          /\ \/ texted' = [texted EXCEPT ![e] = Append(@, r)]
             \/ pc = "recordRefused" /\ UNCHANGED texted
    BY <1>9 DEF CallTwilio
  <2>5. /\ \A f \in Events \ {e} : texted'[f] = texted[f]
        /\ texted'[e] = <<r>> \/ (pc = "recordRefused" /\ texted'[e] = <<>>)
    BY <1>0, <2>1, <2>3, <2>4
  <2>6. reply' = reply /\ Attended(reply[e]) BY <1>9, <1>g, <2>1 DEF CallTwilio, At
  <2>7. /\ worker'[w].pc = pc /\ worker'[w].event = e /\ worker'[w].resolved = r
        /\ \A v \in Workers \ {w} : worker'[v] = worker[v]
    BY <2>4, GotoEffect
  <2>8. Stage(w)' BY <2>5, <2>7 DEF Stage
  <2>9. \A v \in Workers \ {w} : Working(v) => worker[v].event # e BY <1>c, <2>1
  <2>10. reply[e].status \in InFlight BY <2>6 DEF Attended
  <2>11. Len(texted'[e]) <= 1
    <3>1. CASE texted'[e] = <<>> BY <3>1
    <3>2. CASE texted'[e] = <<r>> BY <2>3, <3>2
    <3> QED BY <2>5, <3>1, <3>2
  <2> HIDE DEF e, r
  <2> QED BY <1>a, <1>f, <2>1, <2>5, <2>6, <2>7, <2>8, <2>9, <2>10, <2>11, WorkerStays DEF InFlight, Final
<1>10. ASSUME NEW w \in Workers, Working(w),
              NEW st \in Final, NEW res \in Resolved, UpdateReply(worker[w].event, st, res),
              worker' = [worker EXCEPT ![w] = Idle] \/ Raises(w), UNCHANGED texted,
              worker[w].pc = "recordSent" => res = worker[w].resolved,
              worker[w].pc \notin {"window", "twilio"},
              st = "sent" => texted[worker[w].event] = <<res>>,
              st = "skipped" => texted[worker[w].event] = <<>>
       PROVE  SendInv'
  <2> DEFINE e == worker[w].event
  <2>1. e \in Events BY <1>10, <1>a
  <2>2. reply'[e].status = st /\ reply'[e].resolved = res /\ \A f \in Events \ {e} : reply'[f] = reply[f]
    BY <1>0, <1>10, <2>1 DEF UpdateReply
  <2>3. /\ \A v \in Workers \ {w} : worker'[v] = worker[v]
        /\ Stage(w)'
        /\ Working(w)' => worker'[w].event = e /\ Ended(w)'
    <3>1. CASE worker' = [worker EXCEPT ![w] = Idle]
      BY <3>1, IdleEffect DEF Stage, Working, Idling
    <3>2. CASE Raises(w)
      <4>1. faults' > 0 BY <3>2, ConstantsOK DEF Raises, TypeInv, TypeOK, ConstantsOK
      <4>2. worker'[w].pc \in {"poll", "recordRefused", "recordCrashed"} BY <3>2, RaisesEffect
      <4>3. Working(w)' => /\ worker'[w].event = e
                           /\ worker'[w].pc = "recordRefused" => res = worker'[w].resolved
        BY <1>10, <3>2, RaisesEffect DEF Working, Idling
      <4> HIDE DEF e
      <4> QED BY <2>2, <3>2, <4>1, <4>2, <4>3, RaisesEffect DEF Ended, Stage, Working, Idling
    <3> QED BY <1>10, <3>1, <3>2
  <2>5. \A v \in Workers \ {w} : Working(v) => worker[v].event # e BY <1>10, <1>c
  <2>6. Len(texted[e]) <= 1 BY <2>1 DEF SendInv, AtMostOnce
  <2> HIDE DEF e
  <2>7. st = "sent" => texted[e] = <<res>> BY <1>10 DEF e
  <2>8. st = "skipped" => texted[e] = <<>> BY <1>10 DEF e
  <2> QED BY <1>10, <1>a, <1>f, <2>1, <2>2, <2>3, <2>5, <2>6, <2>7, <2>8, WorkerStays
<1>11. ASSUME NEW w \in Workers,
              RecordSent(w) \/ RecordRefused(w) \/ RecordExpired(w) \/ RecordSkipped(w)
                \/ RecordFailed(w) \/ RecordCrashed(w)
       PROVE  SendInv'
  <2>1. Working(w)
    BY <1>11 DEF RecordSent, RecordRefused, RecordExpired, RecordSkipped, RecordFailed,
       RecordCrashed, Done, At, Working, Idling
  <2>2. reply[worker[w].event].resolved \in Resolved /\ worker[w].resolved \in Resolved
    BY <1>0, <1>a, <2>1 DEF Row, Process
  <2>3. CASE RecordSent(w)
    <3>1. texted[worker[w].event] = <<worker[w].resolved>>
      BY <2>3 DEF RecordSent, Done, At, SendInv, Stage
    <3> QED BY <1>10, <2>1, <2>2, <2>3, <3>1 DEF RecordSent, Done, At, Final
  <2>4. CASE RecordExpired(w) \/ RecordSkipped(w)
    <3>1. texted[worker[w].event] = <<>>
      BY <2>4 DEF RecordExpired, RecordSkipped, Done, At, SendInv, Stage
    <3> QED BY <1>10, <2>1, <2>2, <2>4, <3>1 DEF RecordExpired, RecordSkipped, Done, At, Final
  <2>5. CASE RecordRefused(w) \/ RecordFailed(w) \/ RecordCrashed(w)
    BY <1>10, <2>1, <2>2, <2>5 DEF RecordRefused, RecordFailed, RecordCrashed, Done, At, Final
  <2> QED BY <1>11, <2>3, <2>4, <2>5
<1>12. ASSUME NEW w \in Workers, Fault(w) PROVE SendInv'
  <2>1. Raises(w) /\ UNCHANGED <<reply, texted>> BY <1>12 DEF Fault
  <2>2. CASE worker[w].pc \in {"claim", "recordCrashed"}
    BY <1>e, <2>1, <2>2 DEF Raises
  <2>3. CASE worker[w].pc \notin {"claim", "recordCrashed"}
    <3>1. Working(w) BY <1>12, <2>3 DEF Fault, Working, Idling
    <3>2. Stage(w)' BY <2>1, <2>3, RaisesEffect DEF Stage
    <3>3. Attended(reply[worker[w].event]) \/ Ended(w)'
      <4>1. CASE Attended(reply[worker[w].event]) BY <4>1
      <4>2. CASE Ended(w)
        BY <1>f, <2>1, <2>3, <4>2, RaisesEffect DEF Ended
      <4> QED BY <3>1, <4>1, <4>2 DEF SendInv
    <3> QED BY <1>f, <2>1, <2>3, <3>1, <3>2, <3>3, RaisesEffect, SendMove
  <2> QED BY <2>2, <2>3
<1>13. ASSUME NEW w \in Workers, Crash(w) PROVE SendInv'
  BY <1>13, <1>e DEF Crash
<1>14. ASSUME NEW e \in Events, LeaseExpires(e) PROVE SendInv'
  <2>1. LeaseOutlivesWork => \A w \in Workers : Working(w) => worker[w].event # e
    BY <1>14 DEF LeaseExpires, WorksOn, Working
  <2>2. \A f \in Events : /\ reply'[f].status = reply[f].status /\ reply'[f].resolved = reply[f].resolved
                          /\ f # e => reply'[f] = reply[f]
    BY <1>0, <1>14 DEF LeaseExpires, Row
  <2>3. UNCHANGED <<worker, texted>> BY <1>14 DEF LeaseExpires
  <2>4. ASSUME NEW w \in Workers, Working(w)
        PROVE  Attended(reply'[worker[w].event]) \/ Ended(w)'
    <3>1. Attended(reply[worker[w].event]) \/ Ended(w) BY <2>4 DEF SendInv
    <3> QED BY <1>a, <1>f, <2>1, <2>2, <2>3, <2>4, <3>1 DEF Attended, Ended
  <2>5. \A w \in Workers : Stage(w)'
    <3>1. SUFFICES ASSUME NEW w \in Workers PROVE Stage(w)'
      OBVIOUS
    <3>2. CASE Working(w)
      <4>1. /\ Stage(w) /\ texted' = texted /\ worker'[w] = worker[w]
            /\ reply'[worker[w].event].status = reply[worker[w].event].status
        BY <1>a, <2>2, <2>3, <3>2 DEF SendInv
      <4> QED BY <4>1 DEF Stage
    <3>3. CASE ~Working(w) BY <2>3, <3>3 DEF Working, Stage, Idling
    <3> QED BY <3>2, <3>3
  <2>6. AtMostOnce' /\ RecordMatchesText'
    BY <2>2, <2>3 DEF SendInv, AtMostOnce, RecordMatchesText
  <2> QED BY <2>3, <2>4, <2>5, <2>6 DEF SendInv, Working
<1>15. ASSUME UNCHANGED <<reply, worker, texted>> PROVE SendInv'
  BY <1>15, <1>f DEF SendInv, Working, Ended, Stage, AtMostOnce, RecordMatchesText
<1> QED BY <1>1, <1>2, <1>3, <1>4, <1>5, <1>6, <1>7, <1>8, <1>9, <1>11, <1>12, <1>13, <1>14, <1>15
     DEF Next, Step, ToggleSwitch, vars

LEMMA SendInit == Init => SendInv
  BY DEF Init, SendInv, Working, Stage, AtMostOnce, RecordMatchesText, Down, Idling

(* Only the process that has ended a row may still write to it: 'failed',  *)
(* and the flag that is there.                                             *)
OnlyFails(e) ==
  /\ reply'[e].status \in {reply[e].status, "failed"}
  /\ reply'[e].resolved = reply[e].resolved
  /\ faults' = 0 => reply'[e] = reply[e]

LEMMA FinalStep ==
  ASSUME TypeInv, SendInv, [Next]_vars, NEW e \in Events, reply[e].status \in Final
  PROVE  OnlyFails(e)
<1> USE DEF MyEvent
<1>0. /\ reply \in [Events -> Row] /\ \A f \in Events : reply[f].fresh => reply[f].status \in InFlight
  BY DEF TypeInv, TypeOK
<1>1. ~reply[e].fresh /\ reply[e].status # "sending" /\ ~Claimable(e)
  BY <1>0 DEF Final, InFlight, Claimable
<1>2. \A w \in Workers : Working(w) => worker[w].event \in Events /\ (worker[w].event = e => Ended(w))
  BY <1>1, HasEvent DEF SendInv, Attended, Working, Idling, Final, InFlight
<1>s. reply'[e] = reply[e] => OnlyFails(e) BY DEF OnlyFails
<1>3. ASSUME NEW w \in Workers, NEW st, NEW res, Working(w), UpdateReply(worker[w].event, st, res),
             worker[w].pc \notin {"recordRefused", "recordCrashed"}
      PROVE  OnlyFails(e)
  BY <1>0, <1>2, <1>3, <1>s DEF UpdateReply, Ended
<1>4. ASSUME NEW w \in Workers, Start(w) PROVE OnlyFails(e)
  BY <1>1, <1>4, <1>s DEF Start
<1>5. ASSUME NEW w \in Workers, Claim(w) PROVE OnlyFails(e)
  <2>1. worker[w].event \in Events BY <1>5, HasEvent DEF Claim, At
  <2> QED BY <1>0, <1>1, <1>5, <1>s, <2>1 DEF Claim, UpdateReply
<1>6. ASSUME NEW w \in Workers, RecordRefused(w) \/ RecordCrashed(w) PROVE OnlyFails(e)
  <2> DEFINE res == IF At(w, "recordRefused") THEN worker[w].resolved ELSE reply[worker[w].event].resolved
  <2>1. Working(w) /\ UpdateReply(worker[w].event, "failed", res)
    BY <1>6 DEF RecordRefused, RecordCrashed, Done, At, Working, Idling
  <2>2. CASE worker[w].event # e BY <1>0, <1>2, <1>s, <2>1, <2>2 DEF UpdateReply
  <2>3. CASE worker[w].event = e
    <3>1. Ended(w) BY <1>2, <2>1, <2>3
    <3>2. res = reply[e].resolved BY <1>6, <2>3, <3>1 DEF Ended, At, RecordRefused, RecordCrashed, Done
    <3>3. faults' # 0 BY <3>1, FaultsGrow DEF Ended
    <3>4. reply'[e].status = "failed" /\ reply'[e].resolved = res
      BY <1>0, <2>1, <2>3 DEF UpdateReply
    <3> HIDE DEF res
    <3> QED BY <3>2, <3>3, <3>4 DEF OnlyFails
  <2> QED BY <2>2, <2>3
<1>7. ASSUME NEW w \in Workers, Step(w) \/ Fault(w) \/ Crash(w) PROVE OnlyFails(e)
  <2>1. CASE FlipToSending(w) BY <1>3, <2>1 DEF FlipToSending, At, Working, Idling
  <2>2. CASE RecordSent(w) \/ RecordExpired(w) \/ RecordSkipped(w) \/ RecordFailed(w)
    BY <1>3, <2>2 DEF RecordSent, RecordExpired, RecordSkipped, RecordFailed, Done, At, Working, Idling
  <2>3. CASE Scan(w) \/ ReadSwitch(w) \/ Screen(w) \/ Generate(w) \/ CheckWindow(w)
             \/ CallTwilio(w) \/ Fault(w) \/ Crash(w)
    BY <1>s, <2>3 DEF Scan, ReadSwitch, Screen, Generate, CheckWindow, CallTwilio, Fault, Crash
  <2> QED BY <1>4, <1>5, <1>6, <1>7, <2>1, <2>2, <2>3 DEF Step
<1>8. ASSUME NEW f \in Events, LeaseExpires(f) PROVE OnlyFails(e)
  BY <1>0, <1>1, <1>8, <1>s DEF LeaseExpires
<1> QED BY <1>7, <1>8, <1>s DEF Next, ToggleSwitch, vars

LEMMA SendInvariant == ASSUME OneAtATime PROVE Spec => [](TypeInv /\ SendInv)
  BY TypeInit, TypeStep, BoundaryInit, BoundaryStep, SendInit, SendStep, PTL DEF Spec

(* No event ever leads to a second message, for any number of processes,   *)
(* crashes and failing calls, if a lease outlives the work under it; with  *)
(* one process, whatever the lease.                                        *)
THEOREM NeverTwice == ASSUME OneAtATime PROVE Spec => []AtMostOnce
<1>1. SendInv => AtMostOnce BY DEF SendInv
<1> QED BY SendInvariant, <1>1, PTL

(* On the same condition a row says what the customer received.            *)
THEOREM RowsTellTheTruth == ASSUME OneAtATime PROVE Spec => []RecordMatchesText
<1>1. SendInv => RecordMatchesText BY DEF SendInv
<1> QED BY SendInvariant, <1>1, PTL

(* On the same condition the gate never closes again and delivery finds    *)
(* the flag it may have read before: of an UPDATE that was committed and   *)
(* raised all the same, only the word 'failed' is written over the row.    *)
THEOREM GateNeverCloses == ASSUME OneAtATime PROVE Spec => GateStaysOpen
<1>1. TypeInv /\ SendInv /\ [Next]_vars =>
        [\A e \in Events : reply[e].status \in Final =>
           /\ reply'[e].status \in {reply[e].status, "failed"}
           /\ reply'[e].resolved = reply[e].resolved
           /\ faults' = 0 => reply'[e] = reply[e]]_vars
  BY FinalStep DEF OnlyFails
<1> QED BY SendInvariant, <1>1, PTL DEF Spec, GateStaysOpen

-----------------------------------------------------------------------------
(* DeferralKept.  Until a fault, whoever has texted a deferral still holds *)
(* the flag, or has left it on the final row.                              *)
Carries(w, e) ==
  /\ worker[w].event = e /\ worker[w].pc \in {"recordSent", "recordRefused"}
  /\ worker[w].resolved = "no"

Kept(e) == (reply[e].status \in Final /\ reply[e].resolved = "no") \/ \E w \in Workers : Carries(w, e)

DeferralInv == faults = 0 => \A e \in Events : texted[e] = <<"no">> => Kept(e)

LEMMA NothingRaises ==
  ASSUME TypeInv, NEW w \in Workers, faults' = 0
  PROVE  ~Raises(w)
  BY ConstantsOK DEF Raises, TypeInv, TypeOK, ConstantsOK

LEMMA KeptStep ==
  ASSUME TypeInv, SendInv, [Next]_vars, faults' = 0, NEW e \in Events, Kept(e)
  PROVE  Kept(e)'
<1> USE DEF MyEvent
<1>0. worker \in [Workers -> Process] /\ reply \in [Events -> Row] /\ faults \in Nat
  BY ConstantsOK DEF TypeInv, TypeOK
<1>1. CASE reply[e].status \in Final /\ reply[e].resolved = "no"
  BY <1>1, FinalStep DEF OnlyFails, Kept
<1>2. ASSUME NEW v \in Workers, Carries(v, e) PROVE Kept(e)'
  <2>1. CASE worker'[v] = worker[v] BY <1>2, <2>1 DEF Kept, Carries
  <2>2. CASE Step(v)
    <3>1. RecordSent(v) \/ RecordRefused(v)
      BY <1>2, <2>2 DEF Step, Carries, At, Start, Scan, Claim, ReadSwitch, Screen, Generate,
         FlipToSending, CheckWindow, CallTwilio, RecordExpired, RecordSkipped, RecordFailed,
         RecordCrashed, Done
    <3>2. \E st \in {"sent", "failed"} : UpdateReply(e, st, "no")
      BY <1>2, <3>1 DEF RecordSent, RecordRefused, Done, Carries
    <3> QED BY <1>0, <3>2 DEF UpdateReply, Kept, Final
  <2>3. ASSUME NEW w \in Workers \ {v}, Step(w) PROVE worker'[v] = worker[v]
    BY <1>0, <2>3, NothingRaises DEF Step, Goto, Start, Scan, Claim, ReadSwitch, Screen, Generate, FlipToSending,
       CheckWindow, CallTwilio, RecordSent, RecordRefused, RecordExpired, RecordSkipped,
       RecordFailed, RecordCrashed, AnsweredTo, Done
  <2>4. ASSUME NEW w \in Workers, Fault(w) \/ Crash(w) PROVE FALSE
    BY <1>0, <2>4, NothingRaises DEF Fault, Crash
  <2>5. CASE ToggleSwitch \/ (\E f \in Events : LeaseExpires(f)) \/ UNCHANGED vars
    BY <2>1, <2>5 DEF ToggleSwitch, LeaseExpires, vars
  <2> QED BY <2>1, <2>2, <2>3, <2>4, <2>5 DEF Next
<1> QED BY <1>1, <1>2 DEF Kept

LEMMA DeferralStep == TypeInv /\ SendInv /\ DeferralInv /\ [Next]_vars => DeferralInv'
<1> SUFFICES ASSUME TypeInv, SendInv, DeferralInv, [Next]_vars, faults' = 0,
                    NEW e \in Events, texted'[e] = <<"no">>
             PROVE  Kept(e)'
  BY DEF DeferralInv
<1> USE DEF MyEvent
<1>0. /\ worker \in [Workers -> Process] /\ texted \in [Events -> Seq({"yes", "no"})]
      /\ faults \in Nat
  BY ConstantsOK DEF TypeInv, TypeOK
<1>1. faults = 0 BY FaultsGrow
<1>2. CASE texted'[e] = texted[e] BY <1>1, <1>2, KeptStep DEF DeferralInv
<1>3. ASSUME NEW w \in Workers, CallTwilio(w), texted'[e] # texted[e] PROVE Kept(e)'
  <2>1. worker[w].event = e /\ texted[e] = <<>>
    BY <1>0, <1>3 DEF CallTwilio, At, SendInv, Stage
  <2>2. worker[w].resolved \in {"yes", "no"}
    BY <1>3 DEF CallTwilio, At, TypeInv, Decided
  <2>3. texted' = [texted EXCEPT ![e] = Append(@, worker[w].resolved)]
    BY <1>3, <2>1 DEF CallTwilio
  <2>4. texted'[e] = <<worker[w].resolved>> BY <1>0, <2>1, <2>2, <2>3
  <2>5. worker[w].resolved = "no"
    <3>1. <<worker[w].resolved>>[1] = <<"no">>[1] BY <2>4
    <3> QED BY <3>1
  <2>6. PICK pc \in {"recordSent", "recordRefused"} : Goto(w, pc) BY <1>3 DEF CallTwilio
  <2> QED BY <2>1, <2>5, <2>6, GotoEffect DEF Kept, Carries
<1>4. texted' = texted \/ \E w \in Workers : CallTwilio(w)
  BY DEF Next, Step, Start, Scan, Claim, ReadSwitch, Screen, Generate, FlipToSending,
     CheckWindow, RecordSent, RecordRefused, RecordExpired, RecordSkipped,
     RecordFailed, RecordCrashed, Done, Fault, Crash, LeaseExpires, ToggleSwitch, vars
<1> QED BY <1>2, <1>3, <1>4

(* On the same condition, and while nothing fails, the row that opens      *)
(* the delivery gate carries the deferral the customer received, also      *)
(* where Twilio's answer was lost.                                         *)
THEOREM DeferralsKept == ASSUME OneAtATime PROVE Spec => []DeferralKept
<1>1. Init => DeferralInv
  BY DEF Init, DeferralInv
<1>2. TypeInv /\ SendInv /\ DeferralInv => DeferralKept
  <2> SUFFICES ASSUME TypeInv, SendInv, DeferralInv, faults = 0, NEW e \in Events, texted[e] = <<"no">>,
                      reply[e].status \in Final, ~(reply[e].resolved = "no")
               PROVE  FALSE
    BY DEF DeferralKept
  <2>1. PICK w \in Workers : Carries(w, e) BY DEF DeferralInv, Kept
  <2> QED BY <2>1 DEF Carries, SendInv, Attended, Ended, Working, Idling, TypeInv, TypeOK, Final, InFlight
<1> QED BY SendInvariant, DeferralStep, <1>1, <1>2, PTL DEF Spec
=============================================================================
