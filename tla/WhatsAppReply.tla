---------------------------- MODULE WhatsAppReply -----------------------------
(***************************************************************************)
(* The WhatsApp auto-reply consumer (intelligence_layer/whatsapp_reply.py) *)
(* with send_whatsapp (comm_layer/outbound.py): each process claims a      *)
(* whatsapp.received event, decides on a reply, flips the reply row to     *)
(* 'sending', calls Twilio and records what came of it.                    *)
(*                                                                         *)
(* One step is one await.  reply is the table whatsapp_replies, worker the *)
(* local variables of each process (one worker coroutine per process, the  *)
(* default), texted what the customer's phone received for each event.     *)
(* An await may raise (Raises), before an UPDATE has taken effect or after *)
(* it is committed; the code treats all other exceptions alike.            *)
(***************************************************************************)
EXTENDS Naturals, Sequences

CONSTANTS
  Events,            \* ids of whatsapp.received events, numbered in created_at order
  Workers,           \* reply consumer processes
  NoText,            \* events without a text body
  LeaseOutlivesWork, \* whether handle_reply always ends within WHATSAPP_REPLY_LEASE_SECONDS
  MaxFaults          \* bound on crashes and on failing awaits

NULL == 0

ASSUME ConstantsOK ==
  /\ Events \subseteq Nat \ {NULL}
  /\ NoText \subseteq Events
  /\ LeaseOutlivesWork \in BOOLEAN
  /\ MaxFaults \in Nat

VARIABLES
  reply,     \* whatsapp_replies: status, resolved, and whether updated_at is within the lease
  worker,    \* the event each process works on and whether its reply answers the customer
  texted,    \* for each event, the resolved flag of every message Twilio accepted
  aiEnabled, \* app_settings.ai_enabled, the kill switch
  faults

vars == <<reply, worker, texted, aiEnabled, faults>>

InFlight == {"processing", "sending"}
Final    == {"sent", "skipped", "failed"}
Resolved == {"null", "yes", "no"}

(* pc names the await a process is about to make.  The record* and skip*   *)
(* values are the UPDATEs that end handle_reply.                           *)
Idling == {"down", "poll", "claim"}
PC == Idling \cup {"switch", "screen", "generate", "flip", "window", "twilio",
                   "recordSent", "recordRefused", "recordExpired", "recordSkipped",
                   "recordFailed", "recordCrashed"}

Row     == [status : {"none"} \cup InFlight \cup Final, fresh : BOOLEAN, resolved : Resolved]
Process == [pc : PC, event : Events \cup {NULL}, resolved : Resolved]

Down == [pc |-> "down", event |-> NULL, resolved |-> "null"]
Idle == [Down EXCEPT !.pc = "poll"]

Init ==
  /\ reply = [e \in Events |-> [status |-> "none", fresh |-> FALSE, resolved |-> "null"]]
  /\ worker = [w \in Workers |-> Down]
  /\ texted = [e \in Events |-> <<>>]
  /\ aiEnabled \in BOOLEAN
  /\ faults = 0

At(w, pc)      == worker[w].pc = pc
Goto(w, pc)    == worker' = [worker EXCEPT ![w].pc = pc]
MyEvent(w)     == worker[w].event
WorksOn(w, e)  == worker[w].event = e /\ worker[w].pc \notin Idling

(* _update_reply: no condition on who works on the row or on its status.   *)
(* updated_at only matters while the row is in flight.                     *)
UpdateReply(e, st, res) ==
  reply' = [reply EXCEPT ![e] = [status |-> st, fresh |-> st \in InFlight, resolved |-> res]]

(***************************************************************************)
(* An await raises.  Inside the try of _send_and_record the reply will be  *)
(* recorded as refused, elsewhere in handle_reply as crashed, whatever its *)
(* row says by then; an exception of claim_next or of the last handler     *)
(* ends in _worker, which polls on.                                        *)
(***************************************************************************)
Raises(w) ==
  /\ faults < MaxFaults
  /\ faults' = faults + 1
  /\ IF worker[w].pc \in {"claim", "recordCrashed"}
     THEN worker' = [worker EXCEPT ![w] = Idle]
     ELSE Goto(w, IF worker[w].pc \in {"window", "twilio", "recordSent"}
                  THEN "recordRefused" ELSE "recordCrashed")

(* An UPDATE that is committed is followed by the next await, pc, unless   *)
(* its answer is lost: a timeout, or a connection that broke.              *)
AnsweredTo(w, pc) == (Goto(w, pc) /\ UNCHANGED faults) \/ Raises(w)

(* run_whatsapp_reply_consumer: sweep once, then poll. *)
Start(w) ==
  /\ At(w, "down")
  /\ reply' = [e \in Events |->
       IF reply[e].status = "sending" /\ ~reply[e].fresh
       THEN [reply[e] EXCEPT !.status = "failed"] ELSE reply[e]]
  /\ worker' = [worker EXCEPT ![w] = Idle]
  /\ UNCHANGED <<texted, aiEnabled, faults>>

(***************************************************************************)
(* claim_next.  The scan sees a snapshot and skips rows another claim has  *)
(* locked; the upsert looks again, because the row may have been claimed   *)
(* in between.                                                             *)
(***************************************************************************)
Claimable_Sending(e) == \* a mutant: stale 'sending' rows are claimed again
  reply[e].status = "none" \/ (reply[e].status \in InFlight /\ ~reply[e].fresh)

Claimable_New(e) ==     \* a mutant: a stale row is never claimed again
  reply[e].status = "none"

Claimable(e) == reply[e].status = "none" \/ (reply[e].status = "processing" /\ ~reply[e].fresh)

Scan(w) ==
  /\ At(w, "poll")
  /\ \E e \in Events :
       /\ Claimable(e)
       /\ \A f \in Events : Claimable(f) /\ f < e =>
            \E v \in Workers : At(v, "claim") /\ MyEvent(v) = f
       /\ worker' = [worker EXCEPT ![w] = [Idle EXCEPT !.pc = "claim", !.event = e]]
  /\ UNCHANGED <<reply, texted, aiEnabled, faults>>

Claim_NoGuard(w) ==     \* a mutant: ON CONFLICT DO UPDATE without its WHERE
  /\ At(w, "claim")
  /\ UpdateReply(MyEvent(w), "processing", reply[MyEvent(w)].resolved)
  /\ AnsweredTo(w, "switch")
  /\ UNCHANGED <<texted, aiEnabled>>

Claim(w) ==
  /\ At(w, "claim")
  /\ IF Claimable(MyEvent(w))
     THEN /\ UpdateReply(MyEvent(w), "processing", reply[MyEvent(w)].resolved)
          /\ AnsweredTo(w, "switch")
     ELSE /\ worker' = [worker EXCEPT ![w] = Idle]
          /\ UNCHANGED <<reply, faults>>
  /\ UNCHANGED <<texted, aiEnabled>>

LeaseExpires(e) ==
  /\ reply[e].fresh
  /\ LeaseOutlivesWork => \A w \in Workers : ~WorksOn(w, e)
  /\ reply' = [reply EXCEPT ![e].fresh = FALSE]
  /\ UNCHANGED <<worker, texted, aiEnabled, faults>>

(***************************************************************************)
(* handle_reply.                                                           *)
(***************************************************************************)
ToggleSwitch ==
  /\ aiEnabled' = ~aiEnabled
  /\ UNCHANGED <<reply, worker, texted, faults>>

ReadSwitch(w) ==
  /\ At(w, "switch")
  /\ Goto(w, IF aiEnabled /\ MyEvent(w) \notin NoText THEN "screen" ELSE "recordSkipped")
  /\ UNCHANGED <<reply, texted, aiEnabled, faults>>

Screen_Silent(w) ==      \* a mutant: the fallback is sent without a resolved flag
  At(w, "screen") /\ (Goto(w, "generate") \/ Goto(w, "flip"))
    /\ UNCHANGED <<reply, texted, aiEnabled, faults>>

(* screen_input: an unsafe text is answered with the fallback, unresolved. *)
Screen(w) ==
  /\ At(w, "screen")
  /\ \/ Goto(w, "generate")
     \/ worker' = [worker EXCEPT ![w].resolved = "no", ![w].pc = "flip"]
  /\ UNCHANGED <<reply, texted, aiEnabled, faults>>

(* The history, GPT-4o with its retries, and the output guard. *)
Generate(w) ==
  /\ At(w, "generate")
  /\ \/ Goto(w, "recordFailed")
     \/ \E res \in {"yes", "no"} :
          worker' = [worker EXCEPT ![w].resolved = res, ![w].pc = "flip"]
  /\ UNCHANGED <<reply, texted, aiEnabled, faults>>

(***************************************************************************)
(* _send_and_record and send_whatsapp.                                     *)
(***************************************************************************)
FlipToSending_Late(w) == \* a mutant: the row is not touched before the Twilio call
  At(w, "flip") /\ Goto(w, "window") /\ UNCHANGED <<reply, texted, aiEnabled, faults>>

FlipToSending(w) ==
  /\ At(w, "flip")
  /\ UpdateReply(MyEvent(w), "sending", reply[MyEvent(w)].resolved)
  /\ AnsweredTo(w, "window")
  /\ UNCHANGED <<texted, aiEnabled>>

CheckWindow(w) ==
  /\ At(w, "window")
  /\ \/ Goto(w, "twilio")
     \/ Goto(w, "recordExpired")
     \/ worker' = [worker EXCEPT ![w] = Idle]   \* rate limit: the row stays 'sending'
  /\ UNCHANGED <<reply, texted, aiEnabled, faults>>

(* messages.create: sent; refused; or sent although the answer is lost. *)
CallTwilio(w) ==
  /\ At(w, "twilio")
  /\ LET accepted == texted' = [texted EXCEPT ![MyEvent(w)] = Append(@, worker[w].resolved)]
     IN \/ accepted /\ Goto(w, "recordSent")
        \/ (accepted \/ UNCHANGED texted) /\ Goto(w, "recordRefused")
  /\ UNCHANGED <<reply, aiEnabled, faults>>

Done(w, pc, st, res) ==
  /\ At(w, pc)
  /\ UpdateReply(MyEvent(w), st, res)
  /\ \/ worker' = [worker EXCEPT ![w] = Idle] /\ UNCHANGED faults
     \/ Raises(w)
  /\ UNCHANGED <<texted, aiEnabled>>

RecordSent_NoFlag(w) ==  \* a mutant: the resolved flag is not persisted
  Done(w, "recordSent", "sent", reply[MyEvent(w)].resolved)

RecordRefused_NoFlag(w) ==  \* a mutant: a refused send is recorded without the flag
  Done(w, "recordRefused", "failed", reply[MyEvent(w)].resolved)

RecordSent(w)    == Done(w, "recordSent", "sent", worker[w].resolved)
RecordRefused(w) == Done(w, "recordRefused", "failed", worker[w].resolved)
RecordExpired(w) == Done(w, "recordExpired", "skipped", worker[w].resolved)
RecordSkipped(w) == Done(w, "recordSkipped", "skipped", reply[MyEvent(w)].resolved)
RecordFailed(w)  == Done(w, "recordFailed", "failed", reply[MyEvent(w)].resolved)
RecordCrashed(w) == Done(w, "recordCrashed", "failed", reply[MyEvent(w)].resolved)

(* An await raises that had no effect. *)
Fault(w) ==
  /\ worker[w].pc \notin {"down", "poll"}
  /\ Raises(w)
  /\ UNCHANGED <<reply, texted, aiEnabled>>

Crash(w) ==
  /\ ~At(w, "down")
  /\ faults < MaxFaults
  /\ faults' = faults + 1
  /\ worker' = [worker EXCEPT ![w] = Down]
  /\ UNCHANGED <<reply, texted, aiEnabled>>

-----------------------------------------------------------------------------
Step(w) ==
  \/ Start(w) \/ Scan(w) \/ Claim(w)
  \/ ReadSwitch(w) \/ Screen(w) \/ Generate(w)
  \/ FlipToSending(w) \/ CheckWindow(w) \/ CallTwilio(w)
  \/ RecordSent(w) \/ RecordRefused(w) \/ RecordExpired(w)
  \/ RecordSkipped(w) \/ RecordFailed(w) \/ RecordCrashed(w)

Next ==
  \/ \E w \in Workers : Step(w) \/ Fault(w) \/ Crash(w)
  \/ \E e \in Events : LeaseExpires(e)
  \/ ToggleSwitch

Spec == Init /\ [][Next]_vars

(* An operator starts a process that is down again (nothing in the         *)
(* repository does), one that runs ends the calls it makes, and a lease    *)
(* runs out.                                                               *)
FairSpec ==
  Spec /\ (\A w \in Workers : WF_vars(Step(w))) /\ (\A e \in Events : WF_vars(LeaseExpires(e)))

-----------------------------------------------------------------------------
(***************************************************************************)
(* Properties.                                                             *)
(***************************************************************************)

(* Every variable stays in its domain, an idle process has no event, and   *)
(* only rows in flight have a lease.                                       *)
TypeOK ==
  /\ reply \in [Events -> Row]
  /\ worker \in [Workers -> Process]
  /\ texted \in [Events -> Seq({"yes", "no"})]
  /\ aiEnabled \in BOOLEAN
  /\ faults \in 0 .. MaxFaults
  /\ \A w \in Workers : worker[w].pc \in {"down", "poll"} <=> MyEvent(w) = NULL
  /\ \A e \in Events : reply[e].fresh => reply[e].status \in InFlight

(* "Never text a customer twice": whatever crashes, raises or loses its    *)
(* answer, an event leads to at most one message.                          *)
AtMostOnce == \A e \in Events : Len(texted[e]) <= 1

(* The boundary that carries that promise: once Twilio may have taken a    *)
(* message, the row is one that no claim accepts, lease or no lease.       *)
TextedNotClaimable ==
  \A e \in Events :
    (texted[e] # <<>> \/ \E w \in Workers : MyEvent(w) = e /\ worker[w].pc \in
                            {"window", "twilio", "recordSent", "recordRefused", "recordExpired"})
      => reply[e].status \in {"sending"} \cup Final

(* What the delivery worker reads from the row is what happened: 'sent'    *)
(* with the flag of the one message the customer got, 'skipped' for none.  *)
RecordMatchesText ==
  \A e \in Events :
    /\ reply[e].status = "sent" => texted[e] = <<reply[e].resolved>>
    /\ reply[e].status = "skipped" => texted[e] = <<>>

(* A customer who was told "the team will get back to you" gets the        *)
(* follow-up task: unless a process died or an await raised, the row that  *)
(* opens the delivery gate says so, also where Twilio's answer was lost.   *)
DeferralKept ==
  faults = 0 => \A e \in Events :
    texted[e] = <<"no">> /\ reply[e].status \in Final => reply[e].resolved = "no"

(* The gate never closes again, and the flag delivery may have read is not *)
(* changed behind its back: a final row keeps its flag, and is at most     *)
(* called failed, by the process whose own UPDATE was committed and raised *)
(* all the same.  While nothing has failed it is not touched at all.       *)
GateStaysOpen ==
  [][\A e \in Events : reply[e].status \in Final =>
       /\ reply'[e].status \in {reply[e].status, "failed"}
       /\ reply'[e].resolved = reply[e].resolved
       /\ faults' = 0 => reply'[e] = reply[e]]_vars

(* A message is never left lying: each one is replied to, given up, or     *)
(* reaches 'sending', although claims are lost to crashes and races.       *)
AnswerComes ==
  \A e \in Events : reply[e].status \in {"none", "processing"}
                      ~> reply[e].status \in {"sending"} \cup Final

(* The docstring: "On startup / poll, stale 'sending' rows are swept".     *)
SendingEnds == \A e \in Events : reply[e].status = "sending" ~> reply[e].status \in Final
=============================================================================
