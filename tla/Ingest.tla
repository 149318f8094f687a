-------------------------------- MODULE Ingest --------------------------------
(***************************************************************************)
(* Webhook ingest (comm_layer/webhooks): from Twilio's POST to a row of    *)
(* comm_events that waits for the delivery worker.                         *)
(*                                                                         *)
(* One step of a handler is one await: the lookup of a recording's call,   *)
(* the INSERT, the SELECT after a conflict, the UPDATE of publish, the     *)
(* answer.  Twilio posts a webhook until it has seen a 200, also while an  *)
(* earlier attempt is still in progress.  What happens to a published row  *)
(* is the business of DeliveryQueue, on whose variables publish acts.      *)
(***************************************************************************)
EXTENDS Naturals

CONSTANTS
  Hooks,      \* the webhooks Twilio has to deliver
  Form,       \* the form each of them posts
  After,      \* for each hook the hooks that are answered before Twilio sends it
  Numbers,    \* phone numbers, as they stand in forms and in the registry
  Plain,      \* a number without its whatsapp: prefix
  Registered, \* the numbers in number_registry
  Handlers,   \* request handlers that run at a time
  Workers,    \* delivery workers
  MaxFaults   \* bound on crashes, awaits that raise and answers Twilio does not see

NULL == "none"

Urls  == {"sms", "whatsapp", "voice", "sms/status", "whatsapp/status", "voice/status",
          "recording"}
Types == {"sms.received", "whatsapp.received", "call.started", "sms.status",
          "whatsapp.status", "call.completed", "recording.ready", "recording.failed"}

(* _DELIVERABLE_TYPES *)
Deliverable == {"sms.received", "whatsapp.received", "recording.ready"}

(* A missing field is NULL; call is the CallSid a recording carries.       *)
ASSUME ConstantsOK ==
  /\ \A h \in Hooks :
       /\ Form[h].url \in Urls
       /\ {Form[h].from, Form[h].to} \subseteq Numbers
       /\ Form[h].outbound \in BOOLEAN
  /\ After \in [Hooks -> SUBSET Hooks]
  /\ NULL \in Numbers \ Registered /\ Registered \subseteq Numbers
  /\ Plain \in [Numbers -> Numbers] /\ Plain[NULL] = NULL
  /\ MaxFaults \in Nat

-----------------------------------------------------------------------------
(***************************************************************************)
(* The seven routes: the event each one hands to ingest_event.  The fresh  *)
(* uuid of an event is its key: only one uuid per key is ever stored.      *)
(***************************************************************************)
(* resolve_source compares the number as it is; NULL stands for is_unknown. *)
LookUp(number) == IF number \in Registered THEN number ELSE NULL

Event(f, type, status, outbound, number) ==
  LET key == [sid |-> f.sid, type |-> type, status |-> status]
  IN [key |-> key, correlation |-> key, outbound |-> outbound, from |-> f.from, to |-> f.to,
      source |-> LookUp(number)]

ReceiveSms(f)      == Event(f, "sms.received", "", FALSE, f.to)
ReceiveWhatsApp(f) == Event(f, "whatsapp.received", "", FALSE, Plain[f.to])
SmsStatus(f)       == Event(f, "sms.status", f.status, TRUE, f.from)
WhatsAppStatus(f)  == Event(f, "whatsapp.status", f.status, TRUE, Plain[f.from])

(* A call of ours that connects is taken for an inbound one.               *)
ReceiveCall(f)     == Event(f, "call.started", "", FALSE, f.to)

VoiceStatus_ToIsOurs(f) ==   \* a mutant: the destination is taken for our number
  Event(f, "call.completed", "", f.outbound, f.to)

VoiceStatus(f) ==
  Event(f, "call.completed", "", f.outbound, IF f.outbound THEN f.from ELSE f.to)

(* Before its call is looked up, a recording has the placeholder values.   *)
RecordingReady(f) ==
  LET type == IF f.status = "completed" THEN "recording.ready" ELSE "recording.failed"
  IN [Event(f, type, "", FALSE, NULL) EXCEPT !.from = NULL, !.to = NULL]

Handle(f) ==
  CASE f.url = "sms"             -> ReceiveSms(f)
    [] f.url = "whatsapp"        -> ReceiveWhatsApp(f)
    [] f.url = "voice"           -> ReceiveCall(f)
    [] f.url = "sms/status"      -> SmsStatus(f)
    [] f.url = "whatsapp/status" -> WhatsAppStatus(f)
    [] f.url = "voice/status"    -> VoiceStatus(f)
    [] f.url = "recording"       -> RecordingReady(f)

(* Answered at once: no SID, or a recording of a caller who did not speak. *)
Ignored(f) ==
  \/ f.sid = NULL
  \/ f.url = "recording" /\ f.status \notin {"completed", "failed"}

KeyOf(h)   == Handle(Form[h]).key
Keys       == {KeyOf(h) : h \in {g \in Hooks : ~Ignored(Form[g])}}
CallKey(h) == [sid |-> Form[h].call, type |-> "call.started", status |-> ""]

OurSide(f)   == Plain[IF f.outbound THEN f.from ELSE f.to]
OtherSide(f) == Plain[IF f.outbound THEN f.to ELSE f.from]

(* What Twilio sends.  SIDs are unique: a webhook sent again is the same   *)
(* hook.  Messages come in and receipts are for those that went out, only  *)
(* WhatsApp numbers have a prefix, and the other side of a conversation is *)
(* not one of our numbers.                                                 *)
ASSUME FormsOK ==
  /\ \A g, h \in Hooks :
       ~Ignored(Form[g]) /\ ~Ignored(Form[h]) /\ KeyOf(g) = KeyOf(h) => g = h
  /\ \A h \in Hooks :
       LET f == Form[h]
       IN /\ f.url \in {"sms", "whatsapp"} => ~f.outbound
          /\ f.url \in {"sms/status", "whatsapp/status"} => f.outbound
          /\ f.url \notin {"whatsapp", "whatsapp/status"} =>
               \A n \in {f.from, f.to} : Plain[n] = n
          /\ OtherSide(f) \notin Registered

NoKey   == [sid |-> NULL, type |-> NULL, status |-> NULL]
NoEvent == [key |-> NoKey, correlation |-> NoKey, outbound |-> FALSE, from |-> NULL,
            to |-> NULL, source |-> NULL]

(* A recording takes over all of its call's row but the key.               *)
Inherit(call, key) == [call EXCEPT !.key = key]

VARIABLES
  stored,   \* the row of comm_events under each key, NoEvent while there is none
  handler,  \* what each handler is about to do, for which hook, with which event
  acked,    \* the hooks Twilio has seen a 200 for
  faults,
  state, job, tries  \* delivery_status as the delivery workers see it

Queue == INSTANCE DeliveryQueue
           WITH Events <- Keys, NoEvent <- NoEvent, MaxAttempts <- 1

queue == <<state, job, tries>>
vars  == <<stored, handler, acked, faults, queue>>

Idle == [pc |-> "idle", hook |-> NULL, event |-> NoEvent]

Init ==
  /\ stored = [k \in Keys |-> NoEvent]
  /\ handler = [s \in Handlers |-> Idle]
  /\ acked = [h \in Hooks |-> FALSE]
  /\ faults = 0
  /\ Queue!Init

At(s, pc)    == handler[s].pc = pc
Goto(s, pc)  == handler' = [handler EXCEPT ![s].pc = pc]
MyKey(s)     == handler[s].event.key
IsStored(k)  == k \in Keys /\ stored[k] # NoEvent

-----------------------------------------------------------------------------
(***************************************************************************)
(* A handler, from the POST on.  number_registry does not change while the *)
(* system runs, so resolve_source is part of the first step.               *)
(***************************************************************************)
FirstStep(f) ==
  IF Ignored(f) THEN "answer"
  ELSE IF f.url = "recording" /\ f.call # NULL THEN "lookup" ELSE "insert"

Receive(s, h) ==
  /\ At(s, "idle")
  /\ ~acked[h] /\ \A g \in After[h] : acked[g]
  /\ handler' = [handler EXCEPT ![s] =
                   [pc |-> FirstStep(Form[h]), hook |-> h,
                    event |-> IF Ignored(Form[h]) THEN NoEvent ELSE Handle(Form[h])]]
  /\ UNCHANGED <<stored, acked, faults, queue>>

JoinCall(s, k) ==
  handler' = [handler EXCEPT ![s].pc = "insert", ![s].event = Inherit(stored[k], MyKey(s))]

LookupCall_AnyType(s) ==      \* a mutant: any row of the call will do
  /\ At(s, "lookup")
  /\ LET rows == {k \in Keys : IsStored(k) /\ k.sid = Form[handler[s].hook].call}
     IN IF rows # {} THEN \E k \in rows : JoinCall(s, k) ELSE Goto(s, "insert")
  /\ UNCHANGED <<stored, acked, faults, queue>>

LookupCall_TakesKey(s) ==     \* a mutant: the recording takes the key of its call, too
  /\ At(s, "lookup")
  /\ LET call == CallKey(handler[s].hook)
     IN IF IsStored(call)
        THEN handler' = [handler EXCEPT ![s].pc = "insert", ![s].event = stored[call]]
        ELSE Goto(s, "insert")
  /\ UNCHANGED <<stored, acked, faults, queue>>

LookupCall_DropsUnknown(s) == \* a mutant: a recording without its call is dropped
  /\ At(s, "lookup")
  /\ LET call == CallKey(handler[s].hook)
     IN IF IsStored(call) THEN JoinCall(s, call) ELSE Goto(s, "answer")
  /\ UNCHANGED <<stored, acked, faults, queue>>

(* lookup_call_context *)
LookupCall(s) ==
  /\ At(s, "lookup")
  /\ LET call == CallKey(handler[s].hook)
     IN IF IsStored(call) THEN JoinCall(s, call) ELSE Goto(s, "insert")
  /\ UNCHANGED <<stored, acked, faults, queue>>

AfterInsert_Failed(k) ==       \* a mutant: lost recordings are published too
  IF k.type \in Deliverable \cup {"recording.failed"} THEN "publish" ELSE "answer"

AfterInsert_NoRecordings(k) == \* a mutant: recordings are not published
  IF k.type \in Deliverable \ {"recording.ready"} THEN "publish" ELSE "answer"

AfterInsert(k) == IF k.type \in Deliverable THEN "publish" ELSE "answer"

Insert_PublishAgain(s) ==     \* a mutant: a duplicate is published as well
  /\ At(s, "insert")
  /\ stored' = IF IsStored(MyKey(s)) THEN stored
               ELSE [stored EXCEPT ![MyKey(s)] = handler[s].event]
  /\ Goto(s, AfterInsert(MyKey(s)))
  /\ UNCHANGED <<acked, faults, queue>>

Insert_DuplicateRaises(s) ==  \* a mutant: INSERT without ON CONFLICT DO NOTHING
  /\ At(s, "insert")
  /\ IF IsStored(MyKey(s))
     THEN handler' = [handler EXCEPT ![s] = Idle] /\ UNCHANGED stored
     ELSE /\ stored' = [stored EXCEPT ![MyKey(s)] = handler[s].event]
          /\ Goto(s, AfterInsert(MyKey(s)))
  /\ UNCHANGED <<acked, faults, queue>>

(* INSERT ... ON CONFLICT (event_key) DO NOTHING RETURNING id *)
Insert(s) ==
  /\ At(s, "insert")
  /\ IF IsStored(MyKey(s))
     THEN Goto(s, "original") /\ UNCHANGED stored
     ELSE /\ stored' = [stored EXCEPT ![MyKey(s)] = handler[s].event]
          /\ Goto(s, AfterInsert(MyKey(s)))
  /\ UNCHANGED <<acked, faults, queue>>

SelectOriginal(s) ==
  /\ At(s, "original")
  /\ Goto(s, "answer")
  /\ UNCHANGED <<stored, acked, faults, queue>>

(* The UPDATE asks for the id only, not for the status it replaces.        *)
Publish(s) ==
  /\ At(s, "publish")
  /\ state' = [state EXCEPT ![MyKey(s)] = "ready"]
  /\ Goto(s, "answer")
  /\ UNCHANGED <<stored, acked, faults, job, tries>>

Answer(s) ==
  /\ At(s, "answer")
  /\ acked' = [acked EXCEPT ![handler[s].hook] = TRUE]
  /\ handler' = [handler EXCEPT ![s] = Idle]
  /\ UNCHANGED <<stored, faults, queue>>

(***************************************************************************)
(* Faults.  A statement that is carried out and raises nevertheless is the *)
(* step of that statement followed by one of these.                        *)
(***************************************************************************)
Fault == faults < MaxFaults /\ faults' = faults + 1

(* The next await raises, or Twilio does not wait for the answer.          *)
Abandon(s) ==
  /\ ~At(s, "idle")
  /\ Fault
  /\ handler' = [handler EXCEPT ![s] = Idle]
  /\ UNCHANGED <<stored, acked, queue>>

(* The process dies with every request in it.                              *)
Crash ==
  /\ \E s \in Handlers : ~At(s, "idle")
  /\ Fault
  /\ handler' = [s \in Handlers |-> Idle]
  /\ UNCHANGED <<stored, acked, queue>>

(***************************************************************************)
(* The workers: claim_next joins enrichments, which has rows for the       *)
(* deliverable types only; an event without a caller cannot be delivered.  *)
(***************************************************************************)
Claim(w, k)   == k.type \in Deliverable /\ Queue!ClaimNext(w, k)
Deliver(w, k) == stored[k].from # NULL /\ Queue!Ack(w, k)
Bury(w, k)    == Queue!DeadLetter(w, k)

WorkerStep(w) ==
  /\ \E k \in Keys : Claim(w, k) \/ Deliver(w, k) \/ Bury(w, k)
  /\ UNCHANGED <<stored, handler, acked, faults>>

HandlerStep(s) ==
  \/ LookupCall(s) \/ Insert(s) \/ SelectOriginal(s) \/ Publish(s) \/ Answer(s)

Send == \E s \in Handlers, h \in Hooks : Receive(s, h)

Next ==
  \/ Send
  \/ \E s \in Handlers : HandlerStep(s) \/ Abandon(s)
  \/ Crash
  \/ \E w \in Workers : WorkerStep(w)

Spec == Init /\ [][Next]_vars

(* Requests end, Twilio tries again, the workers poll.                     *)
FairSpec ==
  /\ Spec
  /\ WF_vars(Send)
  /\ \A s \in Handlers : WF_vars(HandlerStep(s))
  /\ \A w \in Workers : WF_vars(WorkerStep(w))

-----------------------------------------------------------------------------
(***************************************************************************)
(* Properties.                                                             *)
(***************************************************************************)
EventFields == [key : Keys \cup {NoKey}, correlation : Keys \cup {NoKey}, outbound : BOOLEAN,
                from : Numbers, to : Numbers, source : Registered \cup {NULL}]

HandlerPC == {"idle", "lookup", "insert", "original", "publish", "answer"}

(* Every variable stays in its domain, and a handler that is not idle      *)
(* works on the event of its hook, or answers a form it ignores.           *)
TypeOK ==
  /\ stored \in [Keys -> EventFields]
  /\ handler \in [Handlers -> [pc : HandlerPC, hook : Hooks \cup {NULL}, event : EventFields]]
  /\ \A s \in Handlers : ~At(s, "idle") =>
       /\ handler[s].hook \in Hooks
       /\ IF Ignored(Form[handler[s].hook]) THEN At(s, "answer")
          ELSE MyKey(s) = KeyOf(handler[s].hook)
  /\ acked \in [Hooks -> BOOLEAN]
  /\ faults \in 0 .. MaxFaults
  /\ state \in [Keys -> {"unpublished", "ready", "held", "delivered", "dead"}]

(* "Nothing is ever lost": once Twilio has seen a 200, and will not send   *)
(* the webhook again, its event is in comm_events, whatever crashed.       *)
AnsweredIsStored ==
  \A h \in Hooks : acked[h] /\ ~Ignored(Form[h]) => IsStored(KeyOf(h))

InOrder(h) == \E g \in After[h] : ~Ignored(Form[g]) /\ KeyOf(g) = CallKey(h)

(* What a recording may be stored as: with all the data of its own call,   *)
(* or with placeholders if it overtook the call.                           *)
Joined(h, e) ==
  \/ IsStored(CallKey(h)) /\ e = Inherit(stored[CallKey(h)], KeyOf(h))
  \/ e = Handle(Form[h]) /\ ~InOrder(h)

(* A recording has the numbers, direction, source and correlation id of    *)
(* its own call, and placeholders only when it overtook the call, although *)
(* lookup and INSERT are two statements and the call may come in between.  *)
RecordingJoinsItsCall ==
  \A h \in Hooks :
    Form[h].url = "recording" /\ ~Ignored(Form[h]) /\ IsStored(KeyOf(h)) =>
      Joined(h, stored[KeyOf(h)])

(* The business a form belongs to: the one of our side, whatever route it  *)
(* takes.  A recording has no numbers to go by, and an outbound call that  *)
(* is announced at /webhooks/voice is attributed to nobody.                *)
SourceOf(f) ==
  IF f.url = "recording" \/ (f.url = "voice" /\ f.outbound) THEN NULL ELSE LookUp(OurSide(f))

OurSource(e) ==
  \A h \in Hooks : ~Ignored(Form[h]) /\ KeyOf(h) = e.correlation => e.source = SourceOf(Form[h])

(* A row is attributed to the business of the webhook that began its chain *)
(* (its own, or its call's for a recording), whether our number is the     *)
(* sender or the destination, and whether it came with a prefix or not.    *)
SourceIsOurs == \A k \in Keys : IsStored(k) => OurSource(stored[k])

(* Although publish overwrites whatever status it finds, duplicates, slow  *)
(* handlers and retries never pull an event back from a worker or queue it *)
(* twice: ingest is the Publish of the delivery queue.                     *)
QueueSpec == Queue!Spec

(* Twilio gets its 200 for every webhook in the end, duplicates included,  *)
(* and so stops sending.                                                   *)
EveryHookAnswered == <>[](\A h \in Hooks : acked[h])

Settled(k) == state[k] \in {"delivered", "dead"}

(* Nothing waits in the queue for ever: what is published is enriched and  *)
(* so passes the gate of the claim.                                        *)
QueueDrains == <>[](\A k \in Keys : state[k] = "unpublished" \/ Settled(k))

ToDeliver(h) == ~Ignored(Form[h]) /\ KeyOf(h).type \in Deliverable

(* While nothing fails, each message and recording reaches a worker.       *)
ReachesWorker ==
  [](faults = 0) => <>(\A h \in Hooks : ToDeliver(h) => Settled(KeyOf(h)))

(* CONTRACT.md promises delivery at least once: an event Twilio was told   *)
(* is taken reaches a worker, whatever failed on the way.                  *)
AnsweredReachesWorker ==
  \A h \in Hooks : ToDeliver(h) /\ acked[h] ~> Settled(KeyOf(h))
=============================================================================
