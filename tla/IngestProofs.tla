----------------------------- MODULE IngestProofs -----------------------------
(***************************************************************************)
(* Theorems of Ingest, for every set of hooks and handlers and every       *)
(* bound on faults, and their proofs.                                      *)
(***************************************************************************)
EXTENDS Ingest, TLAPS

(***************************************************************************)
(* The events the routes build.                                            *)
(***************************************************************************)

(* A form of each route is handled by the function of that route. *)
LEMMA Routes ==
  ASSUME NEW h \in Hooks
  PROVE  /\ Form[h].url = "sms" => Handle(Form[h]) = ReceiveSms(Form[h])
         /\ Form[h].url = "whatsapp" => Handle(Form[h]) = ReceiveWhatsApp(Form[h])
         /\ Form[h].url = "voice" => Handle(Form[h]) = ReceiveCall(Form[h])
         /\ Form[h].url = "sms/status" => Handle(Form[h]) = SmsStatus(Form[h])
         /\ Form[h].url = "whatsapp/status" => Handle(Form[h]) = WhatsAppStatus(Form[h])
         /\ Form[h].url = "voice/status" => Handle(Form[h]) = VoiceStatus(Form[h])
         /\ Form[h].url = "recording" => Handle(Form[h]) = RecordingReady(Form[h])
  BY DEF Handle

(* The routes are the only ones there are. *)
LEMMA RouteCases ==
  ASSUME NEW h \in Hooks
  PROVE  Form[h].url \in Urls
  BY ConstantsOK DEF ConstantsOK

(* What each route hands to Event.                                         *)
LEMMA RouteEvents ==
  ASSUME NEW h \in Hooks
  PROVE  LET f == Form[h] IN
         /\ f.url = "sms" => Handle(f) = Event(f, "sms.received", "", FALSE, f.to)
         /\ f.url = "whatsapp" => Handle(f) = Event(f, "whatsapp.received", "", FALSE, Plain[f.to])
         /\ f.url = "voice" => Handle(f) = Event(f, "call.started", "", FALSE, f.to)
         /\ f.url = "sms/status" => Handle(f) = Event(f, "sms.status", f.status, TRUE, f.from)
         /\ f.url = "whatsapp/status" =>
              Handle(f) = Event(f, "whatsapp.status", f.status, TRUE, Plain[f.from])
         /\ f.url = "voice/status" =>
              Handle(f) = Event(f, "call.completed", "", f.outbound,
                                IF f.outbound THEN f.from ELSE f.to)
BY Routes DEF ReceiveSms, ReceiveWhatsApp, ReceiveCall, SmsStatus, WhatsAppStatus, VoiceStatus

(* Each route builds an event with its own numbers, or, for a recording,   *)
(* with none.                                                              *)
OwnEvent(f, k, outbound, number) ==
  [key |-> k, correlation |-> k, outbound |-> outbound, from |-> f.from, to |-> f.to,
   source |-> LookUp(number)]

Placeholder(k) ==
  [key |-> k, correlation |-> k, outbound |-> FALSE, from |-> NULL, to |-> NULL, source |-> NULL]

LEMMA Built ==
  ASSUME NEW h \in Hooks
  PROVE  \E k : \E outbound \in BOOLEAN : \E number \in Numbers :
           /\ k.sid = Form[h].sid
           /\ \/ /\ Form[h].url # "recording"
                 /\ Handle(Form[h]) = OwnEvent(Form[h], k, outbound, number)
              \/ Form[h].url = "recording" /\ Handle(Form[h]) = Placeholder(k)
<1> DEFINE key(type, status) == [sid |-> Form[h].sid, type |-> type, status |-> status]
<1>0. /\ Form[h].from \in Numbers /\ Form[h].to \in Numbers /\ NULL \in Numbers \ Registered
      /\ Plain[Form[h].from] \in Numbers /\ Plain[Form[h].to] \in Numbers
      /\ Form[h].outbound \in BOOLEAN
  BY ConstantsOK DEF ConstantsOK
<1>1. ASSUME NEW type, NEW status, NEW outbound \in BOOLEAN, NEW number \in Numbers,
             Handle(Form[h]) = Event(Form[h], type, status, outbound, number)
      PROVE  /\ key(type, status).sid = Form[h].sid
             /\ Handle(Form[h]) = OwnEvent(Form[h], key(type, status), outbound, number)
  BY <1>1 DEF Event, OwnEvent
<1>2. CASE Form[h].url = "recording"
  <2>1. PICK type : Handle(Form[h]) = [Event(Form[h], type, "", FALSE, NULL)
                                         EXCEPT !.from = NULL, !.to = NULL]
    BY <1>2, Routes DEF RecordingReady
  <2>2. key(type, "").sid = Form[h].sid
    OBVIOUS
  <2>3. Handle(Form[h]) = Placeholder(key(type, ""))
    BY <1>0, <2>1 DEF Event, Placeholder, LookUp
  <2> QED BY <1>0, <1>2, <2>2, <2>3
<1>3. CASE Form[h].url = "sms"
  <2>1. /\ key("sms.received", "").sid = Form[h].sid
        /\ Handle(Form[h]) = OwnEvent(Form[h], key("sms.received", ""), FALSE, Form[h].to)
    BY <1>1, <1>0, <1>3, RouteEvents
  <2> QED BY <1>0, <1>3, <2>1
<1>4. CASE Form[h].url = "whatsapp"
  <2>1. /\ key("whatsapp.received", "").sid = Form[h].sid
        /\ Handle(Form[h]) = OwnEvent(Form[h], key("whatsapp.received", ""), FALSE, Plain[Form[h].to])
    BY <1>1, <1>0, <1>4, RouteEvents
  <2> QED BY <1>0, <1>4, <2>1
<1>5. CASE Form[h].url = "voice"
  <2>1. /\ key("call.started", "").sid = Form[h].sid
        /\ Handle(Form[h]) = OwnEvent(Form[h], key("call.started", ""), FALSE, Form[h].to)
    BY <1>1, <1>0, <1>5, RouteEvents
  <2> QED BY <1>0, <1>5, <2>1
<1>6. CASE Form[h].url = "sms/status"
  <2>1. /\ key("sms.status", Form[h].status).sid = Form[h].sid
        /\ Handle(Form[h]) = OwnEvent(Form[h], key("sms.status", Form[h].status), TRUE, Form[h].from)
    BY <1>1, <1>0, <1>6, RouteEvents
  <2> QED BY <1>0, <1>6, <2>1
<1>7. CASE Form[h].url = "whatsapp/status"
  <2>1. /\ key("whatsapp.status", Form[h].status).sid = Form[h].sid
        /\ Handle(Form[h]) = OwnEvent(Form[h], key("whatsapp.status", Form[h].status), TRUE, Plain[Form[h].from])
    BY <1>1, <1>0, <1>7, RouteEvents
  <2> QED BY <1>0, <1>7, <2>1
<1>8. CASE Form[h].url = "voice/status"
  <2>1. PICK number \in Numbers : number = IF Form[h].outbound THEN Form[h].from ELSE Form[h].to
    BY <1>0
  <2>2. /\ key("call.completed", "").sid = Form[h].sid
        /\ Handle(Form[h]) = OwnEvent(Form[h], key("call.completed", ""), Form[h].outbound, number)
    BY <1>0, <1>1, <1>8, <2>1, RouteEvents
  <2> QED BY <1>0, <1>8, <2>2
<1> QED BY <1>2, <1>3, <1>4, <1>5, <1>6, <1>7, <1>8, RouteCases DEF Urls

(* The key of an event names the SID of its form. *)
LEMMA KeyFields ==
  ASSUME NEW h \in Hooks
  PROVE  /\ KeyOf(h).sid = Form[h].sid
         /\ Handle(Form[h]).correlation = KeyOf(h)
<1>1. PICK k : \E outbound \in BOOLEAN : \E number \in Numbers :
        /\ k.sid = Form[h].sid
        /\ \/ Handle(Form[h]) = OwnEvent(Form[h], k, outbound, number)
           \/ Handle(Form[h]) = Placeholder(k)
  BY Built
<1>2. Handle(Form[h]).key = k /\ Handle(Form[h]).correlation = k
  BY <1>1 DEF OwnEvent, Placeholder
<1> QED BY <1>1, <1>2 DEF KeyOf

(* No stored event has the key of the empty row. *)
LEMMA NoKeyIsNoKey == NoKey \notin Keys
  BY KeyFields DEF Keys, NoKey, Ignored

(* The event of a form that is not ignored is a possible row. *)
LEMMA HandledEvent ==
  ASSUME NEW h \in Hooks, ~Ignored(Form[h])
  PROVE  Handle(Form[h]) \in EventFields /\ KeyOf(h) \in Keys
<1>1. KeyOf(h) \in Keys
  BY DEF Keys
<1>2. \A n \in Numbers : LookUp(n) \in Registered \cup {NULL}
  BY DEF LookUp
<1>3. Form[h].from \in Numbers /\ Form[h].to \in Numbers /\ NULL \in Numbers
  BY ConstantsOK DEF ConstantsOK
<1>4. PICK k : \E outbound \in BOOLEAN : \E number \in Numbers :
        \/ Handle(Form[h]) = OwnEvent(Form[h], k, outbound, number)
        \/ Handle(Form[h]) = Placeholder(k)
  BY Built
<1>5. k = KeyOf(h)
  BY <1>4 DEF KeyOf, OwnEvent, Placeholder
<1>6. /\ \A outbound \in BOOLEAN : \A number \in Numbers :
           OwnEvent(Form[h], k, outbound, number) \in EventFields
      /\ Placeholder(k) \in EventFields
  BY <1>1, <1>2, <1>3, <1>5 DEF OwnEvent, Placeholder, EventFields
<1> QED BY <1>1, <1>4, <1>6

-----------------------------------------------------------------------------
(***************************************************************************)
(* What the moves of a handler do.                                         *)
(***************************************************************************)
HandlerType == [pc : HandlerPC, hook : Hooks \cup {NULL}, event : EventFields]

LEMMA GotoMoves ==
  ASSUME TypeOK, NEW s \in Handlers, NEW pc \in HandlerPC, Goto(s, pc)
  PROVE  /\ handler' \in [Handlers -> HandlerType]
         /\ handler'[s].pc = pc /\ handler'[s].hook = handler[s].hook
         /\ handler'[s].event = handler[s].event
         /\ \A t \in Handlers \ {s} : handler'[t] = handler[t]
  BY DEF TypeOK, Goto, HandlerType

LEMMA IdleIsTyped == Idle \in HandlerType /\ Idle.pc = "idle" /\ NoEvent \in EventFields
<1>1. NoEvent \in EventFields
  BY ConstantsOK DEF ConstantsOK, NoEvent, EventFields
<1> QED BY <1>1 DEF Idle, HandlerType, HandlerPC

LEMMA IdleMoves ==
  ASSUME TypeOK, NEW s \in Handlers, handler' = [handler EXCEPT ![s] = Idle]
  PROVE  /\ handler' \in [Handlers -> HandlerType]
         /\ handler'[s].pc = "idle"
         /\ \A t \in Handlers \ {s} : handler'[t] = handler[t]
  BY IdleIsTyped DEF TypeOK, HandlerType

LEMMA JoinMoves ==
  ASSUME TypeOK, NEW s \in Handlers, NEW k \in Keys, JoinCall(s, k), MyKey(s) \in Keys
  PROVE  /\ handler' \in [Handlers -> HandlerType]
         /\ handler'[s].pc = "insert" /\ handler'[s].hook = handler[s].hook
         /\ handler'[s].event = Inherit(stored[k], MyKey(s))
         /\ handler'[s].event.key = MyKey(s)
         /\ \A t \in Handlers \ {s} : handler'[t] = handler[t]
<1> DEFINE e == Inherit(stored[k], MyKey(s))
<1>1. e \in EventFields /\ e.key = MyKey(s)
  BY DEF TypeOK, EventFields, Inherit
<1>2. handler' = [handler EXCEPT ![s].pc = "insert", ![s].event = e]
  BY DEF JoinCall
<1>3. handler \in [Handlers -> HandlerType]
  BY DEF TypeOK, HandlerType
<1> HIDE DEF e
<1>4. handler' = [handler EXCEPT ![s] = [[@ EXCEPT !.pc = "insert"] EXCEPT !.event = e]]
  BY <1>2
<1>5. [[handler[s] EXCEPT !.pc = "insert"] EXCEPT !.event = e] \in HandlerType
  BY <1>1, <1>3 DEF HandlerType, HandlerPC
<1>6. /\ handler' \in [Handlers -> HandlerType]
      /\ handler'[s].pc = "insert" /\ handler'[s].hook = handler[s].hook
      /\ handler'[s].event = e
      /\ \A t \in Handlers \ {s} : handler'[t] = handler[t]
  BY <1>3, <1>4, <1>5 DEF HandlerType
<1> QED BY <1>1, <1>6 DEF e

LEMMA ReceiveMoves ==
  ASSUME TypeOK, NEW s \in Handlers, NEW h \in Hooks, Receive(s, h)
  PROVE  /\ handler' \in [Handlers -> HandlerType]
         /\ handler'[s].hook = h
         /\ handler'[s].pc = FirstStep(Form[h])
         /\ ~Ignored(Form[h]) => handler'[s].event = Handle(Form[h])
         /\ \A t \in Handlers \ {s} : handler'[t] = handler[t]
<1> DEFINE e == IF Ignored(Form[h]) THEN NoEvent ELSE Handle(Form[h])
<1>1. e \in EventFields
  BY HandledEvent, IdleIsTyped
<1>2. FirstStep(Form[h]) \in HandlerPC
  BY DEF FirstStep, HandlerPC
<1>3. handler' = [handler EXCEPT ![s] = [pc |-> FirstStep(Form[h]), hook |-> h, event |-> e]]
  BY DEF Receive
<1>4. ~Ignored(Form[h]) => e = Handle(Form[h])
  OBVIOUS
<1> HIDE DEF e
<1> QED BY <1>1, <1>2, <1>3, <1>4 DEF TypeOK, HandlerType

(* The hook a busy handler has, and its key. *)
LEMMA BusyHandler ==
  ASSUME TypeOK, NEW s \in Handlers, ~At(s, "idle")
  PROVE  /\ handler[s].hook \in Hooks
         /\ ~Ignored(Form[handler[s].hook]) =>
              /\ MyKey(s) = KeyOf(handler[s].hook) /\ MyKey(s) \in Keys
         /\ ~At(s, "answer") => ~Ignored(Form[handler[s].hook])
<1>1. handler[s].hook \in Hooks
  BY DEF TypeOK
<1>2. ~Ignored(Form[handler[s].hook]) => MyKey(s) = KeyOf(handler[s].hook)
  BY DEF TypeOK
<1>3. ~Ignored(Form[handler[s].hook]) => KeyOf(handler[s].hook) \in Keys
  BY <1>1, HandledEvent
<1>4. ~At(s, "answer") => ~Ignored(Form[handler[s].hook])
  BY DEF TypeOK
<1> QED BY <1>1, <1>2, <1>3, <1>4

(* A row that is stored stays as it is. *)
LEMMA InsertStores ==
  ASSUME TypeOK, NEW s \in Handlers, Insert(s)
  PROVE  /\ stored' \in [Keys -> EventFields]
         /\ MyKey(s) \in Keys /\ stored'[MyKey(s)] # NoEvent
         /\ \A k \in Keys : IsStored(k) => stored'[k] = stored[k]
         /\ \A k \in Keys \ {MyKey(s)} : stored'[k] = stored[k]
         /\ IF IsStored(MyKey(s)) THEN Goto(s, "original")
            ELSE stored'[MyKey(s)] = handler[s].event /\ Goto(s, AfterInsert(MyKey(s)))
<1>1. MyKey(s) \in Keys
  BY BusyHandler DEF Insert, At
<1>2. handler[s].event \in EventFields /\ handler[s].event # NoEvent
  BY <1>1, NoKeyIsNoKey DEF TypeOK, MyKey, NoEvent
<1>3. CASE IsStored(MyKey(s))
  BY <1>1, <1>3 DEF Insert, IsStored, TypeOK
<1>4. CASE ~IsStored(MyKey(s))
  BY <1>1, <1>2, <1>4 DEF Insert, IsStored, TypeOK
<1> QED BY <1>3, <1>4

-----------------------------------------------------------------------------
(***************************************************************************)
(* Types, and that what is answered is stored.                             *)
(***************************************************************************)

(* Past the INSERT the event is stored, by this handler or an earlier one; *)
(* and a hook is only on its way once those before it are answered.        *)
Progress ==
  \A s \in Handlers :
    /\ handler[s].pc \in {"original", "publish", "answer"} /\ ~Ignored(Form[handler[s].hook])
         => IsStored(MyKey(s))
    /\ ~At(s, "idle") => \A g \in After[handler[s].hook] : acked[g]

StoreInv == TypeOK /\ AnsweredIsStored /\ Progress

LEMMA InitStore == Init => StoreInv
<1> SUFFICES ASSUME Init PROVE StoreInv
  OBVIOUS
<1>1. \A s \in Handlers : handler[s] = Idle
  BY DEF Init
<1>2. TypeOK
  <2>1. stored \in [Keys -> EventFields]
    BY IdleIsTyped DEF Init
  <2>2. handler \in [Handlers -> HandlerType]
    BY IdleIsTyped DEF Init
  <2>3. acked \in [Hooks -> BOOLEAN] /\ faults \in 0 .. MaxFaults
    BY ConstantsOK DEF Init, ConstantsOK
  <2>4. state \in [Keys -> {"unpublished", "ready", "held", "delivered", "dead"}]
    BY DEF Init, Queue!Init
  <2> QED BY <1>1, <2>1, <2>2, <2>3, <2>4, IdleIsTyped DEF TypeOK, At, HandlerType
<1>3. AnsweredIsStored
  BY DEF Init, AnsweredIsStored
<1>4. Progress
  BY <1>1, IdleIsTyped DEF Progress, At
<1> QED BY <1>2, <1>3, <1>4 DEF StoreInv

(* A step of one handler keeps the invariant if it leaves the rows that    *)
(* are there alone and the handler where the invariant allows it to be.    *)
LEMMA StoreStep ==
  ASSUME StoreInv, NEW s \in Handlers,
         stored' \in [Keys -> EventFields],
         \A k \in Keys : IsStored(k) => stored'[k] = stored[k],
         handler' \in [Handlers -> HandlerType],
         \A t \in Handlers \ {s} : handler'[t] = handler[t],
         handler'[s].pc # "idle" =>
           /\ handler'[s].hook \in Hooks
           /\ \A g \in After[handler'[s].hook] : acked[g]
           /\ IF Ignored(Form[handler'[s].hook]) THEN handler'[s].pc = "answer"
              ELSE handler'[s].event.key = KeyOf(handler'[s].hook)
           /\ handler'[s].pc \in {"original", "publish", "answer"}
                /\ ~Ignored(Form[handler'[s].hook])
                => /\ handler'[s].event.key \in Keys
                   /\ stored'[handler'[s].event.key] # NoEvent,
         acked' \in [Hooks -> BOOLEAN],
         \A h \in Hooks : acked[h] => acked'[h],
         \A h \in Hooks : acked'[h] /\ ~acked[h] =>
           Ignored(Form[h]) \/ IsStored(KeyOf(h)),
         faults' \in 0 .. MaxFaults,
         state' \in [Keys -> {"unpublished", "ready", "held", "delivered", "dead"}]
  PROVE  StoreInv'
<1> USE DEF StoreInv
<1>1. \A k : IsStored(k) => IsStored(k)'
  BY DEF IsStored
<1>2. TypeOK'
  <2>1. ASSUME NEW t \in Handlers, handler'[t].pc # "idle"
        PROVE  /\ handler'[t].hook \in Hooks
               /\ IF Ignored(Form[handler'[t].hook]) THEN handler'[t].pc = "answer"
                  ELSE handler'[t].event.key = KeyOf(handler'[t].hook)
    <3>1. CASE t = s BY <2>1, <3>1
    <3>2. CASE t # s BY <2>1, <3>2 DEF TypeOK, At, MyKey
    <3> QED BY <3>1, <3>2
  <2> QED BY <2>1 DEF TypeOK, HandlerType, At, MyKey
<1>3. AnsweredIsStored'
  BY <1>1 DEF AnsweredIsStored, TypeOK
<1>4. Progress'
  <2>1. \A h \in Hooks : \A g \in After[h] : acked[g] => acked'[g]
    BY ConstantsOK DEF ConstantsOK
  <2>2. ASSUME NEW t \in Handlers
        PROVE  /\ handler'[t].pc \in {"original", "publish", "answer"}
                    /\ ~Ignored(Form[handler'[t].hook])
                    => handler'[t].event.key \in Keys /\ stored'[handler'[t].event.key] # NoEvent
               /\ handler'[t].pc # "idle" => \A g \in After[handler'[t].hook] : acked'[g]
    <3>1. CASE t = s
      BY <2>1, <3>1
    <3>2. CASE t # s
      <4>1. handler'[t] = handler[t]
        BY <3>2
      <4>2. handler[t].pc # "idle" =>
              handler[t].hook \in Hooks /\ \A g \in After[handler[t].hook] : acked[g]
        BY <2>2 DEF Progress, TypeOK, At
      <4>3. handler[t].pc \in {"original", "publish", "answer"} /\ ~Ignored(Form[handler[t].hook])
              => handler[t].event.key \in Keys /\ stored[handler[t].event.key] # NoEvent
        BY <2>2 DEF Progress, IsStored, MyKey
      <4>4. \A k \in Keys : stored[k] # NoEvent => stored'[k] # NoEvent
        BY DEF IsStored
      <4> QED BY <2>1, <4>1, <4>2, <4>3, <4>4
    <3> QED BY <3>1, <3>2
  <2> QED BY <2>2 DEF Progress, At, MyKey, IsStored
<1> QED BY <1>2, <1>3, <1>4

(* The handler s stays on the hook it has. *)
LEMMA SameHook ==
  ASSUME StoreInv, NEW s \in Handlers, ~At(s, "idle"), ~At(s, "answer"),
         handler'[s].hook = handler[s].hook, handler'[s].event.key = MyKey(s)
  PROVE  /\ handler'[s].hook \in Hooks
         /\ \A g \in After[handler'[s].hook] : acked[g]
         /\ ~Ignored(Form[handler'[s].hook])
         /\ handler'[s].event.key = KeyOf(handler'[s].hook)
         /\ MyKey(s) \in Keys
<1>1. TypeOK /\ Progress
  BY DEF StoreInv
<1> QED BY <1>1, BusyHandler DEF Progress

LEMMA QueueTypes ==
  ASSUME TypeOK, NEW w \in Workers, WorkerStep(w)
  PROVE  state' \in [Keys -> {"unpublished", "ready", "held", "delivered", "dead"}]
<1>1. PICK k \in Keys : Claim(w, k) \/ Deliver(w, k) \/ Bury(w, k)
  BY DEF WorkerStep
<1>2. \E st \in {"held", "delivered", "dead"} : state' = [state EXCEPT ![k] = st]
  BY <1>1 DEF Claim, Deliver, Bury, Queue!ClaimNext, Queue!Ack, Queue!DeadLetter, Queue!Settle
<1> QED BY <1>2 DEF TypeOK

LEMMA NextStore == StoreInv /\ [Next]_vars => StoreInv'
<1> SUFFICES ASSUME StoreInv, [Next]_vars PROVE StoreInv'
  OBVIOUS
<1>0. TypeOK /\ AnsweredIsStored /\ Progress
  BY DEF StoreInv
<1>t. /\ stored \in [Keys -> EventFields] /\ acked \in [Hooks -> BOOLEAN]
      /\ faults \in 0 .. MaxFaults /\ handler \in [Handlers -> HandlerType]
      /\ state \in [Keys -> {"unpublished", "ready", "held", "delivered", "dead"}]
  BY <1>0 DEF TypeOK, HandlerType
<1>1. ASSUME NEW s \in Handlers, NEW h \in Hooks, Receive(s, h) PROVE StoreInv'
  <2>1. UNCHANGED <<stored, acked, faults, state>>
    BY <1>1 DEF Receive, queue
  <2>2. \A g \in After[h] : acked[g]
    BY <1>1 DEF Receive
  <2>3. IF Ignored(Form[h]) THEN FirstStep(Form[h]) = "answer"
        ELSE FirstStep(Form[h]) \in {"lookup", "insert"}
    BY DEF FirstStep
  <2>4. ~Ignored(Form[h]) => handler'[s].event.key = KeyOf(h)
    BY <1>0, <1>1, ReceiveMoves DEF KeyOf
  <2> QED BY <1>0, <1>1, <1>t, <2>1, <2>2, <2>3, <2>4, ReceiveMoves, StoreStep
<1>2. ASSUME NEW s \in Handlers, LookupCall(s) PROVE StoreInv'
  <2>1. UNCHANGED <<stored, acked, faults, state>>
    BY <1>2 DEF LookupCall, queue
  <2>2. MyKey(s) \in Keys /\ ~At(s, "idle") /\ ~At(s, "answer")
    BY <1>0, <1>2, BusyHandler DEF LookupCall, At
  <2>3. PICK k \in Keys : JoinCall(s, k) \/ Goto(s, "insert")
    BY <1>2, <2>2 DEF LookupCall, IsStored
  <2>4. /\ handler' \in [Handlers -> HandlerType]
        /\ handler'[s].pc = "insert" /\ handler'[s].hook = handler[s].hook
        /\ handler'[s].event.key = MyKey(s)
        /\ \A t \in Handlers \ {s} : handler'[t] = handler[t]
    <3>1. CASE JoinCall(s, k)
      BY <1>0, <2>2, <3>1, JoinMoves
    <3>2. CASE Goto(s, "insert")
      BY <1>0, <3>2, GotoMoves DEF HandlerPC, MyKey
    <3> QED BY <2>3, <3>1, <3>2
  <2> QED BY <1>t, <2>1, <2>2, <2>4, SameHook, StoreStep
<1>3. ASSUME NEW s \in Handlers, Insert(s) PROVE StoreInv'
  <2>1. UNCHANGED <<acked, faults, state>>
    BY <1>3 DEF Insert, queue
  <2>2. ~At(s, "idle") /\ ~At(s, "answer")
    BY <1>3 DEF Insert, At
  <2>3. PICK pc \in HandlerPC : Goto(s, pc) /\ pc # "idle"
    BY <1>0, <1>3, InsertStores DEF AfterInsert, HandlerPC
  <2>4. /\ handler' \in [Handlers -> HandlerType]
        /\ handler'[s].pc = pc /\ handler'[s].hook = handler[s].hook
        /\ handler'[s].event.key = MyKey(s)
        /\ \A t \in Handlers \ {s} : handler'[t] = handler[t]
    BY <1>0, <2>3, GotoMoves DEF MyKey
  <2> QED BY <1>0, <1>3, <1>t, <2>1, <2>2, <2>4, InsertStores, SameHook, StoreStep
<1>4. ASSUME NEW s \in Handlers, SelectOriginal(s) \/ Publish(s) PROVE StoreInv'
  <2>1. UNCHANGED <<stored, acked, faults>> /\ Goto(s, "answer")
    BY <1>4 DEF SelectOriginal, Publish
  <2>2. ~At(s, "idle") /\ ~At(s, "answer") /\ handler[s].pc \in {"original", "publish"}
    BY <1>4 DEF SelectOriginal, Publish, At
  <2>3. state' \in [Keys -> {"unpublished", "ready", "held", "delivered", "dead"}]
    BY <1>4, <1>t DEF SelectOriginal, Publish, queue
  <2>4. /\ handler' \in [Handlers -> HandlerType]
        /\ handler'[s].pc = "answer" /\ handler'[s].hook = handler[s].hook
        /\ handler'[s].event.key = MyKey(s)
        /\ \A t \in Handlers \ {s} : handler'[t] = handler[t]
    BY <1>0, <2>1, GotoMoves DEF MyKey, HandlerPC
  <2>5. MyKey(s) \in Keys /\ stored[MyKey(s)] # NoEvent
    BY <1>0, <2>2, BusyHandler DEF Progress, IsStored
  <2> QED BY <1>t, <2>1, <2>2, <2>3, <2>4, <2>5, SameHook, StoreStep
<1>5. ASSUME NEW s \in Handlers, Answer(s) PROVE StoreInv'
  <2>1. UNCHANGED <<stored, faults, state>> /\ handler' = [handler EXCEPT ![s] = Idle]
    BY <1>5 DEF Answer, queue
  <2>2. At(s, "answer") /\ acked' = [acked EXCEPT ![handler[s].hook] = TRUE]
    BY <1>5 DEF Answer
  <2>3. handler[s].hook \in Hooks
    BY <1>0, <2>2, BusyHandler DEF At
  <2>4. Ignored(Form[handler[s].hook]) \/ IsStored(KeyOf(handler[s].hook))
    BY <1>0, <2>2, BusyHandler DEF Progress, At
  <2> QED BY <1>0, <1>t, <2>1, <2>2, <2>3, <2>4, IdleMoves, StoreStep
<1>6. ASSUME NEW s \in Handlers, Abandon(s) PROVE StoreInv'
  <2>1. UNCHANGED <<stored, acked, state>> /\ handler' = [handler EXCEPT ![s] = Idle]
    BY <1>6 DEF Abandon, queue
  <2>2. faults' \in 0 .. MaxFaults
    BY <1>6, <1>t, ConstantsOK DEF Abandon, Fault, ConstantsOK
  <2> QED BY <1>0, <1>t, <2>1, <2>2, IdleMoves, StoreStep
<1>7. CASE Crash
  <2>1. UNCHANGED <<stored, acked, state>> /\ handler' = [s \in Handlers |-> Idle]
    BY <1>7 DEF Crash, queue
  <2>2. faults' \in 0 .. MaxFaults
    BY <1>7, <1>t, ConstantsOK DEF Crash, Fault, ConstantsOK
  <2>3. TypeOK'
    BY <1>t, <2>1, <2>2, IdleIsTyped DEF TypeOK, HandlerType, At
  <2>4. AnsweredIsStored'
    BY <1>0, <2>1 DEF AnsweredIsStored, IsStored
  <2>5. Progress'
    BY <2>1, IdleIsTyped DEF Progress, At
  <2> QED BY <2>3, <2>4, <2>5 DEF StoreInv
<1>8. ASSUME NEW w \in Workers, WorkerStep(w) PROVE StoreInv'
  <2>1. UNCHANGED <<stored, handler, acked, faults>>
    BY <1>8 DEF WorkerStep
  <2>2. state' \in [Keys -> {"unpublished", "ready", "held", "delivered", "dead"}]
    BY <1>0, <1>8, QueueTypes
  <2>3. TypeOK'
    BY <1>0, <2>1, <2>2 DEF TypeOK, At, MyKey
  <2>4. AnsweredIsStored'
    BY <1>0, <2>1 DEF AnsweredIsStored, IsStored
  <2>5. Progress'
    BY <1>0, <2>1 DEF Progress, At, MyKey, IsStored
  <2> QED BY <2>3, <2>4, <2>5 DEF StoreInv
<1>9. CASE UNCHANGED vars
  <2>1. UNCHANGED <<stored, handler, acked, faults, state>>
    BY <1>9 DEF vars, queue
  <2> QED BY <1>0, <2>1
    DEF StoreInv, TypeOK, AnsweredIsStored, Progress, At, MyKey, IsStored
<1> QED BY <1>1, <1>2, <1>3, <1>4, <1>5, <1>6, <1>7, <1>8, <1>9 DEF Next, HandlerStep, Send

THEOREM StoreInvariant == Spec => []StoreInv
  BY InitStore, NextStore, PTL DEF Spec

(* Every variable keeps its domain, and a handler works on its hook's      *)
(* event only.                                                             *)
THEOREM TypeCorrect == Spec => []TypeOK
<1>1. StoreInv => TypeOK
  BY DEF StoreInv
<1> QED BY <1>1, StoreInvariant, PTL

(* ingest_event: what Twilio was told is taken is in comm_events, whatever *)
(* crashes, repeats or races there are.                                    *)
THEOREM NothingIsLost == Spec => []AnsweredIsStored
<1>1. StoreInv => AnsweredIsStored
  BY DEF StoreInv
<1> QED BY <1>1, StoreInvariant, PTL

-----------------------------------------------------------------------------
(***************************************************************************)
(* Ingest is the Publish of the delivery queue.                            *)
(***************************************************************************)

(* The one handler whose INSERT made the row is the one that publishes it, *)
(* and until it does the row is out of the workers' sight.                 *)
PublishInv ==
  /\ \A k \in Keys : ~IsStored(k) => state[k] = "unpublished"
  /\ \A s \in Handlers : At(s, "publish") => state[MyKey(s)] = "unpublished"
  /\ \A s, t \in Handlers :
       At(s, "publish") /\ At(t, "publish") /\ MyKey(s) = MyKey(t) => s = t

QueueInv == StoreInv /\ PublishInv

(* The lookup leads to the INSERT and nowhere else. *)
LEMMA LookupMoves ==
  ASSUME TypeOK, NEW s \in Handlers, LookupCall(s)
  PROVE  /\ handler'[s].pc = "insert"
         /\ \A t \in Handlers \ {s} : handler'[t] = handler[t]
<1>1. MyKey(s) \in Keys
  BY BusyHandler DEF LookupCall, At
<1>2. PICK k \in Keys : JoinCall(s, k) \/ Goto(s, "insert")
  BY <1>1 DEF LookupCall, IsStored
<1>3. CASE JoinCall(s, k)
  BY <1>1, <1>3, JoinMoves
<1>4. CASE Goto(s, "insert")
  BY <1>4, GotoMoves DEF HandlerPC
<1> QED BY <1>2, <1>3, <1>4

(* What a worker does with an event it does with one that is published.    *)
LEMMA WorkerLeavesUnpublished ==
  ASSUME TypeOK, NEW w \in Workers, WorkerStep(w), NEW k \in Keys, state[k] = "unpublished"
  PROVE  state'[k] = "unpublished"
<1>1. PICK e \in Keys : Claim(w, e) \/ Deliver(w, e) \/ Bury(w, e)
  BY DEF WorkerStep
<1>2. state[e] \in {"ready", "held"} /\ \E st : state' = [state EXCEPT ![e] = st]
  BY <1>1 DEF Claim, Deliver, Bury, Queue!ClaimNext, Queue!Ack, Queue!DeadLetter, Queue!Settle
<1> QED BY <1>2 DEF TypeOK

LEMMA NextPublish == QueueInv /\ [Next]_vars => PublishInv'
<1> SUFFICES ASSUME QueueInv, [Next]_vars PROVE PublishInv'
  OBVIOUS
<1>0. TypeOK /\ Progress /\ PublishInv
  BY DEF QueueInv, StoreInv
(* No new publisher, and no change to rows or states. *)
<1>a. ASSUME UNCHANGED <<stored, state>>,
             \A s \in Handlers : handler'[s].pc = "publish" => handler'[s] = handler[s]
      PROVE  PublishInv'
  <2>1. \A k \in Keys : IsStored(k)' <=> IsStored(k)
    BY <1>a DEF IsStored
  <2>2. \A s \in Handlers : At(s, "publish")' => At(s, "publish") /\ MyKey(s)' = MyKey(s)
    BY <1>a DEF At, MyKey
  <2> QED BY <1>0, <1>a, <2>1, <2>2 DEF PublishInv
<1>1. ASSUME NEW s \in Handlers, NEW h \in Hooks, Receive(s, h) PROVE PublishInv'
  <2>1. handler'[s].pc # "publish"
    BY <1>0, <1>1, ReceiveMoves DEF FirstStep
  <2> QED BY <1>0, <1>1, <1>a, <2>1, ReceiveMoves DEF Receive, queue
<1>2. ASSUME NEW s \in Handlers, LookupCall(s) PROVE PublishInv'
  <2>1. handler'[s].pc # "publish"
    BY <1>0, <1>2, LookupMoves
  <2> QED BY <1>0, <1>2, <1>a, <2>1, LookupMoves DEF LookupCall, queue
<1>3. ASSUME NEW s \in Handlers, Insert(s) PROVE PublishInv'
  <2>0. UNCHANGED state
    BY <1>3 DEF Insert, queue
  <2>1. CASE IsStored(MyKey(s))
    <3>1. Goto(s, "original") /\ UNCHANGED stored
      BY <1>3, <2>1 DEF Insert
    <3> QED BY <1>0, <1>a, <2>0, <3>1, GotoMoves DEF HandlerPC
  <2>2. CASE ~IsStored(MyKey(s))
    <3>1. PICK pc \in HandlerPC : Goto(s, pc)
      BY <1>0, <1>3, <2>2, InsertStores DEF AfterInsert, HandlerPC
    <3>2. /\ handler'[s].event.key = MyKey(s)
          /\ \A t \in Handlers \ {s} : handler'[t] = handler[t]
      BY <1>0, <3>1, GotoMoves DEF MyKey
    <3>3. MyKey(s) \in Keys /\ state[MyKey(s)] = "unpublished"
      BY <1>0, <1>3, <2>2, InsertStores DEF PublishInv
    <3>4. \A k \in Keys : ~IsStored(k)' => ~IsStored(k)
      BY <1>0, <1>3, InsertStores DEF IsStored
    <3>5. \A t \in Handlers : At(t, "publish") => MyKey(t) # MyKey(s)
      <4>1. ASSUME NEW t \in Handlers, At(t, "publish") PROVE IsStored(MyKey(t))
        <5>1. ~At(t, "idle") /\ ~At(t, "answer")
          BY <4>1 DEF At
        <5> QED BY <1>0, <4>1, <5>1, BusyHandler DEF Progress, At
      <4> QED BY <2>2, <4>1
    <3>6. \A t \in Handlers \ {s} : At(t, "publish")' => At(t, "publish") /\ MyKey(t)' = MyKey(t)
      BY <3>2 DEF At, MyKey
    <3>7. MyKey(s)' = MyKey(s)
      BY <3>2 DEF MyKey
    <3> QED BY <1>0, <2>0, <3>3, <3>4, <3>5, <3>6, <3>7 DEF PublishInv
  <2> QED BY <2>1, <2>2
<1>4. ASSUME NEW s \in Handlers, SelectOriginal(s) PROVE PublishInv'
  <2>1. Goto(s, "answer") /\ UNCHANGED <<stored, state>>
    BY <1>4 DEF SelectOriginal, queue
  <2> QED BY <1>0, <1>a, <2>1, GotoMoves DEF HandlerPC
<1>5. ASSUME NEW s \in Handlers, Publish(s) PROVE PublishInv'
  <2>1. /\ Goto(s, "answer") /\ UNCHANGED stored /\ At(s, "publish")
        /\ state' = [state EXCEPT ![MyKey(s)] = "ready"]
    BY <1>5 DEF Publish
  <2>2. \A t \in Handlers : At(t, "publish")' =>
          t # s /\ At(t, "publish") /\ MyKey(t)' = MyKey(t)
    BY <1>0, <2>1, GotoMoves DEF HandlerPC, At, MyKey
  <2>3. IsStored(MyKey(s))
    <3>1. ~At(s, "idle") /\ ~At(s, "answer")
      BY <2>1 DEF At
    <3> QED BY <1>0, <2>1, <3>1, BusyHandler DEF Progress, At
  <2>4. \A k \in Keys : IsStored(k)' <=> IsStored(k)
    BY <2>1 DEF IsStored
  <2>5. \A k \in Keys \ {MyKey(s)} : state'[k] = state[k]
    BY <1>0, <2>1 DEF TypeOK
  <2>6. \A t \in Handlers : At(t, "publish") => MyKey(t) \in Keys
    BY <1>0 DEF Progress, IsStored, At, TypeOK, MyKey
  <2> QED BY <1>0, <2>1, <2>2, <2>3, <2>4, <2>5, <2>6 DEF PublishInv
<1>6. ASSUME NEW s \in Handlers, Answer(s) \/ Abandon(s) PROVE PublishInv'
  <2>1. handler' = [handler EXCEPT ![s] = Idle] /\ UNCHANGED <<stored, state>>
    BY <1>6 DEF Answer, Abandon, queue
  <2> QED BY <1>0, <1>a, <2>1, IdleMoves
<1>7. CASE Crash
  <2>1. handler' = [s \in Handlers |-> Idle] /\ UNCHANGED <<stored, state>>
    BY <1>7 DEF Crash, queue
  <2> QED BY <1>a, <2>1, IdleIsTyped
<1>8. ASSUME NEW w \in Workers, WorkerStep(w) PROVE PublishInv'
  <2>1. UNCHANGED <<stored, handler>>
    BY <1>8 DEF WorkerStep
  <2>2. \A k \in Keys : state[k] = "unpublished" => state'[k] = "unpublished"
    BY <1>0, <1>8, WorkerLeavesUnpublished
  <2>3. \A t \in Handlers : At(t, "publish") => MyKey(t) \in Keys
    BY <1>0 DEF Progress, IsStored, At, TypeOK, MyKey
  <2> QED BY <1>0, <2>1, <2>2, <2>3 DEF PublishInv, At, MyKey, IsStored
<1>9. CASE UNCHANGED vars
  BY <1>9, <1>a DEF vars, queue
<1> QED BY <1>1, <1>2, <1>3, <1>4, <1>5, <1>6, <1>7, <1>8, <1>9 DEF Next, HandlerStep, Send

LEMMA InitPublish == Init => PublishInv
<1> SUFFICES ASSUME Init PROVE PublishInv
  OBVIOUS
<1>1. \A k \in Keys : state[k] = "unpublished"
  BY DEF Init, Queue!Init
<1>2. \A s \in Handlers : ~At(s, "publish")
  BY IdleIsTyped DEF Init, At
<1> QED BY <1>1, <1>2 DEF PublishInv

THEOREM QueueInvariant == Spec => []QueueInv
<1>1. Init => QueueInv
  BY InitStore, InitPublish DEF QueueInv
<1>2. QueueInv /\ [Next]_vars => QueueInv'
  BY NextStore, NextPublish DEF QueueInv
<1> QED BY <1>1, <1>2, PTL DEF Spec

(* Every step is a step of the delivery queue or leaves it alone. *)
LEMMA StepRefines ==
  QueueInv /\ [Next]_vars => [Queue!Next]_(Queue!vars)
<1> SUFFICES ASSUME QueueInv, [Next]_vars PROVE Queue!Next \/ UNCHANGED queue
  BY DEF Queue!vars, queue
<1>0. TypeOK /\ Progress /\ PublishInv
  BY DEF QueueInv, StoreInv
<1>1. ASSUME NEW s \in Handlers, Publish(s) PROVE Queue!Next
  <2>1. At(s, "publish") /\ state[MyKey(s)] = "unpublished" /\ MyKey(s) \in Keys
    <3>1. At(s, "publish") /\ ~At(s, "answer") /\ ~At(s, "idle")
      BY <1>1 DEF Publish, At
    <3> QED BY <1>0, <3>1, BusyHandler DEF PublishInv
  <2>2. Queue!Publish(MyKey(s))
    BY <1>1, <2>1 DEF Publish, Queue!Publish
  <2> QED BY <2>1, <2>2 DEF Queue!Next
<1>2. ASSUME NEW w \in Workers, WorkerStep(w) PROVE Queue!Next
  <2>1. PICK k \in Keys : Claim(w, k) \/ Deliver(w, k) \/ Bury(w, k)
    BY <1>2 DEF WorkerStep
  <2>2. Queue!ClaimNext(w, k) \/ Queue!Ack(w, k) \/ Queue!DeadLetter(w, k)
    BY <2>1 DEF Claim, Deliver, Bury
  <2> QED BY <2>2 DEF Queue!Next
<1>3. ASSUME NEW s \in Handlers, NEW h \in Hooks, Receive(s, h) PROVE UNCHANGED queue
  BY <1>3 DEF Receive
<1>4. ASSUME NEW s \in Handlers,
             LookupCall(s) \/ Insert(s) \/ SelectOriginal(s) \/ Answer(s) \/ Abandon(s)
      PROVE  UNCHANGED queue
  BY <1>4 DEF LookupCall, Insert, SelectOriginal, Answer, Abandon
<1>5. CASE Crash
  BY <1>5 DEF Crash
<1>6. CASE UNCHANGED vars
  BY <1>6 DEF vars
<1> QED BY <1>1, <1>2, <1>3, <1>4, <1>5, <1>6 DEF Next, HandlerStep, Send

(* The unconditional UPDATE of publish is harmless: to the workers, ingest *)
(* with all its repeats is a queue into which each event is put once.      *)
THEOREM ImplementsQueue == Spec => QueueSpec
<1>1. Init => Queue!Init
  BY DEF Init
<1> QED BY <1>1, StepRefines, QueueInvariant, PTL DEF Spec, QueueSpec, Queue!Spec

-----------------------------------------------------------------------------
(***************************************************************************)
(* What a row is attributed to.                                            *)
(***************************************************************************)
Arriving(s) == handler[s].pc \in {"lookup", "insert"}

(* The events on their way into the table are what a row may be.           *)
SourceInv ==
  /\ SourceIsOurs
  /\ \A s \in Handlers : Arriving(s) => OurSource(handler[s].event)

JoinInv ==
  /\ RecordingJoinsItsCall
  /\ \A s \in Handlers : Form[handler[s].hook].url = "recording" =>
       /\ At(s, "lookup") => handler[s].event = Handle(Form[handler[s].hook])
       /\ At(s, "insert") => Joined(handler[s].hook, handler[s].event)

ContextInv == StoreInv /\ SourceInv /\ JoinInv

(* Each route looks our side up, in the form the registry has it.          *)
LEMMA LooksUp ==
  ASSUME NEW f
  PROVE  /\ ReceiveSms(f).source = LookUp(f.to)
         /\ ReceiveWhatsApp(f).source = LookUp(Plain[f.to])
         /\ ReceiveCall(f).source = LookUp(f.to)
         /\ SmsStatus(f).source = LookUp(f.from)
         /\ WhatsAppStatus(f).source = LookUp(Plain[f.from])
         /\ VoiceStatus(f).source = LookUp(IF f.outbound THEN f.from ELSE f.to)
<1>1. ReceiveSms(f).source = LookUp(f.to)
  BY DEF ReceiveSms, Event
<1>2. ReceiveWhatsApp(f).source = LookUp(Plain[f.to])
  BY DEF ReceiveWhatsApp, Event
<1>3. ReceiveCall(f).source = LookUp(f.to)
  BY DEF ReceiveCall, Event
<1>4. SmsStatus(f).source = LookUp(f.from)
  BY DEF SmsStatus, Event
<1>5. WhatsAppStatus(f).source = LookUp(Plain[f.from])
  BY DEF WhatsAppStatus, Event
<1>6. VoiceStatus(f).source = LookUp(IF f.outbound THEN f.from ELSE f.to)
  BY DEF VoiceStatus, Event
<1> QED BY <1>1, <1>2, <1>3, <1>4, <1>5, <1>6

LEMMA RouteSource ==
  ASSUME NEW h \in Hooks
  PROVE  Handle(Form[h]).source = SourceOf(Form[h])
<1>1. PICK f : f = Form[h]
  OBVIOUS
<1>2. NULL \notin Registered /\ f.outbound \in BOOLEAN
  BY <1>1, ConstantsOK DEF ConstantsOK
<1>3. /\ f.url \in {"sms", "whatsapp"} => ~f.outbound
      /\ f.url \in {"sms/status", "whatsapp/status"} => f.outbound
      /\ f.url \notin {"whatsapp", "whatsapp/status"} => Plain[f.from] = f.from /\ Plain[f.to] = f.to
      /\ Plain[IF f.outbound THEN f.to ELSE f.from] \notin Registered
  BY <1>1, FormsOK DEF FormsOK, OtherSide
<1>4. CASE f.url = "sms"
  <2>1. Handle(f).source = LookUp(f.to)
    BY <1>1, <1>4, Routes, LooksUp
  <2> QED BY <1>1, <1>3, <1>4, <2>1 DEF SourceOf, OurSide
<1>5. CASE f.url = "whatsapp"
  <2>1. Handle(f).source = LookUp(Plain[f.to])
    BY <1>1, <1>5, Routes, LooksUp
  <2> QED BY <1>1, <1>3, <1>5, <2>1 DEF SourceOf, OurSide
<1>6. CASE f.url = "voice"
  <2>1. Handle(f).source = LookUp(f.to)
    BY <1>1, <1>6, Routes, LooksUp
  <2>2. CASE f.outbound
    BY <1>1, <1>2, <1>3, <1>6, <2>1, <2>2 DEF SourceOf, LookUp
  <2>3. CASE ~f.outbound
    BY <1>1, <1>3, <1>6, <2>1, <2>3 DEF SourceOf, OurSide
  <2> QED BY <2>2, <2>3
<1>7. CASE f.url = "sms/status"
  <2>1. Handle(f).source = LookUp(f.from)
    BY <1>1, <1>7, Routes, LooksUp
  <2> QED BY <1>1, <1>3, <1>7, <2>1 DEF SourceOf, OurSide
<1>8. CASE f.url = "whatsapp/status"
  <2>1. Handle(f).source = LookUp(Plain[f.from])
    BY <1>1, <1>8, Routes, LooksUp
  <2> QED BY <1>1, <1>3, <1>8, <2>1 DEF SourceOf, OurSide
<1>9. CASE f.url = "voice/status"
  <2>1. Handle(f).source = LookUp(IF f.outbound THEN f.from ELSE f.to)
    BY <1>1, <1>9, Routes, LooksUp
  <2> QED BY <1>1, <1>3, <1>9, <2>1 DEF SourceOf, OurSide
<1>10. CASE f.url = "recording"
  <2>1. \E k : Handle(f) = Placeholder(k)
    BY <1>1, <1>10, Built
  <2> QED BY <1>1, <1>10, <2>1 DEF SourceOf, Placeholder
<1> QED BY <1>1, <1>4, <1>5, <1>6, <1>7, <1>8, <1>9, <1>10, RouteCases DEF Urls

LEMMA HandledSource ==
  ASSUME NEW h \in Hooks, ~Ignored(Form[h])
  PROVE  OurSource(Handle(Form[h]))
BY RouteSource, KeyFields, FormsOK DEF OurSource, FormsOK

(* What a recording takes over includes where its chain began.             *)
LEMMA SameSource ==
  ASSUME NEW e \in EventFields, NEW k, OurSource(e)
  PROVE  OurSource(Inherit(e, k))
<1>1. Inherit(e, k).correlation = e.correlation /\ Inherit(e, k).source = e.source
  BY DEF EventFields, Inherit
<1> QED BY <1>1 DEF OurSource

(* A row that is there stays there unchanged, whatever the step. *)
LEMMA RowsStay ==
  ASSUME StoreInv, [Next]_vars
  PROVE  \A k \in Keys : IsStored(k) => IsStored(k)' /\ stored'[k] = stored[k]
<1>0. TypeOK
  BY DEF StoreInv
<1>1. CASE UNCHANGED stored
  BY <1>1 DEF IsStored
<1>2. ASSUME NEW s \in Handlers, Insert(s)
      PROVE  \A k \in Keys : IsStored(k) => IsStored(k)' /\ stored'[k] = stored[k]
  BY <1>0, <1>2, InsertStores DEF IsStored
<1>3. UNCHANGED stored \/ \E s \in Handlers : Insert(s)
  BY DEF Next, Send, Receive, HandlerStep, LookupCall, SelectOriginal, Publish, Answer,
         Abandon, Crash, WorkerStep, vars
<1> QED BY <1>1, <1>2, <1>3

JoinedNext(h, e) ==
  \/ /\ CallKey(h) \in Keys /\ stored'[CallKey(h)] # NoEvent
     /\ e = Inherit(stored'[CallKey(h)], KeyOf(h))
  \/ e = Handle(Form[h]) /\ ~InOrder(h)

LEMMA JoinedStays ==
  ASSUME StoreInv, [Next]_vars, NEW h, NEW e, Joined(h, e)
  PROVE  JoinedNext(h, e)
<1>1. IsStored(CallKey(h)) => IsStored(CallKey(h))' /\ stored'[CallKey(h)] = stored[CallKey(h)]
  BY RowsStay DEF IsStored
<1> QED BY <1>1 DEF Joined, JoinedNext, IsStored

(* Once the hooks before a recording are answered, its call is stored if   *)
(* it is one of them.                                                      *)
LEMMA CallIsThere ==
  ASSUME StoreInv, NEW s \in Handlers, ~At(s, "idle"), ~IsStored(CallKey(handler[s].hook))
  PROVE  ~InOrder(handler[s].hook)
<1> DEFINE h == handler[s].hook
<1>1. h \in Hooks /\ \A g \in After[h] : acked[g] /\ g \in Hooks
  BY BusyHandler, ConstantsOK DEF StoreInv, Progress, ConstantsOK
<1>2. \A g \in After[h] : ~Ignored(Form[g]) => IsStored(KeyOf(g))
  BY <1>1 DEF StoreInv, AnsweredIsStored
<1> QED BY <1>2 DEF InOrder

(* A step that stores nothing keeps the invariant if the handlers that     *)
(* were on their way to the INSERT are as before, and a new one is right.  *)
LEMMA ContextStep ==
  ASSUME ContextInv, [Next]_vars, UNCHANGED stored,
         \A s \in Handlers : Arriving(s)' =>
           \/ handler'[s] = handler[s]
           \/ /\ OurSource(handler'[s].event)
              /\ Form[handler'[s].hook].url = "recording" =>
                   /\ handler'[s].pc = "lookup" => handler'[s].event = Handle(Form[handler'[s].hook])
                   /\ handler'[s].pc = "insert" => Joined(handler'[s].hook, handler'[s].event)
  PROVE  SourceInv' /\ JoinInv'
<1>0. StoreInv /\ SourceInv /\ JoinInv
  BY DEF ContextInv
<1>1. \A k : IsStored(k)' <=> IsStored(k)
  BY DEF IsStored
<1>2. \A h, e : Joined(h, e) => JoinedNext(h, e)
  BY <1>0, JoinedStays
<1>3. SourceInv'
  BY <1>0, <1>1 DEF SourceInv, SourceIsOurs, Arriving, OurSource
<1>4. RecordingJoinsItsCall'
  BY <1>0, <1>1, <1>2 DEF JoinInv, RecordingJoinsItsCall, Joined, JoinedNext, IsStored
<1>5. ASSUME NEW s \in Handlers, Form[handler'[s].hook].url = "recording"
      PROVE  /\ handler'[s].pc = "lookup" => handler'[s].event = Handle(Form[handler'[s].hook])
             /\ handler'[s].pc = "insert" => JoinedNext(handler'[s].hook, handler'[s].event)
  BY <1>0, <1>2, <1>5 DEF JoinInv, Arriving, At
<1> QED BY <1>3, <1>4, <1>5 DEF JoinInv, At, Joined, JoinedNext, IsStored

LEMMA ReceiveContext ==
  ASSUME ContextInv, NEW s \in Handlers, NEW h \in Hooks, Receive(s, h)
  PROVE  SourceInv' /\ JoinInv'
<1>0. StoreInv /\ TypeOK /\ [Next]_vars /\ UNCHANGED stored
  BY DEF ContextInv, StoreInv, Next, Send, Receive
<1>1. /\ handler'[s].hook = h /\ handler'[s].pc = FirstStep(Form[h])
      /\ \A t \in Handlers \ {s} : handler'[t] = handler[t]
  BY <1>0, ReceiveMoves
<1>2. ASSUME Arriving(s)'
      PROVE  /\ OurSource(handler'[s].event)
             /\ Form[h].url = "recording" =>
                  /\ handler'[s].pc = "lookup" => handler'[s].event = Handle(Form[h])
                  /\ handler'[s].pc = "insert" => Joined(h, handler'[s].event)
  <2>1. ~Ignored(Form[h])
    BY <1>1, <1>2 DEF Arriving, FirstStep
  <2>2. handler'[s].event = Handle(Form[h])
    BY <1>0, <2>1, ReceiveMoves
  <2>3. ASSUME Form[h].url = "recording", handler'[s].pc = "insert" PROVE ~InOrder(h)
    <3>1. CallKey(h).sid = NULL
      BY <1>1, <2>1, <2>3 DEF FirstStep, CallKey
    <3>2. \A g \in After[h] : ~Ignored(Form[g]) => KeyOf(g).sid # NULL
      BY KeyFields, ConstantsOK DEF ConstantsOK, Ignored
    <3> QED BY <3>1, <3>2 DEF InOrder
  <2> QED BY <2>1, <2>2, <2>3, HandledSource DEF Joined
<1> QED BY <1>0, <1>1, <1>2, ContextStep

LEMMA LookupContext ==
  ASSUME ContextInv, NEW s \in Handlers, LookupCall(s)
  PROVE  SourceInv' /\ JoinInv'
<1> DEFINE h == handler[s].hook
           k == CallKey(h)
<1>0. StoreInv /\ SourceInv /\ JoinInv /\ TypeOK
  BY DEF ContextInv, StoreInv
<1>1. [Next]_vars /\ UNCHANGED stored /\ At(s, "lookup")
  BY DEF Next, HandlerStep, LookupCall
<1>2. h \in Hooks /\ MyKey(s) = KeyOf(h) /\ MyKey(s) \in Keys /\ ~At(s, "idle")
  BY <1>0, <1>1, BusyHandler DEF At
<1>3. CASE IsStored(k)
  <2>1. k \in Keys /\ JoinCall(s, k) /\ stored[k] \in EventFields
    BY <1>0, <1>3 DEF LookupCall, IsStored, TypeOK
  <2>2. /\ handler'[s].hook = h /\ handler'[s].pc = "insert"
        /\ handler'[s].event = Inherit(stored[k], MyKey(s))
        /\ \A t \in Handlers \ {s} : handler'[t] = handler[t]
    BY <1>0, <1>2, <2>1, JoinMoves
  <2>3. OurSource(handler'[s].event)
    BY <1>0, <1>3, <2>1, <2>2, SameSource DEF SourceInv, SourceIsOurs
  <2>4. Joined(h, handler'[s].event)
    BY <1>2, <1>3, <2>2 DEF Joined
  <2> QED BY <1>1, <2>2, <2>3, <2>4, ContextStep
<1>4. CASE ~IsStored(k)
  <2>1. Goto(s, "insert")
    BY <1>4 DEF LookupCall
  <2>2. /\ handler'[s].hook = h /\ handler'[s].pc = "insert"
        /\ handler'[s].event = handler[s].event
        /\ \A t \in Handlers \ {s} : handler'[t] = handler[t]
    BY <1>0, <2>1, GotoMoves DEF HandlerPC
  <2>3. OurSource(handler'[s].event)
    BY <1>0, <1>1, <2>2 DEF SourceInv, Arriving, At
  <2>4. Form[h].url = "recording" => Joined(h, handler'[s].event)
    BY <1>0, <1>1, <1>2, <1>4, <2>2, CallIsThere DEF JoinInv, Joined
  <2> QED BY <1>1, <2>2, <2>3, <2>4, ContextStep
<1> QED BY <1>3, <1>4

LEMMA InsertContext ==
  ASSUME ContextInv, NEW s \in Handlers, Insert(s)
  PROVE  SourceInv' /\ JoinInv'
<1> DEFINE k == MyKey(s)
<1>0. StoreInv /\ SourceInv /\ JoinInv /\ TypeOK
  BY DEF ContextInv, StoreInv
<1>1. [Next]_vars /\ At(s, "insert") /\ ~At(s, "idle") /\ ~At(s, "answer")
  BY DEF Next, HandlerStep, Insert, At
<1>2. /\ handler[s].hook \in Hooks /\ k = KeyOf(handler[s].hook) /\ k \in Keys
      /\ ~Ignored(Form[handler[s].hook])
  BY <1>0, <1>1, BusyHandler
<1>3. \A t \in Handlers : Arriving(t)' => Arriving(t) /\ handler'[t] = handler[t]
  <2>1. PICK pc \in HandlerPC : Goto(s, pc) /\ pc \notin {"lookup", "insert"}
    BY <1>0, InsertStores DEF AfterInsert, HandlerPC
  <2> QED BY <1>0, <2>1, GotoMoves DEF Arriving
<1>4. CASE IsStored(k)
  <2>1. UNCHANGED stored
    BY <1>4 DEF Insert
  <2> QED BY <1>1, <1>3, <2>1, ContextStep
<1>5. CASE ~IsStored(k)
  <2>1. stored'[k] = handler[s].event /\ \A j \in Keys \ {k} : stored'[j] = stored[j]
    BY <1>0, <1>5, InsertStores
  <2>2. \A h, e : Joined(h, e) => JoinedNext(h, e)
    BY <1>0, <1>1, JoinedStays
  <2>3. ASSUME NEW j \in Keys, IsStored(j)' PROVE OurSource(stored'[j])
    <3>1. CASE j = k
      BY <1>0, <1>1, <2>1, <3>1 DEF SourceInv, Arriving, At
    <3>2. CASE j # k
      BY <1>0, <2>1, <2>3, <3>2 DEF SourceInv, SourceIsOurs, IsStored
    <3> QED BY <3>1, <3>2
  <2>4. ASSUME NEW h \in Hooks, Form[h].url = "recording", ~Ignored(Form[h]), IsStored(KeyOf(h))'
        PROVE  JoinedNext(h, stored'[KeyOf(h)])
    <3>1. KeyOf(h) \in Keys
      BY <2>4 DEF IsStored
    <3>2. CASE KeyOf(h) = k
      <4>1. h = handler[s].hook
        BY <1>2, <2>4, <3>2, FormsOK DEF FormsOK
      <4>2. Joined(h, stored'[KeyOf(h)])
        BY <1>0, <1>1, <2>1, <2>4, <3>2, <4>1 DEF JoinInv
      <4> QED BY <2>2, <4>2
    <3>3. CASE KeyOf(h) # k
      <4>1. IsStored(KeyOf(h)) /\ stored'[KeyOf(h)] = stored[KeyOf(h)]
        BY <2>1, <2>4, <3>1, <3>3 DEF IsStored
      <4>2. Joined(h, stored'[KeyOf(h)])
        BY <1>0, <2>4, <4>1 DEF JoinInv, RecordingJoinsItsCall
      <4> QED BY <2>2, <4>2
    <3> QED BY <3>2, <3>3
  <2>5. SourceInv'
    BY <1>0, <1>3, <2>3 DEF SourceInv, SourceIsOurs, OurSource
  <2>6. RecordingJoinsItsCall'
    BY <2>4 DEF RecordingJoinsItsCall, Joined, JoinedNext, IsStored
  <2>7. ASSUME NEW t \in Handlers, Form[handler'[t].hook].url = "recording"
        PROVE  /\ handler'[t].pc = "lookup" => handler'[t].event = Handle(Form[handler'[t].hook])
               /\ handler'[t].pc = "insert" => JoinedNext(handler'[t].hook, handler'[t].event)
    BY <1>0, <1>3, <2>2, <2>7 DEF JoinInv, Arriving, At
  <2> QED BY <2>5, <2>6, <2>7 DEF JoinInv, At, Joined, JoinedNext, IsStored
<1> QED BY <1>4, <1>5

LEMMA InitContext == Init => SourceInv /\ JoinInv
<1> SUFFICES ASSUME Init PROVE SourceInv /\ JoinInv
  OBVIOUS
<1>1. \A k : ~IsStored(k)
  BY DEF Init, IsStored
<1>2. \A s \in Handlers : handler[s].pc = "idle"
  BY IdleIsTyped DEF Init
<1> QED BY <1>1, <1>2
    DEF SourceInv, SourceIsOurs, JoinInv, RecordingJoinsItsCall, Arriving, At

LEMMA NextContext == ContextInv /\ [Next]_vars => SourceInv' /\ JoinInv'
<1> SUFFICES ASSUME ContextInv, [Next]_vars PROVE SourceInv' /\ JoinInv'
  OBVIOUS
<1>0. TypeOK
  BY DEF ContextInv, StoreInv
<1>1. ASSUME NEW s \in Handlers, SelectOriginal(s) \/ Publish(s) PROVE SourceInv' /\ JoinInv'
  <2>1. UNCHANGED stored /\ Goto(s, "answer")
    BY <1>1 DEF SelectOriginal, Publish
  <2> QED BY <1>0, <2>1, GotoMoves, ContextStep DEF HandlerPC, Arriving
<1>2. ASSUME NEW s \in Handlers, Answer(s) \/ Abandon(s) PROVE SourceInv' /\ JoinInv'
  <2>1. UNCHANGED stored /\ handler' = [handler EXCEPT ![s] = Idle]
    BY <1>2 DEF Answer, Abandon
  <2> QED BY <1>0, <2>1, IdleMoves, ContextStep DEF Arriving
<1>3. CASE Crash
  <2>1. UNCHANGED stored /\ \A s \in Handlers : handler'[s].pc = "idle"
    BY <1>3, IdleIsTyped DEF Crash
  <2> QED BY <2>1, ContextStep DEF Arriving
<1>4. CASE UNCHANGED <<stored, handler>>
  BY <1>4, ContextStep
<1>5. \/ \E s \in Handlers, h \in Hooks : Receive(s, h)
      \/ \E s \in Handlers : LookupCall(s) \/ Insert(s)
      \/ \E s \in Handlers : SelectOriginal(s) \/ Publish(s) \/ Answer(s) \/ Abandon(s)
      \/ Crash
      \/ UNCHANGED <<stored, handler>>
  BY DEF Next, Send, HandlerStep, WorkerStep, vars
<1> QED BY <1>1, <1>2, <1>3, <1>4, <1>5, ReceiveContext, LookupContext, InsertContext

THEOREM ContextInvariant == Spec => []ContextInv
<1>1. Init => ContextInv
  BY InitStore, InitContext DEF ContextInv
<1>2. ContextInv /\ [Next]_vars => ContextInv'
  BY NextStore, NextContext DEF ContextInv
<1> QED BY <1>1, <1>2, PTL DEF Spec

(* voice_recording_ready: a recording never carries the numbers or the     *)
(* correlation id of another call, and has its own unless it came first.   *)
THEOREM RecordingsJoin == Spec => []RecordingJoinsItsCall
<1>1. ContextInv => RecordingJoinsItsCall
  BY DEF ContextInv, JoinInv
<1> QED BY <1>1, ContextInvariant, PTL

(* Every route asks resolve_source for our side in the form the registry   *)
(* has it, and what a recording inherits is the answer its call got.       *)
THEOREM SourcesAreOurs == Spec => []SourceIsOurs
<1>1. ContextInv => SourceIsOurs
  BY DEF ContextInv, SourceInv
<1> QED BY <1>1, ContextInvariant, PTL
=============================================================================
