------------------------- MODULE DeliveryCallerProofs -------------------------
(***************************************************************************)
(* What a caller finds in HubSpot.  The log keeps every delivered event    *)
(* while no two processes work for one caller at the same time, be it that *)
(* there is one worker or that the caller's events come far enough apart;  *)
(* a caller's only event is in it once.  Duplicate notes, tasks and tickets *)
(* cost a fault each, so without faults there is one of each; one contact  *)
(* and one open ticket per caller need both.                               *)
(***************************************************************************)
EXTENDS DeliveryRecordProofs, FiniteSetTheorems

OneCallerAtATime ==
  \A v, w \in Workers :
    ~At(v, "poll") /\ ~At(w, "poll") /\ PhoneOf[MyRow(v)] = PhoneOf[MyRow(w)] => v = w

(* No entry occurs twice; a block occurs at the top or nowhere.            *)
Once(log)       == \A i, j \in DOMAIN log : log[i] = log[j] => i = j
TopOnly(log, e) == \A i \in DOMAIN log : log[i] = Block[e] => i = 1

SoleEvents == \A e, f \in Events : PhoneOf[e] = PhoneOf[f] /\ PhoneOf[e] # NoPhone => e = f

(* The contacts HubSpot starts with.                                       *)
KnownLogsOnce == \A c \in DOMAIN KnownContacts :
  /\ Once(KnownContacts[c].log)
  /\ \A e \in Events : KnownContacts[c].phone = PhoneOf[e] => TopOnly(KnownContacts[c].log, e)

CallersUnlogged == \A c \in DOMAIN KnownContacts : \A e \in Events :
                     KnownContacts[c].phone = PhoneOf[e] => KnownContacts[c].log = <<>>

KnownContactsFound ==
  \A c, d \in DOMAIN KnownContacts :
    KnownContacts[c].indexed /\ (KnownContacts[c].phone = KnownContacts[d].phone => c = d)

-----------------------------------------------------------------------------
(***************************************************************************)
(* The steps of a process in hand, field by field: where the process goes  *)
(* and what its message carries there.                                     *)
(***************************************************************************)
Kept(w) ==
  /\ worker'[w].event = worker[w].event /\ worker'[w].contact = worker[w].contact
  /\ worker'[w].ticket = worker[w].ticket /\ worker'[w].log = worker[w].log

Failed(w) == Kept(w) /\ worker'[w].pc \in {"nack", "dead"}

FaultStrikes == faults < MaxFaults /\ faults' = faults + 1

Lost(w) == Failed(w) /\ FaultStrikes

Goes(w, pc) == Kept(w) /\ worker'[w].pc = pc

LEMMA GotoGoes ==
  ASSUME TypeInv, NEW w \in Workers, NEW pc, Goto(w, pc)
  PROVE  Goes(w, pc)
BY DEF TypeInv, TypeOK, Message, Goto, Goes, Kept

LEMMA AnsweredGoes ==
  ASSUME TypeInv, NEW w \in Workers, NEW n, Answered(w, n)
  PROVE  worker'[w] = n \/ Lost(w)
<1>1. CASE worker' = [worker EXCEPT ![w] = n]
  BY <1>1 DEF TypeInv, TypeOK
<1>2. CASE FaultStrikes /\ Goto(w, "nack")
  BY <1>2, GotoGoes DEF Goes, Failed, Lost
<1> QED
  BY <1>1, <1>2 DEF Answered, FaultStrikes

LEMMA ContactSteps ==
  ASSUME TypeInv, NEW w \in Workers
  PROVE  /\ Begin(w) => Failed(w) \/ Goes(w, FirstPhase(worker[w]))
         /\ LookupContact(w) =>
              \/ /\ Goes(w, "search")
                 /\ \A f \in Events : PhoneOf[f] = PhoneOf[MyRow(w)] => row[f].contact = NULL
              \/ worker'[w].pc = "saveFound" /\ worker'[w].log = worker[w].log
         /\ SearchContact(w) =>
              \/ /\ Goes(w, "create")
                 /\ \A c \in DOMAIN contacts :
                      contacts[c].phone = PhoneOf[MyRow(w)] => ~contacts[c].indexed
              \/ worker'[w].pc = "saveMade" /\ worker'[w].log = worker[w].log
         /\ CreateContact(w) =>
              \/ Lost(w)
              \/ /\ worker'[w].pc = "saveMade" /\ worker'[w].log = worker[w].log
                 /\ worker'[w].contact = Len(contacts) + 1
         /\ SaveContact(w) =>
              Goes(w, IF At(w, "saveFound") THEN "getLog" ELSE "patch")
<1>0. worker \in [Workers -> Message] /\ worker[w] \in Message
  BY DEF TypeInv, TypeOK
<1>1. Begin(w) => Failed(w) \/ Goes(w, FirstPhase(worker[w]))
  BY GotoGoes DEF Begin, Failed, Goes
<1>2. ASSUME LookupContact(w)
      PROVE  \/ /\ Goes(w, "search")
                /\ \A f \in Events : PhoneOf[f] = PhoneOf[MyRow(w)] => row[f].contact = NULL
             \/ worker'[w].pc = "saveFound" /\ worker'[w].log = worker[w].log
  <2>1. ASSUME NEW c, worker' = [worker EXCEPT ![w].contact = c, ![w].pc = "saveFound"]
        PROVE  worker'[w].pc = "saveFound" /\ worker'[w].log = worker[w].log
    BY <1>0, <2>1 DEF Message
  <2> QED
    BY <1>2, <2>1, GotoGoes DEF LookupContact
<1>3. ASSUME SearchContact(w)
      PROVE  \/ /\ Goes(w, "create")
                /\ \A c \in DOMAIN contacts :
                     contacts[c].phone = PhoneOf[MyRow(w)] => ~contacts[c].indexed
             \/ worker'[w].pc = "saveMade" /\ worker'[w].log = worker[w].log
  <2>1. ASSUME NEW c, worker' = [worker EXCEPT ![w].contact = c, ![w].pc = "saveMade"]
        PROVE  worker'[w].pc = "saveMade" /\ worker'[w].log = worker[w].log
    BY <1>0, <2>1 DEF Message
  <2> QED
    BY <1>3, <2>1, GotoGoes DEF SearchContact
<1>4. ASSUME CreateContact(w)
      PROVE  \/ Lost(w)
             \/ /\ worker'[w].pc = "saveMade" /\ worker'[w].log = worker[w].log
                /\ worker'[w].contact = Len(contacts) + 1
  <2> DEFINE n == [worker[w] EXCEPT !.contact = Len(contacts) + 1, !.pc = "saveMade"]
  <2>1. n.pc = "saveMade" /\ n.log = worker[w].log /\ n.contact = Len(contacts) + 1
    BY <1>0 DEF Message
  <2>2. Answered(w, n)
    BY <1>4 DEF CreateContact
  <2> HIDE DEF n
  <2> QED
    BY <2>1, <2>2, AnsweredGoes
<1>5. SaveContact(w) => Goes(w, IF At(w, "saveFound") THEN "getLog" ELSE "patch")
  BY GotoGoes DEF SaveContact
<1> QED
  BY <1>1, <1>2, <1>3, <1>4, <1>5

LEMMA LogSteps ==
  ASSUME TypeInv, NEW w \in Workers
  PROVE  /\ GetContactLog(w) =>
              /\ worker'[w].pc = "patch" /\ worker'[w].contact = worker[w].contact
              /\ worker[w].contact \in DOMAIN contacts
              /\ worker'[w].log = contacts[worker[w].contact].log
         /\ UpdateContact(w) =>
              \/ Lost(w)
              \/ /\ worker'[w].pc = AfterPatch(worker[w])
                 /\ worker'[w].contact = worker[w].contact /\ worker'[w].log = <<>>
<1>0. worker \in [Workers -> Message] /\ worker[w] \in Message
  BY DEF TypeInv, TypeOK
<1>1. ASSUME GetContactLog(w)
      PROVE  /\ worker'[w].pc = "patch" /\ worker'[w].contact = worker[w].contact
             /\ worker[w].contact \in DOMAIN contacts
             /\ worker'[w].log = contacts[worker[w].contact].log
  <2>1. worker[w].contact \in DOMAIN contacts
    BY <1>1, HeldMessageIsGood, PCFacts DEF GetContactLog, At, GoodMessage, TypeInv, TypeOK, NULL
  <2>2. PICK l : l = contacts[worker[w].contact].log
    OBVIOUS
  <2>3. worker' = [worker EXCEPT ![w].log = l, ![w].pc = "patch"]
    BY <1>1, <2>2 DEF GetContactLog
  <2>4. worker'[w].pc = "patch" /\ worker'[w].log = l /\ worker'[w].contact = worker[w].contact
    BY <1>0, <2>3 DEF Message
  <2> QED
    BY <2>1, <2>2, <2>4
<1>2. ASSUME UpdateContact(w)
      PROVE  \/ Lost(w)
             \/ /\ worker'[w].pc = AfterPatch(worker[w])
                /\ worker'[w].contact = worker[w].contact /\ worker'[w].log = <<>>
  <2> DEFINE n == [worker[w] EXCEPT !.log = <<>>, !.pc = AfterPatch(worker[w])]
  <2>1. n.pc = AfterPatch(worker[w]) /\ n.contact = worker[w].contact /\ n.log = <<>>
    BY <1>0 DEF Message
  <2>2. Answered(w, n)
    BY <1>2 DEF UpdateContact
  <2> HIDE DEF n
  <2> QED
    BY <2>1, <2>2, AnsweredGoes
<1> QED
  BY <1>1, <1>2

LEMMA RecordSteps ==
  ASSUME TypeInv, NEW w \in Workers
  PROVE  /\ CreateNote(w) => Lost(w) \/ Goes(w, "saveNote")
         /\ SaveNote(w) => Goes(w, AfterNote(worker[w]))
         /\ PriorTicket(w) =>
              \/ /\ Goes(w, "createTicket")
                 /\ \A f \in Events : PhoneOf[f] = PhoneOf[MyRow(w)] => row[f].ticket = NULL
              \/ worker'[w].pc = "getTicket" /\ worker'[w].log = worker[w].log
         /\ GetTicket(w) =>
              \/ Goes(w, "saveTicket") /\ tickets[worker[w].ticket].open
              \/ Goes(w, "createTicket") /\ ~tickets[worker[w].ticket].open
         /\ CreateTicket(w) =>
              \/ Lost(w)
              \/ /\ worker'[w].pc = "saveTicket" /\ worker'[w].log = worker[w].log
                 /\ worker'[w].ticket = Len(tickets) + 1
         /\ SaveTicket(w) =>
              Goes(w, IF worker[w].reused THEN "ticketNote" ELSE AfterTicket(worker[w]))
         /\ TicketNote(w) => Goes(w, AfterTicket(worker[w]))
         /\ CreateTask(w) => Lost(w) \/ Goes(w, "saveTask")
         /\ SaveTask(w) => Goes(w, "ack")
         /\ TransientError(w) \/ PermanentError(w) => Failed(w)
<1>0. worker \in [Workers -> Message] /\ worker[w] \in Message
  BY DEF TypeInv, TypeOK
<1>1. ASSUME NEW pc, Answered(w, [worker[w] EXCEPT !.pc = pc])
      PROVE  Lost(w) \/ Goes(w, pc)
  <2> DEFINE n == [worker[w] EXCEPT !.pc = pc]
  <2>1. /\ n.pc = pc /\ n.event = worker[w].event /\ n.contact = worker[w].contact
        /\ n.ticket = worker[w].ticket /\ n.log = worker[w].log
    BY <1>0 DEF Message
  <2>2. Answered(w, n)
    BY <1>1
  <2> HIDE DEF n
  <2> QED
    BY <2>1, <2>2, AnsweredGoes DEF Goes, Kept
<1>2. CreateNote(w) => Lost(w) \/ Goes(w, "saveNote")
  BY <1>1 DEF CreateNote
<1>3. CreateTask(w) => Lost(w) \/ Goes(w, "saveTask")
  BY <1>1 DEF CreateTask
<1>4. /\ SaveNote(w) => Goes(w, AfterNote(worker[w]))
      /\ SaveTicket(w) =>
           Goes(w, IF worker[w].reused THEN "ticketNote" ELSE AfterTicket(worker[w]))
      /\ TicketNote(w) => Goes(w, AfterTicket(worker[w]))
      /\ SaveTask(w) => Goes(w, "ack")
  BY GotoGoes DEF SaveNote, SaveTicket, TicketNote, SaveTask
<1>5. TransientError(w) \/ PermanentError(w) => Failed(w)
  BY GotoGoes DEF TransientError, PermanentError, Failed, Goes
<1>6. ASSUME PriorTicket(w)
      PROVE  \/ /\ Goes(w, "createTicket")
                /\ \A f \in Events : PhoneOf[f] = PhoneOf[MyRow(w)] => row[f].ticket = NULL
             \/ worker'[w].pc = "getTicket" /\ worker'[w].log = worker[w].log
  <2>1. ASSUME NEW t, worker' = [worker EXCEPT ![w].ticket = t, ![w].pc = "getTicket"]
        PROVE  worker'[w].pc = "getTicket" /\ worker'[w].log = worker[w].log
    BY <1>0, <2>1 DEF Message
  <2> QED
    BY <1>6, <2>1, GotoGoes DEF PriorTicket
<1>7. ASSUME GetTicket(w)
      PROVE  \/ Goes(w, "saveTicket") /\ tickets[worker[w].ticket].open
             \/ Goes(w, "createTicket") /\ ~tickets[worker[w].ticket].open
  <2>1. CASE worker' = [worker EXCEPT ![w].reused = TRUE, ![w].pc = "saveTicket"]
    <3>1. Goes(w, "saveTicket")
      BY <1>0, <2>1 DEF Message, Goes, Kept
    <3>2. CASE tickets[worker[w].ticket].open
      BY <3>1, <3>2
    <3>3. CASE ~tickets[worker[w].ticket].open
      <4>1. Goto(w, "createTicket")
        BY <1>7, <3>3 DEF GetTicket
      <4> QED
        BY <3>3, <4>1, GotoGoes
    <3> QED
      BY <3>2, <3>3
  <2>2. CASE ~tickets[worker[w].ticket].open /\ Goto(w, "createTicket")
    BY <2>2, GotoGoes
  <2>3. CASE tickets[worker[w].ticket].open
             /\ worker' = [worker EXCEPT ![w].reused = TRUE, ![w].pc = "saveTicket"]
    BY <2>1, <2>3
  <2> QED
    BY <1>7, <2>2, <2>3 DEF GetTicket
<1>8. ASSUME CreateTicket(w)
      PROVE  \/ Lost(w)
             \/ /\ worker'[w].pc = "saveTicket" /\ worker'[w].log = worker[w].log
                /\ worker'[w].ticket = Len(tickets) + 1
  <2> DEFINE n == [worker[w] EXCEPT !.ticket = Len(tickets) + 1, !.pc = "saveTicket"]
  <2>1. n.pc = "saveTicket" /\ n.log = worker[w].log /\ n.ticket = Len(tickets) + 1
    BY <1>0 DEF Message
  <2>2. Answered(w, n)
    BY <1>8 DEF CreateTicket
  <2> HIDE DEF n
  <2> QED
    BY <2>1, <2>2, AnsweredGoes
<1> QED
  BY <1>2, <1>3, <1>4, <1>5, <1>6, <1>7, <1>8

(* The steps that are not work: what the rows and HubSpot hold is kept but *)
(* for the search index and the closed tickets, a process goes on, lets go *)
(* or takes up a claim, and only an ack makes an event delivered.          *)
LEMMA OtherSteps ==
  ASSUME TypeInv, [Next]_vars, \A w \in Workers : ~Working(w)
  PROVE  /\ \A e \in Events : SameIds(row[e], row'[e])
         /\ UNCHANGED made
         /\ DOMAIN contacts' = DOMAIN contacts
         /\ \A c \in DOMAIN contacts :
              /\ contacts'[c].phone = contacts[c].phone /\ contacts'[c].log = contacts[c].log
              /\ contacts[c].indexed => contacts'[c].indexed
         /\ DOMAIN tickets' = DOMAIN tickets
         /\ \A t \in DOMAIN tickets :
              /\ tickets'[t].event = tickets[t].event /\ (~tickets[t].open => ~tickets'[t].open)
         /\ \A w \in Workers : \/ worker'[w] = worker[w]
                               \/ worker'[w] = Idle
                               \/ \E e \in Events : worker'[w] = Snapshot(e)
         /\ \A w \in Workers : worker'[w] # worker[w] =>
              At(w, "poll") \/ worker[w].pc \in Outcome \/ FaultStrikes
         /\ \A v, w \in Workers : worker'[v] # worker[v] /\ worker'[w] # worker[w] => v = w
         /\ faults' = faults \/ FaultStrikes
         /\ \A e \in Events : row'[e].status = "delivered" =>
              \/ row[e].status = "delivered"
              \/ \E w \in Workers : At(w, "ack") /\ Holds(w, e)
<1> DEFINE Goal == /\ \A e \in Events : SameIds(row[e], row'[e])
                   /\ UNCHANGED made
                   /\ DOMAIN contacts' = DOMAIN contacts
                   /\ \A c \in DOMAIN contacts :
                        /\ contacts'[c].phone = contacts[c].phone
                        /\ contacts'[c].log = contacts[c].log
                        /\ contacts[c].indexed => contacts'[c].indexed
                   /\ DOMAIN tickets' = DOMAIN tickets
                   /\ \A t \in DOMAIN tickets :
                        /\ tickets'[t].event = tickets[t].event
                        /\ ~tickets[t].open => ~tickets'[t].open
                   /\ \A w \in Workers : \/ worker'[w] = worker[w]
                                         \/ worker'[w] = Idle
                                         \/ \E e \in Events : worker'[w] = Snapshot(e)
                   /\ \A w \in Workers : worker'[w] # worker[w] =>
                        At(w, "poll") \/ worker[w].pc \in Outcome \/ FaultStrikes
                   /\ \A v, w \in Workers :
                        worker'[v] # worker[v] /\ worker'[w] # worker[w] => v = w
                   /\ faults' = faults \/ FaultStrikes
                   /\ \A e \in Events : row'[e].status = "delivered" =>
                        \/ row[e].status = "delivered"
                        \/ \E w \in Workers : At(w, "ack") /\ Holds(w, e)
<1>0. /\ row \in [Events -> Row] /\ worker \in [Workers -> Message]
      /\ contacts \in Seq(ContactRecord) /\ tickets \in Seq([event : Events, open : BOOLEAN])
  BY DEF TypeInv, TypeOK
<1>1. ASSUME NEW w \in Workers, NEW e \in Events, Claim(w, e) PROVE Goal
  <2>1. /\ row' = [row EXCEPT ![e].attempts = @ + 1, ![e].retry = "lease"]
        /\ worker' = [worker EXCEPT ![w] = Snapshot(e)] /\ UNCHANGED <<hubspot, faults>> /\ At(w, "poll")
    BY <1>1 DEF Claim, bounds
  <2>2. \A f \in Events : SameIds(row[f], row'[f]) /\ row'[f].status = row[f].status
    BY <1>0, <2>1 DEF Row, SameIds
  <2> QED
    BY <1>0, <2>1, <2>2 DEF hubspot
<1>2. ASSUME NEW w \in Workers, Ack(w) \/ Nack(w) \/ DeadLetter(w) PROVE Goal
  <2>1. PICK pc, st, until : /\ Finish(w, pc, st, until) /\ pc \in Outcome
                             /\ st = "delivered" => pc = "ack"
    BY <1>2 DEF Ack, Nack, DeadLetter, Outcome
  <2>2. /\ row' = [row EXCEPT ![MyRow(w)].status = st, ![MyRow(w)].retry = until]
        /\ worker' = [worker EXCEPT ![w] = Idle] /\ UNCHANGED <<hubspot, faults>> /\ worker[w].pc = pc
    BY <2>1 DEF Finish, At, bounds
  <2>3. \A f \in Events : /\ SameIds(row[f], row'[f])
                          /\ row'[f].status # row[f].status => f = MyRow(w) /\ row'[f].status = st
    BY <1>0, <2>2 DEF Row, SameIds
  <2>4. ASSUME NEW f \in Events, row'[f].status = "delivered", row[f].status # "delivered"
        PROVE  At(w, "ack") /\ Holds(w, f)
    BY <2>1, <2>2, <2>3, <2>4 DEF At, Holds, MyRow
  <2> QED
    BY <1>0, <2>1, <2>2, <2>3, <2>4 DEF hubspot
<1>3. ASSUME NEW w \in Workers, Abandon(w) PROVE Goal
  BY <1>0, <1>3 DEF Abandon, SameIds, hubspot, FaultStrikes
<1>4. ASSUME Replay \/ \E e \in Events : Publish(e) \/ LeaseExpires(e) \/ BackoffElapses(e)
      PROVE  Goal
  <2>1. UNCHANGED <<worker, hubspot, faults>>
    BY <1>4 DEF Replay, Publish, LeaseExpires, BackoffElapses, bounds
  <2>2. \A f \in Events : /\ SameIds(row[f], row'[f])
                          /\ row'[f].status = "delivered" => row[f].status = "delivered"
    <3>1. CASE Replay
      BY <1>0, <3>1 DEF Replay, Row, SameIds
    <3>2. ASSUME NEW e \in Events, Publish(e) \/ LeaseExpires(e) \/ BackoffElapses(e)
          PROVE  \A f \in Events : /\ SameIds(row[f], row'[f])
                                   /\ row'[f].status = "delivered" => row[f].status = "delivered"
      <4>1. \/ row' = [row EXCEPT ![e].status = "pending"]
            \/ row' = [row EXCEPT ![e].retry = "none"]
        BY <3>2 DEF Publish, LeaseExpires, BackoffElapses
      <4>2. CASE row' = [row EXCEPT ![e].status = "pending"]
        BY <1>0, <4>2 DEF Row, SameIds
      <4>3. CASE row' = [row EXCEPT ![e].retry = "none"]
        BY <1>0, <4>3 DEF Row, SameIds
      <4> QED
        BY <4>1, <4>2, <4>3
    <3> QED
      BY <1>4, <3>1, <3>2
  <2> QED
    BY <2>1, <2>2 DEF hubspot
<1>5. ASSUME NEW c \in DOMAIN contacts, IndexCatchesUp(c) PROVE Goal
  <2>1. contacts' = [contacts EXCEPT ![c].indexed = TRUE] /\ UNCHANGED <<row, worker, tickets, made, faults>>
    BY <1>5 DEF IndexCatchesUp, bounds
  <2>2. /\ DOMAIN contacts' = DOMAIN contacts
        /\ \A d \in DOMAIN contacts :
             /\ contacts'[d].phone = contacts[d].phone /\ contacts'[d].log = contacts[d].log
             /\ contacts[d].indexed => contacts'[d].indexed
    BY <1>0, <2>1 DEF ContactRecord
  <2> QED
    BY <2>1, <2>2 DEF SameIds
<1>6. ASSUME NEW t \in DOMAIN tickets, TicketCloses(t) PROVE Goal
  <2>1. tickets' = [tickets EXCEPT ![t].open = FALSE] /\ UNCHANGED <<row, worker, contacts, made, faults>>
    BY <1>6 DEF TicketCloses, bounds
  <2>2. /\ DOMAIN tickets' = DOMAIN tickets
        /\ \A s \in DOMAIN tickets :
             /\ tickets'[s].event = tickets[s].event
             /\ ~tickets[s].open => ~tickets'[s].open
    BY <1>0, <2>1
  <2> QED
    BY <2>1, <2>2 DEF SameIds
<1>7. ASSUME UNCHANGED vars \/ \E e \in Events : GateOpens(e) PROVE Goal
  BY <1>7 DEF GateOpens, vars, hubspot, bounds, SameIds
<1>8. \A w \in Workers : Step(w) =>
        (\E e \in Events : Claim(w, e)) \/ Ack(w) \/ Nack(w) \/ DeadLetter(w)
  BY DEF Step, ClaimNext, Working
<1> QED
  BY <1>1, <1>2, <1>3, <1>4, <1>5, <1>6, <1>7, <1>8 DEF Next

-----------------------------------------------------------------------------
(* Where a message's log comes from.                                       *)
LEMMA MessageLogs ==
  ASSUME TypeInv, [Next]_vars, NEW w \in Workers
  PROVE  \/ worker'[w].event = worker[w].event /\ worker'[w].log = worker[w].log
         \/ worker'[w].log = <<>>
         \/ /\ worker'[w].event = worker[w].event /\ worker[w].contact \in DOMAIN contacts
            /\ worker'[w].log = contacts[worker[w].contact].log
<1>1. ASSUME NEW v \in Workers, Working(v), v # w PROVE worker'[w] = worker[w]
  BY <1>1, WorkIsLocal
<1>2. CASE Working(w)
  <2>1. worker'[w].event = worker[w].event
    BY <1>2, WorkKeepsHolders DEF SameHolders
  <2> QED
    BY <1>2, <2>1, ContactSteps, LogSteps, RecordSteps DEF Working, Goes, Lost, Failed, Kept
<1>3. CASE \A v \in Workers : ~Working(v)
  <2>1. Idle.log = <<>> /\ \A e \in Events : Snapshot(e).log = <<>>
    BY DEF Idle, Snapshot
  <2> QED
    BY <1>3, <2>1, OtherSteps
<1> QED
  BY <1>1, <1>2, <1>3

(* While each caller has one event, that event's block is on top of every  *)
(* log it is about to be written to, or not in it.                         *)
OnceInv ==
  /\ \A c \in DOMAIN contacts :
       /\ Once(contacts[c].log)
       /\ \A e \in Events : contacts[c].phone = PhoneOf[e] => TopOnly(contacts[c].log, e)
  /\ \A w \in Workers : ~At(w, "poll") =>
       Once(worker[w].log) /\ TopOnly(worker[w].log, MyRow(w))

(* A contact's log is changed by a PATCH alone, and a new contact has none. *)
LEMMA HubspotLogs ==
  ASSUME TypeInv, [Next]_vars, NEW c \in DOMAIN contacts'
  PROVE  \/ c \in DOMAIN contacts /\ contacts'[c].log = contacts[c].log
         \/ c \notin DOMAIN contacts /\ contacts'[c].log = <<>>
         \/ \E w \in Workers :
              /\ UpdateContact(w) /\ c \in DOMAIN contacts /\ c = worker[w].contact
              /\ contacts'[c].log = Prepended(worker[w].log, MyRow(w))
<1>0. contacts \in Seq(ContactRecord)
  BY DEF TypeInv, TypeOK
<1>1. CASE UNCHANGED contacts
  BY <1>1
<1>2. ASSUME NEW w \in Workers, CreateContact(w)
      PROVE  \/ c \in DOMAIN contacts /\ contacts'[c].log = contacts[c].log
             \/ c \notin DOMAIN contacts /\ contacts'[c].log = <<>>
  <2>1. PICK d : d = [phone |-> PhoneOf[MyRow(w)], log |-> <<>>, indexed |-> FALSE]
    OBVIOUS
  <2>2. contacts' = Append(contacts, d) /\ d.log = <<>>
    BY <1>2, <2>1 DEF CreateContact
  <2> QED
    BY <1>0, <2>2
<1>3. ASSUME NEW w \in Workers, UpdateContact(w)
      PROVE  \/ c \in DOMAIN contacts /\ contacts'[c].log = contacts[c].log
             \/ /\ c \in DOMAIN contacts /\ c = worker[w].contact
                /\ contacts'[c].log = Prepended(worker[w].log, MyRow(w))
  BY <1>0, <1>3 DEF UpdateContact, ContactRecord
<1>4. ASSUME NEW d \in DOMAIN contacts, IndexCatchesUp(d)
      PROVE  c \in DOMAIN contacts /\ contacts'[c].log = contacts[c].log
  BY <1>0, <1>4 DEF IndexCatchesUp, ContactRecord
<1>5. ASSUME NEW w \in Workers, Step(w)
      PROVE  UNCHANGED contacts \/ CreateContact(w) \/ UpdateContact(w)
  BY <1>5 DEF Step, ClaimNext, Claim, Begin, LookupContact, SearchContact, SaveContact,
     GetContactLog, CreateNote, SaveNote, PriorTicket, GetTicket, CreateTicket, SaveTicket,
     TicketNote, CreateTask, SaveTask, TransientError, PermanentError, Ack, Nack, DeadLetter,
     Finish, hubspot
<1>6. ASSUME \/ \E e \in Events : Publish(e) \/ GateOpens(e) \/ LeaseExpires(e) \/ BackoffElapses(e)
             \/ \E w \in Workers : Abandon(w)
             \/ \E t \in DOMAIN tickets : TicketCloses(t)
             \/ Replay
             \/ UNCHANGED vars
      PROVE  UNCHANGED contacts
  BY <1>6 DEF Publish, GateOpens, LeaseExpires, BackoffElapses, Abandon, TicketCloses, Replay,
     vars, hubspot
<1> QED
  BY <1>1, <1>2, <1>3, <1>4, <1>5, <1>6 DEF Next

(* What build_hubspot_properties makes of a log.                           *)
LEMMA PrependedLog ==
  ASSUME NEW log \in Seq(Nat), NEW e \in Events
  PROVE  /\ Block[e] \in Image(Prepended(log, e))
         /\ Image(log) \subseteq Image(Prepended(log, e))
         /\ Once(log) /\ TopOnly(log, e) =>
              Once(Prepended(log, e)) /\ TopOnly(Prepended(log, e), e)
<1>0. Block[e] \in Nat
  BY ConstantsOK
<1>1. CASE log # <<>> /\ Head(log) = Block[e]
  <2>1. Prepended(log, e) = log /\ 1 \in DOMAIN log /\ log[1] = Block[e]
    BY <1>1 DEF Prepended
  <2> QED
    BY <2>1 DEF Image
<1>2. CASE log = <<>> \/ Head(log) # Block[e]
  <2> DEFINE new == <<Block[e]>> \o log
  <2>1. Prepended(log, e) = new
    BY <1>2 DEF Prepended
  <2>2. /\ Len(new) = Len(log) + 1 /\ new[1] = Block[e] /\ DOMAIN new = 1 .. Len(log) + 1
        /\ \A i \in 1 .. Len(log) : new[i + 1] = log[i]
    BY <1>0
  <2> HIDE DEF new
  <2>4. Block[e] \in Image(new)
    <3>1. 1 \in DOMAIN new
      <4>1. Len(log) \in Nat
        OBVIOUS
      <4> QED
        BY <2>2, <4>1
    <3> QED
      BY <2>2, <3>1 DEF Image
  <2>5. Image(log) \subseteq Image(new)
    <3>1. ASSUME NEW i \in DOMAIN log PROVE log[i] \in Image(new)
      <4>1. i \in 1 .. Len(log) /\ i + 1 \in DOMAIN new /\ new[i + 1] = log[i]
        BY <2>2, <3>1
      <4> QED
        BY <4>1 DEF Image
    <3> QED
      BY <3>1 DEF Image
  <2>6. ASSUME Once(log), TopOnly(log, e) PROVE Once(new) /\ TopOnly(new, e)
    <3>1. ASSUME NEW i \in DOMAIN log PROVE log[i] # Block[e]
      <4>1. log[i] = Block[e] => i = 1 /\ Head(log) = Block[e] /\ log # <<>>
        BY <2>6 DEF TopOnly
      <4> QED
        BY <1>2, <4>1
    <3>2. ASSUME NEW i \in DOMAIN new, i # 1
          PROVE  i - 1 \in DOMAIN log /\ new[i] = log[i - 1]
      <4>1. i - 1 \in 1 .. Len(log) /\ (i - 1) + 1 = i
        BY <2>2, <3>2
      <4> QED
        BY <2>2, <4>1
    <3>3. TopOnly(new, e)
      BY <3>1, <3>2 DEF TopOnly
    <3>4. ASSUME NEW i \in DOMAIN new, NEW j \in DOMAIN new, new[i] = new[j], i # j
          PROVE  FALSE
      <4>1. i # 1 /\ j # 1
        BY <2>2, <3>3, <3>4 DEF TopOnly
      <4>2. i - 1 = j - 1
        BY <2>6, <3>2, <3>4, <4>1 DEF Once
      <4> QED
        BY <2>2, <3>4, <4>2
    <3> QED
      BY <3>3, <3>4 DEF Once
  <2> QED
    BY <2>1, <2>4, <2>5, <2>6
<1> QED
  BY <1>1, <1>2

LEMMA OnceInvStep ==
  ASSUME SoleEvents, TypeInv, CallerInv, OnceInv, [Next]_vars
  PROVE  OnceInv'
<1>0. /\ \A e \in Events : Once(<<>>) /\ TopOnly(<<>>, e)
      /\ contacts \in Seq(ContactRecord) /\ NULL \notin DOMAIN contacts
  BY DEF Once, TopOnly, TypeInv, TypeOK, NULL
<1>1. ASSUME NEW w \in Workers, ~At(w, "poll")'
      PROVE  (Once(worker[w].log) /\ TopOnly(worker[w].log, MyRow(w)))'
  <2>1. MyRow(w)' \in Events /\ MyRow(w)' = worker'[w].event /\ NULL \notin Events
    <3>1. TypeInv'
      BY TypeInvStep
    <3> QED
      BY <1>1, <3>1, ConstantsOK DEF TypeInv, TypeOK, Message, At, Holds, MyRow
  <2>2. CASE worker'[w].log = <<>>
    BY <1>0, <2>1, <2>2
  <2>3. CASE worker'[w].event = worker[w].event /\ worker'[w].log = worker[w].log
    <3>1. ~At(w, "poll")
      BY <2>1, <2>3 DEF TypeInv, TypeOK, Holds
    <3>2. Once(worker[w].log) /\ TopOnly(worker[w].log, worker[w].event)
      BY <3>1 DEF OnceInv, MyRow
    <3>3. MyRow(w)' = worker[w].event
      BY <2>1, <2>3
    <3> QED
      BY <2>3, <3>2, <3>3 DEF Once, TopOnly
  <2>4. CASE /\ worker'[w].event = worker[w].event /\ worker[w].contact \in DOMAIN contacts
             /\ worker'[w].log = contacts[worker[w].contact].log
    <3>1. contacts[worker[w].contact].phone = PhoneOf[worker[w].event]
      BY <1>0, <2>4 DEF CallerInv, OwnContact, MyRow
    <3>2. /\ Once(contacts[worker[w].contact].log)
          /\ TopOnly(contacts[worker[w].contact].log, worker[w].event)
      BY <2>1, <2>4, <3>1 DEF OnceInv
    <3>3. MyRow(w)' = worker[w].event
      BY <2>1, <2>4
    <3> QED
      BY <2>4, <3>2, <3>3 DEF Once, TopOnly
  <2> QED
    BY <2>2, <2>3, <2>4, MessageLogs
<1>2. ASSUME NEW c \in DOMAIN contacts'
      PROVE  /\ Once(contacts'[c].log)
             /\ \A e \in Events : contacts'[c].phone = PhoneOf[e] => TopOnly(contacts'[c].log, e)
  <2>1. CASE c \in DOMAIN contacts /\ contacts'[c].log = contacts[c].log
    <3>1. contacts'[c].phone = contacts[c].phone
      BY <2>1, HubspotKeepsRecords DEF RecordsKept
    <3> QED
      BY <2>1, <3>1 DEF OnceInv
  <2>2. CASE contacts'[c].log = <<>>
    BY <1>0, <2>2 DEF Once
  <2>3. ASSUME NEW w \in Workers, UpdateContact(w), c \in DOMAIN contacts, c = worker[w].contact,
               contacts'[c].log = Prepended(worker[w].log, MyRow(w))
        PROVE  /\ Once(contacts'[c].log)
               /\ \A e \in Events : contacts'[c].phone = PhoneOf[e] => TopOnly(contacts'[c].log, e)
    <3>1. worker[w].log \in Seq(Nat) /\ MyRow(w) \in Events /\ ~At(w, "poll")
      BY <2>3, HeldMessageIsGood DEF TypeInv, TypeOK, Message, GoodMessage, UpdateContact, At, MyRow
    <3>2. Once(contacts'[c].log) /\ TopOnly(contacts'[c].log, MyRow(w))
      BY <2>3, <3>1, PrependedLog DEF OnceInv
    <3>3. contacts'[c].phone = PhoneOf[MyRow(w)] /\ contacts[c].phone \in Phones
      <4>1. contacts'[c].phone = contacts[c].phone
        BY <2>3, HubspotKeepsRecords DEF RecordsKept
      <4>2. contacts[c].phone = PhoneOf[MyRow(w)]
        BY <1>0, <2>3 DEF CallerInv, OwnContact
      <4>3. contacts[c] \in ContactRecord
        BY <1>0, <2>3, ElementOfSeq
      <4> QED
        BY <4>1, <4>2, <4>3 DEF ContactRecord
    <3>4. \A e \in Events : contacts'[c].phone = PhoneOf[e] => e = MyRow(w)
      <4>1. PhoneOf[MyRow(w)] # NoPhone
        BY <3>3, ConstantsOK, HubspotKeepsRecords, <2>3 DEF RecordsKept
      <4> QED
        BY <3>1, <3>3, <4>1 DEF SoleEvents
    <3> QED
      BY <3>2, <3>4
  <2> QED
    BY <2>1, <2>2, <2>3, HubspotLogs
<1> QED
  BY <1>1, <1>2 DEF OnceInv

(* LoggedOnce, as far as it goes: the block of a caller's only event is in *)
(* the log once, however often the event is retried, replayed or carried   *)
(* on by two processes.  With a second event of the caller it fails.       *)
THEOREM SoleEventIsLoggedOnce ==
  ASSUME SoleEvents, KnownLogsOnce
  PROVE  Spec => []LoggedOnce
<1>1. Init => TypeInv /\ CallerInv /\ OnceInv
  <2>1. Init => OnceInv
    BY DEF Init, Idle, At, OnceInv, KnownLogsOnce
  <2> QED
    BY <2>1, InitTypeInv, InitCallerInv
<1>2. TypeInv /\ CallerInv /\ OnceInv /\ [Next]_vars => TypeInv' /\ CallerInv' /\ OnceInv'
  BY TypeInvStep, CallerInvStep, OnceInvStep
<1>3. OnceInv => LoggedOnce
  BY DEF OnceInv, Once, LoggedOnce
<1> QED
  BY <1>1, <1>2, <1>3, PTL DEF Spec

-----------------------------------------------------------------------------
(* The caller's log, followed from the row to HubSpot and through the       *)
(* messages.  A message that has read the log has it as it still stands,   *)
(* or nobody but its event can be in it: the search's own copy of the log  *)
(* is dropped, so the first event of a caller patches from an empty one.   *)
Logged(e) == Block[e] \in Image(contacts[row[e].contact].log)

(* No event of e's caller, or none but e, has a contact on its row.        *)
Stranger(e)      == \A f \in Events : PhoneOf[f] = PhoneOf[e] => row[f].contact = NULL
FirstOfCaller(e) == \A f \in Events \ {e} : PhoneOf[f] = PhoneOf[e] => row[f].contact = NULL

LogOf(m) ==
  /\ m.pc \in {"search", "create", "saveMade"} => Stranger(m.event)
  /\ m.pc \in BeforeNote \ {"patch"} => m.log = <<>>
  /\ m.pc \in LogPhase => row[m.event].contact = m.contact
  /\ m.pc = "patch" => m.log = contacts[m.contact].log \/ FirstOfCaller(m.event)
  /\ m.pc \in PastPatch => Logged(m.event)

LogInv ==
  /\ \A w \in Workers : ~At(w, "poll") => LogOf(worker[w])
  /\ \A e \in Events : row[e].status = "delivered" => Logged(e)

(* What the steps below start from.                                        *)
RecordsInv == TypeInv /\ CallerInv /\ ProgressInv /\ RecordInv /\ OneCallerAtATime

LEMMA OneCallerOneHolder == TypeInv /\ OneCallerAtATime => NoTwoHold
BY ConstantsOK, HeldMessageIsGood DEF OneCallerAtATime, NoTwoHold, Holds, At, MyRow, GoodMessage

LEMMA InHand ==
  ASSUME RecordsInv, NEW w \in Workers, ~At(w, "poll")
  PROVE  /\ MyRow(w) \in Events /\ worker[w] \in Message
         /\ UpToDate(worker[w], row[MyRow(w)]) /\ MessageSaved(worker[w], row[MyRow(w)])
         /\ OwnContact(MyRow(w), worker[w].contact) /\ OwnTicket(MyRow(w), worker[w].ticket)
         /\ \A v \in Workers \ {w} : ~At(v, "poll") => PhoneOf[MyRow(v)] # PhoneOf[MyRow(w)]
BY HeldMessageIsGood DEF RecordsInv, GoodMessage, At, MyRow, CallerInv, ProgressInv, RecordInv,
   OneCallerAtATime

LEMMA WorkIsInHand == \A w \in Workers : Working(w) => ~At(w, "poll")
BY DEF Working, Begin, LookupContact, SearchContact, CreateContact, SaveContact,
   GetContactLog, UpdateContact, CreateNote, SaveNote, PriorTicket, GetTicket, CreateTicket,
   SaveTicket, TicketNote, CreateTask, SaveTask, TransientError, PermanentError, Calls, At

(* Ids get onto a row from the hand that holds it.                         *)
LEMMA WorkSavesIds ==
  ASSUME TypeInv, NEW w \in Workers, Working(w), NEW e \in Events
  PROVE  /\ row'[e].contact = row[e].contact \/ (SaveContact(w) /\ MyRow(w) = e)
         /\ row'[e].ticket = row[e].ticket \/ (SaveTicket(w) /\ MyRow(w) = e)
         /\ SaveContact(w) /\ MyRow(w) = e => row'[e].contact = worker[w].contact
         /\ SaveTicket(w) /\ MyRow(w) = e => row'[e].ticket = worker[w].ticket
         /\ SaveNote(w) /\ MyRow(w) = e => row'[e].note
         /\ SaveTask(w) /\ MyRow(w) = e => row'[e].task
<1>0. row \in [Events -> Row]
  BY DEF TypeInv, TypeOK
<1>1. CASE SaveContact(w)
  BY <1>0, <1>1 DEF SaveContact, Row, SaveTicket, SaveNote, SaveTask, At
<1>2. CASE SaveTicket(w)
  BY <1>0, <1>2 DEF SaveContact, Row, SaveTicket, SaveNote, SaveTask, At
<1>3. CASE SaveNote(w)
  BY <1>0, <1>3 DEF SaveContact, Row, SaveTicket, SaveNote, SaveTask, At
<1>4. CASE SaveTask(w)
  BY <1>0, <1>4 DEF SaveContact, Row, SaveTicket, SaveNote, SaveTask, At
<1>5. CASE ~SaveContact(w) /\ ~SaveTicket(w) /\ ~SaveNote(w) /\ ~SaveTask(w)
  <2>1. UNCHANGED row
    BY <1>5 DEF Working, Begin, LookupContact, SearchContact, CreateContact, GetContactLog,
       UpdateContact, CreateNote, PriorTicket, GetTicket, CreateTicket, TicketNote, CreateTask,
       TransientError, PermanentError
  <2> QED
    BY <1>5, <2>1
<1> QED
  BY <1>1, <1>2, <1>3, <1>4, <1>5

(* An id on a row is there for good.                                       *)
LEMMA IdsStay ==
  ASSUME TypeInv, RecordInv, [Next]_vars, NEW e \in Events
  PROVE  /\ row[e].contact # NULL => row'[e].contact = row[e].contact
         /\ row[e].ticket # NULL => row'[e].ticket = row[e].ticket
BY NextCreatesNew DEF Recreates

(* The PATCH of one process is the only one a caller's log gets.           *)
LEMMA PatchOfCaller ==
  ASSUME RecordsInv, NEW w \in Workers, UpdateContact(w)
  PROVE  /\ ~At(w, "poll") /\ MyRow(w) \in Events /\ worker[w].log \in Seq(Nat)
         /\ worker[w].contact # NULL /\ worker[w].contact \in DOMAIN contacts
         /\ contacts[worker[w].contact].phone = PhoneOf[MyRow(w)]
         /\ row[MyRow(w)].contact # NULL
<1>1. worker[w].pc = "patch" /\ ~At(w, "poll")
  BY DEF UpdateContact, At
<1>2. worker[w].contact # NULL /\ row[MyRow(w)].contact # NULL
  BY <1>1, InHand, PhaseSets DEF MessageSaved
<1> QED
  BY <1>1, <1>2, InHand DEF OwnContact, Message

LEMMA LoggedStays ==
  ASSUME RecordsInv, LogInv, [Next]_vars, NEW e \in Events, row[e].contact # NULL, Logged(e)
  PROVE  Logged(e)'
<1> DEFINE c == row[e].contact
<1>1. row'[e].contact = c
  BY IdsStay DEF RecordsInv
<1>2. c \in DOMAIN contacts /\ c \in DOMAIN contacts' /\ contacts[c].phone = PhoneOf[e]
  BY HubspotKeepsRecords DEF RecordsInv, CallerInv, OwnContact, RecordsKept
<1>3. ASSUME NEW w \in Workers, UpdateContact(w), c = worker[w].contact
      PROVE  Block[e] \in Image(Prepended(worker[w].log, MyRow(w)))
  <2>1. /\ ~At(w, "poll") /\ MyRow(w) \in Events /\ worker[w].log \in Seq(Nat)
        /\ PhoneOf[MyRow(w)] = PhoneOf[e]
    BY <1>2, <1>3, PatchOfCaller
  <2>2. worker[w].log = contacts[c].log \/ FirstOfCaller(MyRow(w))
    BY <1>3, <2>1 DEF LogInv, LogOf, UpdateContact, At, MyRow
  <2>3. CASE worker[w].log = contacts[c].log
    BY <2>1, <2>3, PrependedLog DEF Logged
  <2>4. CASE FirstOfCaller(MyRow(w))
    <3>1. e = MyRow(w)
      BY <2>1, <2>4 DEF FirstOfCaller
    <3> QED
      BY <2>1, <3>1, PrependedLog
  <2> QED
    BY <2>2, <2>3, <2>4
<1>4. contacts'[c].log = contacts[c].log
      \/ \E w \in Workers : /\ UpdateContact(w) /\ c = worker[w].contact
                            /\ contacts'[c].log = Prepended(worker[w].log, MyRow(w))
  BY <1>2, HubspotLogs DEF RecordsInv
<1>5. Block[e] \in Image(contacts'[c].log)
  BY <1>3, <1>4 DEF Logged
<1> QED
  BY <1>1, <1>5 DEF Logged

(* A message that no step touches: its caller's rows and log are as before. *)
LEMMA LogOfKept ==
  ASSUME NEW m \in Message, m.event \in Events, LogOf(m),
         \A f \in Events : PhoneOf[f] = PhoneOf[m.event] => row'[f].contact = row[f].contact,
         m.pc = "patch" => contacts'[m.contact].log = contacts[m.contact].log,
         m.pc \in PastPatch => Logged(m.event)'
  PROVE  LogOf(m)'
BY DEF LogOf, Stranger, FirstOfCaller

LEMMA OthersKeepLogs ==
  ASSUME RecordsInv, LogInv, [Next]_vars, NEW v \in Workers, ~At(v, "poll"),
         worker'[v] = worker[v], ~Working(v)
  PROVE  LogOf(worker[v])'
<1>1. PICK m : m = worker[v]
  OBVIOUS
<1>2. /\ m \in Message /\ m.event \in Events /\ LogOf(m)
      /\ OwnContact(m.event, m.contact) /\ MessageSaved(m, row[m.event])
  BY <1>1, InHand DEF LogInv, MyRow
<1>3. ASSUME NEW w \in Workers, Working(w) PROVE PhoneOf[MyRow(w)] # PhoneOf[m.event]
  BY <1>1, <1>3, InHand, WorkIsInHand DEF MyRow
<1>4. ASSUME NEW f \in Events, PhoneOf[f] = PhoneOf[m.event]
      PROVE  row'[f].contact = row[f].contact
  <2>1. CASE \A w \in Workers : ~Working(w)
    BY <2>1, OtherSteps DEF RecordsInv, SameIds
  <2>2. ASSUME NEW w \in Workers, Working(w) PROVE row'[f].contact = row[f].contact
    BY <1>3, <1>4, <2>2, WorkSavesIds DEF RecordsInv
  <2> QED
    BY <2>1, <2>2
<1>5. ASSUME m.pc = "patch" PROVE contacts'[m.contact].log = contacts[m.contact].log
  <2>1. m.contact # NULL /\ m.contact \in DOMAIN contacts
        /\ contacts[m.contact].phone = PhoneOf[m.event]
    BY <1>2, <1>5, PhaseSets DEF MessageSaved, OwnContact
  <2>2. m.contact \in DOMAIN contacts'
    BY <2>1, HubspotKeepsRecords DEF RecordsInv, RecordsKept
  <2>3. ASSUME NEW w \in Workers, UpdateContact(w) PROVE m.contact # worker[w].contact
    BY <1>3, <2>1, <2>3, PatchOfCaller DEF Working
  <2> QED
    BY <2>1, <2>2, <2>3, HubspotLogs DEF RecordsInv
<1>6. ASSUME m.pc \in PastPatch PROVE Logged(m.event)'
  <2>1. row[m.event].contact # NULL /\ Logged(m.event)
    BY <1>2, <1>6 DEF MessageSaved, LogOf
  <2> QED
    BY <1>2, <2>1, LoggedStays
<1>7. LogOf(m)'
  BY <1>2, <1>4, <1>5, <1>6, LogOfKept
<1> QED
  BY <1>1, <1>7 DEF LogOf, Stranger, FirstOfCaller, Logged

LEMMA WorkKeepsLogs ==
  ASSUME RecordsInv, LogInv, [Next]_vars, NEW w \in Workers, Working(w)
  PROVE  LogOf(worker[w])'
<1> DEFINE m == worker[w]
<1>hand. PICK e : e = MyRow(w)
  OBVIOUS
<1>0. /\ ~At(w, "poll") /\ e \in Events /\ LogOf(m) /\ e = m.event
      /\ UpToDate(m, row[e]) /\ MessageSaved(m, row[e]) /\ OwnContact(e, m.contact)
  BY <1>hand, InHand, WorkIsInHand DEF LogInv, MyRow
<1>1. worker'[w].event = e
  BY <1>hand, WorkKeepsHolders DEF RecordsInv, SameHolders, MyRow
<1>2. CASE Failed(w)
  BY <1>2, PhaseSets, PhaseMembers DEF Failed, LogOf
<1>3. ASSUME m.pc \in PastPatch, worker'[w].pc \in PastPatch PROVE LogOf(worker[w])'
  <2>1. row[e].contact # NULL /\ Logged(e)
    BY <1>0, <1>3 DEF MessageSaved, LogOf
  <2>2. Logged(e)'
    BY <1>0, <2>1, LoggedStays
  <2> QED
    BY <1>1, <1>3, <2>2, PhaseSets, PhaseMembers DEF LogOf, Logged
<1>4. CASE Begin(w)
  <2>1. m.pc = "begin" /\ m.log = <<>> /\ m.contact = row[e].contact
    BY <1>0, <1>4, PhaseMembers DEF Begin, At, LogOf, UpToDate
  <2>2. Failed(w) \/ Goes(w, "getLog") \/ Goes(w, "dead") \/ Goes(w, "lookup")
    BY <1>4, ContactSteps, NextPhases DEF RecordsInv
  <2>3. UNCHANGED row
    BY <1>4 DEF Begin
  <2> QED
    BY <1>1, <1>2, <2>1, <2>2, <2>3, PhaseSets, PhaseMembers DEF Goes, Kept, LogOf
<1>5. CASE LookupContact(w)
  <2>1. m.log = <<>> /\ UNCHANGED row
    BY <1>0, <1>5, PhaseMembers DEF LookupContact, At, LogOf
  <2>2. \/ worker'[w].pc = "search" /\ worker'[w].log = m.log /\ Stranger(e)
        \/ worker'[w].pc = "saveFound" /\ worker'[w].log = m.log
    BY <1>hand, <1>5, ContactSteps DEF RecordsInv, Goes, Kept, Stranger
  <2> QED
    BY <1>1, <2>1, <2>2, PhaseSets, PhaseMembers DEF LogOf, Stranger
<1>6. CASE SearchContact(w) \/ CreateContact(w)
  <2>1. m.log = <<>> /\ Stranger(e) /\ UNCHANGED row
    BY <1>0, <1>6, PhaseMembers DEF SearchContact, CreateContact, At, LogOf
  <2>2. Failed(w) \/ (worker'[w].pc \in {"create", "saveMade"} /\ worker'[w].log = m.log)
    BY <1>6, ContactSteps DEF RecordsInv, Goes, Kept, Lost
  <2> QED
    BY <1>1, <1>2, <2>1, <2>2, PhaseSets, PhaseMembers DEF LogOf, Stranger
<1>7. CASE SaveContact(w)
  <2>1. m.log = <<>> /\ (At(w, "saveFound") \/ (At(w, "saveMade") /\ Stranger(e)))
    BY <1>0, <1>7, PhaseMembers DEF SaveContact, At, LogOf
  <2>2. /\ worker'[w].log = m.log /\ worker'[w].contact = m.contact
        /\ worker'[w].pc = IF At(w, "saveFound") THEN "getLog" ELSE "patch"
    BY <1>7, ContactSteps DEF RecordsInv, Goes, Kept
  <2>3. /\ row'[e].contact = m.contact
        /\ \A f \in Events \ {e} : row'[f].contact = row[f].contact
    BY <1>hand, <1>0, <1>7, WorkSavesIds DEF RecordsInv
  <2>4. CASE At(w, "saveFound")
    BY <1>1, <2>1, <2>2, <2>3, <2>4, PhaseSets, PhaseMembers DEF LogOf
  <2>5. CASE ~At(w, "saveFound") /\ Stranger(e)
    <3>1. FirstOfCaller(e)'
      BY <2>3, <2>5 DEF Stranger, FirstOfCaller
    <3> QED
      BY <1>1, <2>1, <2>2, <2>3, <2>5, <3>1, PhaseSets, PhaseMembers DEF LogOf, FirstOfCaller
  <2> QED
    BY <2>1, <2>4, <2>5 DEF At
<1>8. CASE GetContactLog(w)
  <2>1. row[e].contact = m.contact /\ UNCHANGED <<row, contacts>>
    BY <1>0, <1>8, PhaseMembers DEF GetContactLog, At, LogOf, hubspot
  <2>2. /\ worker'[w].pc = "patch" /\ worker'[w].contact = m.contact
        /\ worker'[w].log = contacts[m.contact].log
    BY <1>8, LogSteps DEF RecordsInv
  <2> QED
    BY <1>1, <2>1, <2>2, PhaseSets, PhaseMembers DEF LogOf
<1>9. CASE UpdateContact(w)
  <2>1. row[e].contact = m.contact /\ UNCHANGED row
    BY <1>0, <1>9, PhaseMembers DEF UpdateContact, At, LogOf
  <2>2. Failed(w) \/ worker'[w].pc \in {"note", "priorTicket", "task", "ack"}
    BY <1>9, LogSteps, NextPhases DEF RecordsInv, Lost
  <2>3. m.log \in Seq(Nat) /\ m.contact \in DOMAIN contacts
    BY <1>hand, <1>9, PatchOfCaller
  <2>4. contacts'[m.contact].log = Prepended(m.log, e)
    <3>1. PICK c, log : c = m.contact /\ log = Prepended(m.log, e)
      OBVIOUS
    <3>2. contacts' = [contacts EXCEPT ![c].log = log]
      BY <1>hand, <1>9, <3>1 DEF UpdateContact
    <3>3. contacts \in Seq(ContactRecord) /\ c \in DOMAIN contacts
      BY <2>3, <3>1 DEF RecordsInv, TypeInv, TypeOK
    <3>4. contacts'[c].log = log
      <4>1. PICK d : d = [contacts[c] EXCEPT !.log = log]
        OBVIOUS
      <4>2. contacts[c] \in ContactRecord
        BY <3>3, ElementOfSeq
      <4>3. d.log = log
        BY <4>1, <4>2 DEF ContactRecord
      <4>4. contacts'[c] = d
        BY <3>2, <3>3, <4>1
      <4> QED
        BY <4>3, <4>4
    <3> QED
      BY <3>1, <3>4
  <2>5. Logged(e)'
    BY <1>0, <2>1, <2>3, <2>4, PrependedLog DEF Logged
  <2> QED
    BY <1>1, <1>2, <2>2, <2>5, PhaseSets, PhaseMembers DEF LogOf, Logged
<1>10. CASE CreateNote(w) \/ SaveNote(w) \/ PriorTicket(w) \/ GetTicket(w) \/ CreateTicket(w)
            \/ SaveTicket(w) \/ TicketNote(w) \/ CreateTask(w) \/ SaveTask(w)
  <2>1. m.pc \in PastPatch
    BY <1>10, PhaseSets DEF CreateNote, SaveNote, PriorTicket, GetTicket, CreateTicket, SaveTicket,
       TicketNote, CreateTask, SaveTask, At
  <2>2. Failed(w) \/ worker'[w].pc \in {"saveNote", "priorTicket", "getTicket", "createTicket",
                                       "saveTicket", "ticketNote", "task", "saveTask", "ack"}
    BY <1>10, RecordSteps, NextPhases DEF RecordsInv, Lost, Goes
  <2> QED
    BY <1>2, <1>3, <2>1, <2>2, PhaseSets
<1>11. CASE TransientError(w) \/ PermanentError(w)
  BY <1>2, <1>11, RecordSteps DEF RecordsInv
<1> QED
  BY <1>4, <1>5, <1>6, <1>7, <1>8, <1>9, <1>10, <1>11 DEF Working

LEMMA LogInvStep == RecordsInv /\ LogInv /\ [Next]_vars => LogInv'
<1> SUFFICES ASSUME RecordsInv, LogInv, [Next]_vars PROVE LogInv'
  OBVIOUS
<1>1. ASSUME NEW w \in Workers, Working(w) PROVE LogInv'
  <2>1. ASSUME NEW v \in Workers, worker'[v].pc # "poll" PROVE LogOf(worker[v])'
    <3>1. CASE v = w
      BY <1>1, <3>1, WorkKeepsLogs
    <3>2. CASE v # w
      <4>1. worker'[v] = worker[v]
        BY <1>1, <3>2, WorkIsLocal DEF RecordsInv
      <4>2. ~At(v, "poll")
        BY <2>1, <4>1 DEF At
      <4> QED
        BY <4>1, <4>2, OthersKeepLogs, WorkKeepsLogs
    <3> QED
      BY <3>1, <3>2
  <2>2. ASSUME NEW e \in Events, row'[e].status = "delivered" PROVE Logged(e)'
    <3>1. row[e].status = "delivered"
      BY <1>1, <2>2, WorkKeepsQueue DEF RecordsInv, SameQueue
    <3>2. row[e].contact # NULL /\ Logged(e)
      BY <3>1 DEF LogInv, RecordsInv, ProgressInv, DeliveredMeansComplete, Complete
    <3> QED
      BY <3>2, LoggedStays
  <2> QED
    BY <2>1, <2>2 DEF LogInv, At
<1>2. CASE \A w \in Workers : ~Working(w)
  <2>1. ASSUME NEW v \in Workers, worker'[v].pc # "poll" PROVE LogOf(worker[v])'
    <3>1. CASE worker'[v] = worker[v]
      <4>1. ~At(v, "poll")
        BY <2>1, <3>1 DEF At
      <4> QED
        BY <1>2, <3>1, <4>1, OthersKeepLogs
    <3>2. ASSUME NEW e \in Events, worker'[v] = Snapshot(e) PROVE LogOf(worker[v])'
      <4>1. worker'[v].pc = "begin" /\ worker'[v].log = <<>>
        BY <3>2 DEF Snapshot, Idle
      <4> QED
        BY <4>1, PhaseSets, PhaseMembers DEF LogOf
    <3>3. worker'[v] # Idle
      BY <2>1 DEF Idle
    <3> QED
      BY <1>2, <3>1, <3>2, <3>3, OtherSteps DEF RecordsInv
  <2>2. ASSUME NEW e \in Events, row'[e].status = "delivered" PROVE Logged(e)'
    <3>1. row[e].contact # NULL /\ Logged(e)
      <4>1. CASE row[e].status = "delivered"
        BY <4>1 DEF LogInv, RecordsInv, ProgressInv, DeliveredMeansComplete, Complete
      <4>2. ASSUME NEW w \in Workers, At(w, "ack"), Holds(w, e)
            PROVE  row[e].contact # NULL /\ Logged(e)
        <5>1. ~At(w, "poll") /\ worker[w].pc \in PastPatch /\ MyRow(w) = e
          BY <4>2, PhaseSets DEF At, Holds, MyRow
        <5> QED
          BY <5>1, InHand DEF LogInv, LogOf, MessageSaved, MyRow
      <4> QED
        BY <1>2, <2>2, <4>1, <4>2, OtherSteps DEF RecordsInv
    <3> QED
      BY <3>1, LoggedStays
  <2> QED
    BY <2>1, <2>2 DEF LogInv, At
<1> QED
  BY <1>1, <1>2

(* The invariants that hold in every run, with the one of the rows, which  *)
(* needs the row to itself for each process.                               *)
HandInv == TypeInv /\ CallerInv /\ ProgressInv /\ RecordInv

LEMMA InitHandInv == Init => HandInv
BY InitTypeInv, InitCallerInv, InitProgressInv, InitRecordInv DEF HandInv

LEMMA HandInvStep == HandInv /\ OneCallerAtATime /\ [Next]_vars => HandInv'
BY OneCallerOneHolder, TypeInvStep, CallerInvStep, ProgressInvStep, RecordInvStep DEF HandInv

(* DeliveredIsLogged: while no two processes work for one caller at once,  *)
(* what is acked can be read in the contact's log, then and ever after,    *)
(* whatever is lost, retried or replayed.                                  *)
THEOREM DeliveredCanBeRead == Spec /\ []OneCallerAtATime => []DeliveredIsLogged
<1>1. Init => HandInv /\ LogInv
  <2>1. Init => LogInv
    BY DEF Init, Idle, NewRow, LogInv, At
  <2> QED
    BY <2>1, InitHandInv
<1>2. HandInv /\ LogInv /\ OneCallerAtATime /\ [Next]_vars => HandInv' /\ LogInv'
  BY HandInvStep, LogInvStep DEF HandInv, RecordsInv
<1>3. LogInv => DeliveredIsLogged
  BY DEF LogInv, Logged, DeliveredIsLogged
<1> QED
  BY <1>1, <1>2, <1>3, PTL DEF Spec

-----------------------------------------------------------------------------
(* Only a contact that some row points to has a log, so the process that   *)
(* patches from an empty log patches an empty one.                         *)
HistoryInv ==
  /\ \A c \in DOMAIN contacts : \A e \in Events :
       contacts[c].phone = PhoneOf[e] /\ contacts[c].log # <<>> =>
         \E f \in Events : row[f].contact = c
  /\ \A w \in Workers : At(w, "patch") => worker[w].log = contacts[worker[w].contact].log

LEMMA PatchKeepsHistory ==
  ASSUME RecordsInv, HistoryInv, [Next]_vars, NEW c \in DOMAIN contacts
  PROVE  Image(contacts[c].log) \subseteq Image(contacts'[c].log)
<1>1. c \in DOMAIN contacts'
  BY HubspotKeepsRecords DEF RecordsInv, RecordsKept
<1>2. ASSUME NEW w \in Workers, UpdateContact(w), c = worker[w].contact
      PROVE  Image(contacts[c].log) \subseteq Image(Prepended(worker[w].log, MyRow(w)))
  <2>1. MyRow(w) \in Events /\ worker[w].log \in Seq(Nat)
    BY <1>2, PatchOfCaller
  <2>2. worker[w].log = contacts[c].log
    BY <1>2 DEF HistoryInv, UpdateContact
  <2> QED
    BY <2>1, <2>2, PrependedLog
<1> QED
  BY <1>1, <1>2, HubspotLogs DEF RecordsInv

(* A process with a message that some step leaves alone.                   *)
LEMMA OthersKeepHistory ==
  ASSUME RecordsInv, HistoryInv, [Next]_vars, NEW v \in Workers, At(v, "patch"),
         worker'[v] = worker[v], ~Working(v)
  PROVE  worker[v].log = contacts'[worker[v].contact].log
<1>1. /\ ~At(v, "poll") /\ worker[v].contact # NULL /\ worker[v].contact \in DOMAIN contacts
      /\ contacts[worker[v].contact].phone = PhoneOf[MyRow(v)]
  <2>1. ~At(v, "poll") /\ worker[v].pc = "patch"
    BY DEF At
  <2> QED
    BY <2>1, InHand, PhaseSets DEF MessageSaved, OwnContact
<1>2. worker[v].contact \in DOMAIN contacts'
  BY <1>1, HubspotKeepsRecords DEF RecordsInv, RecordsKept
<1>3. ASSUME NEW w \in Workers, UpdateContact(w) PROVE worker[v].contact # worker[w].contact
  <2>1. v # w /\ ~At(w, "poll")
    BY <1>3, PatchOfCaller DEF Working
  <2> QED
    BY <1>1, <1>3, <2>1, InHand, PatchOfCaller
<1> QED
  BY <1>1, <1>2, <1>3, HubspotLogs DEF RecordsInv, HistoryInv

LEMMA WorkKeepsHistory ==
  ASSUME RecordsInv, LogInv, HistoryInv, [Next]_vars, NEW w \in Workers, Working(w),
         worker'[w].pc = "patch"
  PROVE  worker'[w].log = contacts'[worker'[w].contact].log
<1> DEFINE m == worker[w]
<1>0. /\ ~At(w, "poll") /\ MyRow(w) \in Events /\ LogOf(m)
      /\ OwnContact(MyRow(w), m.contact) /\ MessageSaved(m, row[MyRow(w)])
  BY InHand, WorkIsInHand DEF LogInv
<1>1. CASE SaveContact(w)
  <2>1. /\ worker'[w].log = m.log /\ worker'[w].contact = m.contact /\ UNCHANGED contacts
        /\ worker'[w].pc = IF At(w, "saveFound") THEN "getLog" ELSE "patch"
    BY <1>1, ContactSteps DEF RecordsInv, Goes, Kept, SaveContact, hubspot
  <2>2. m.log = <<>> /\ Stranger(MyRow(w)) /\ m.contact # NULL
    BY <1>0, <1>1, <2>1, PhaseMembers, PhaseSets DEF SaveContact, At, LogOf, MyRow, MessageSaved
  <2>3. m.contact \in DOMAIN contacts /\ contacts[m.contact].phone = PhoneOf[MyRow(w)]
    BY <1>0, <2>2 DEF OwnContact
  <2>4. ASSUME NEW f \in Events PROVE row[f].contact # m.contact
    BY <2>2, <2>3, <2>4 DEF Stranger, RecordsInv, CallerInv, OwnContact
  <2>5. contacts[m.contact].log = <<>>
    BY <1>0, <2>3, <2>4 DEF HistoryInv
  <2> QED
    BY <2>1, <2>2, <2>5
<1>2. CASE GetContactLog(w)
  BY <1>2, LogSteps DEF RecordsInv, GetContactLog, hubspot
<1>3. CASE ~SaveContact(w) /\ ~GetContactLog(w)
  <2>1. worker'[w].pc # "patch"
    BY <1>3, ContactSteps, LogSteps, RecordSteps, NextPhases
       DEF RecordsInv, Working, Goes, Lost, Failed
  <2> QED
    BY <2>1
<1> QED
  BY <1>1, <1>2, <1>3

LEMMA HistoryInvStep == RecordsInv /\ LogInv /\ HistoryInv /\ [Next]_vars => HistoryInv'
<1> SUFFICES ASSUME RecordsInv, LogInv, HistoryInv, [Next]_vars PROVE HistoryInv'
  OBVIOUS
<1>1. ASSUME NEW c \in DOMAIN contacts', NEW e \in Events,
             contacts'[c].phone = PhoneOf[e], contacts'[c].log # <<>>
      PROVE  \E f \in Events : row'[f].contact = c
  <2>1. c \in DOMAIN contacts => c # NULL /\ contacts'[c].phone = contacts[c].phone
    BY HubspotKeepsRecords DEF RecordsInv, RecordsKept, TypeInv, TypeOK, NULL
  <2>2. ASSUME c \in DOMAIN contacts, NEW f \in Events, row[f].contact = c
        PROVE  row'[f].contact = c
    BY <2>1, <2>2, IdsStay DEF RecordsInv
  <2>3. CASE c \in DOMAIN contacts /\ contacts'[c].log = contacts[c].log
    <3>1. PICK f \in Events : row[f].contact = c
      BY <1>1, <2>1, <2>3 DEF HistoryInv
    <3> QED
      BY <2>2, <2>3, <3>1
  <2>4. ASSUME NEW w \in Workers, UpdateContact(w), c \in DOMAIN contacts, c = worker[w].contact
        PROVE  \E f \in Events : row'[f].contact = c
    <3>1. MyRow(w) \in Events /\ row[MyRow(w)].contact = c
      BY <2>4, PatchOfCaller, PhaseMembers DEF LogInv, LogOf, UpdateContact, At, MyRow
    <3> QED
      BY <2>2, <2>4, <3>1
  <2> QED
    BY <1>1, <2>3, <2>4, HubspotLogs DEF RecordsInv
<1>2. ASSUME NEW v \in Workers, worker'[v].pc = "patch"
      PROVE  worker'[v].log = contacts'[worker'[v].contact].log
  <2>1. CASE Working(v)
    BY <1>2, <2>1, WorkKeepsHistory
  <2>2. CASE ~Working(v)
    <3>1. worker'[v] = worker[v]
      <4>1. ASSUME NEW w \in Workers, Working(w) PROVE worker'[v] = worker[v]
        BY <2>2, <4>1, WorkIsLocal DEF RecordsInv
      <4>2. CASE \A w \in Workers : ~Working(w)
        <5>1. Idle.pc # "patch" /\ \A e \in Events : Snapshot(e).pc # "patch"
          BY DEF Idle, Snapshot
        <5> QED
          BY <1>2, <4>2, <5>1, OtherSteps DEF RecordsInv
      <4> QED
        BY <4>1, <4>2
    <3>2. At(v, "patch")
      BY <1>2, <3>1 DEF At
    <3> QED
      BY <2>2, <3>1, <3>2, OthersKeepHistory
  <2> QED
    BY <2>1, <2>2
<1> QED
  BY <1>1, <1>2 DEF HistoryInv, At

(* HistoryKept: while no two processes work for one caller at once, and no *)
(* caller comes with a log this system has not written, no PATCH drops a   *)
(* line.  In the run that refutes HistoryKept the caller has such a log.    *)
THEOREM NothingDropsOut ==
  ASSUME CallersUnlogged
  PROVE  Spec /\ []OneCallerAtATime => HistoryKept
<1>1. Init => HandInv /\ LogInv /\ HistoryInv
  <2>1. Init => LogInv
    BY DEF Init, Idle, NewRow, LogInv, At
  <2>2. Init => HistoryInv
    BY DEF Init, Idle, HistoryInv, CallersUnlogged, At
  <2> QED
    BY <2>1, <2>2, InitHandInv
<1>2. HandInv /\ LogInv /\ HistoryInv /\ OneCallerAtATime /\ [Next]_vars
        => HandInv' /\ LogInv' /\ HistoryInv'
  BY HandInvStep, LogInvStep, HistoryInvStep DEF HandInv, RecordsInv
<1>3. HandInv /\ HistoryInv /\ OneCallerAtATime /\ [Next]_vars
        => [\A c \in DOMAIN contacts : Image(contacts[c].log) \subseteq Image(contacts'[c].log)]_vars
  BY PatchKeepsHistory DEF HandInv, RecordsInv
<1> QED
  BY <1>1, <1>2, <1>3, PTL DEF Spec, HistoryKept

-----------------------------------------------------------------------------
(* How many records an event has.  What a step of a process may do to them *)
(* depends on whether a fault strikes in it.                               *)
LEMMA FaultsGrow ==
  ASSUME TypeInv, [Next]_vars
  PROVE  faults' = faults \/ FaultStrikes
<1>1. ASSUME NEW w \in Workers, Working(w) PROVE faults' = faults \/ FaultStrikes
  BY <1>1 DEF Working, Begin, LookupContact, SearchContact, CreateContact, SaveContact,
     GetContactLog, UpdateContact, CreateNote, SaveNote, PriorTicket, GetTicket, CreateTicket,
     SaveTicket, TicketNote, CreateTask, SaveTask, TransientError, PermanentError, Answered,
     FaultStrikes, bounds
<1>2. CASE \A w \in Workers : ~Working(w)
  BY <1>2, OtherSteps
<1> QED
  BY <1>1, <1>2

LEMMA OneProcessMoves ==
  ASSUME TypeInv, [Next]_vars, NEW v \in Workers, NEW w \in Workers,
         worker'[v] # worker[v], worker'[w] # worker[w]
  PROVE  v = w
<1>1. ASSUME NEW u \in Workers, Working(u) PROVE v = u /\ w = u
  BY <1>1, WorkIsLocal
<1>2. CASE \A u \in Workers : ~Working(u)
  BY <1>2, OtherSteps
<1> QED
  BY <1>1, <1>2

LEMMA SavesAreNotSkipped ==
  ASSUME TypeInv, [Next]_vars, NEW w \in Workers,
         worker[w].pc \in {"saveMade", "saveNote", "saveTicket", "saveTask"}
  PROVE  \/ worker'[w] = worker[w]
         \/ FaultStrikes
         \/ At(w, "saveMade") /\ SaveContact(w)
         \/ At(w, "saveNote") /\ SaveNote(w)
         \/ At(w, "saveTicket") /\ SaveTicket(w)
         \/ At(w, "saveTask") /\ SaveTask(w)
<1>1. ASSUME NEW v \in Workers, Working(v), v # w PROVE worker'[w] = worker[w]
  BY <1>1, WorkIsLocal
<1>2. CASE Working(w)
  BY <1>2 DEF Working, Begin, LookupContact, SearchContact, CreateContact, SaveContact,
     GetContactLog, UpdateContact, CreateNote, SaveNote, PriorTicket, GetTicket, CreateTicket,
     SaveTicket, TicketNote, CreateTask, SaveTask, TransientError, PermanentError, Calls, At
<1>3. CASE \A v \in Workers : ~Working(v)
  BY <1>3, OtherSteps DEF At, Outcome
<1> QED
  BY <1>1, <1>2, <1>3

LEMMA NotesStay ==
  ASSUME TypeInv, ProgressInv, [Next]_vars, NEW e \in Events
  PROVE  (row[e].note => row'[e].note) /\ (row[e].task => row'[e].task)
<1>1. ASSUME NEW w \in Workers, Working(w) PROVE Gains(row[e], row'[e])
  BY <1>1, WorkGains
<1>2. CASE \A w \in Workers : ~Working(w)
  BY <1>2, OtherSteps DEF SameIds
<1> QED
  BY <1>1, <1>2 DEF Gains

LEMMA TicketsChange ==
  ASSUME TypeInv, [Next]_vars
  PROVE  /\ \A t \in DOMAIN tickets :
              /\ t \in DOMAIN tickets' /\ tickets'[t].event = tickets[t].event
              /\ ~tickets[t].open => ~tickets'[t].open
         /\ \A t \in DOMAIN tickets' : t \notin DOMAIN tickets =>
              \E w \in Workers : /\ CreateTicket(w) /\ t = Len(tickets) + 1
                                /\ tickets'[t].event = MyRow(w)
<1>0. tickets \in Seq([event : Events, open : BOOLEAN])
  BY DEF TypeInv, TypeOK
<1>1. ASSUME NEW w \in Workers, CreateTicket(w)
      PROVE  /\ \A t \in DOMAIN tickets : t \in DOMAIN tickets' /\ tickets'[t] = tickets[t]
             /\ \A t \in DOMAIN tickets' : t \notin DOMAIN tickets =>
                  t = Len(tickets) + 1 /\ tickets'[t].event = MyRow(w)
  <2>1. PICK k : k = [event |-> MyRow(w), open |-> TRUE]
    OBVIOUS
  <2>2. tickets' = Append(tickets, k) /\ k.event = MyRow(w)
    BY <1>1, <2>1 DEF CreateTicket
  <2> QED
    BY <1>0, <2>2
<1>2. ASSUME NEW w \in Workers, Working(w) PROVE UNCHANGED tickets \/ CreateTicket(w)
  BY <1>2 DEF Working, Begin, LookupContact, SearchContact, CreateContact, SaveContact,
     GetContactLog, UpdateContact, CreateNote, SaveNote, PriorTicket, GetTicket, SaveTicket,
     TicketNote, CreateTask, SaveTask, TransientError, PermanentError, hubspot
<1>3. CASE \A w \in Workers : ~Working(w)
  BY <1>3, OtherSteps
<1>4. CASE UNCHANGED tickets
  BY <1>4
<1> QED
  BY <1>1, <1>2, <1>3, <1>4

LEMMA MadeChanges ==
  ASSUME TypeInv, [Next]_vars, NEW e \in Events
  PROVE  /\ \/ made'[e].note = made[e].note
            \/ \E w \in Workers : /\ CreateNote(w) /\ MyRow(w) = e
                                  /\ made'[e].note = made[e].note + 1
         /\ \/ made'[e].task = made[e].task
            \/ \E w \in Workers : /\ CreateTask(w) /\ MyRow(w) = e
                                  /\ made'[e].task = made[e].task + 1
<1> DEFINE Goal == /\ \/ made'[e].note = made[e].note
                      \/ \E w \in Workers : /\ CreateNote(w) /\ MyRow(w) = e
                                            /\ made'[e].note = made[e].note + 1
                   /\ \/ made'[e].task = made[e].task
                      \/ \E w \in Workers : /\ CreateTask(w) /\ MyRow(w) = e
                                            /\ made'[e].task = made[e].task + 1
<1>0. made \in [Events -> [note : Nat, task : Nat, inTicket : Nat]]
  BY DEF TypeInv, TypeOK
<1>1. CASE UNCHANGED made
  BY <1>1
<1>2. ASSUME NEW w \in Workers, CreateNote(w) PROVE Goal
  <2>1. made' = [made EXCEPT ![MyRow(w)].note = @ + 1]
    BY <1>2 DEF CreateNote
  <2>2. made'[e].task = made[e].task
    BY <1>0, <2>1
  <2>3. made'[e].note = made[e].note \/ (MyRow(w) = e /\ made'[e].note = made[e].note + 1)
    BY <1>0, <2>1
  <2> QED
    BY <1>2, <2>2, <2>3
<1>3. ASSUME NEW w \in Workers, CreateTask(w) PROVE Goal
  <2>1. made' = [made EXCEPT ![MyRow(w)].task = @ + 1]
    BY <1>3 DEF CreateTask
  <2>2. made'[e].note = made[e].note
    BY <1>0, <2>1
  <2>3. made'[e].task = made[e].task \/ (MyRow(w) = e /\ made'[e].task = made[e].task + 1)
    BY <1>0, <2>1
  <2> QED
    BY <1>3, <2>2, <2>3
<1>4. ASSUME NEW w \in Workers, TicketNote(w) PROVE Goal
  BY <1>0, <1>4 DEF TicketNote
<1>5. ASSUME NEW w \in Workers, Working(w)
      PROVE  UNCHANGED made \/ CreateNote(w) \/ CreateTask(w) \/ TicketNote(w)
  BY <1>5 DEF Working, Begin, LookupContact, SearchContact, CreateContact, SaveContact,
     GetContactLog, UpdateContact, SaveNote, PriorTicket, GetTicket, CreateTicket, SaveTicket,
     SaveTask, TransientError, PermanentError, hubspot
<1>6. CASE \A w \in Workers : ~Working(w)
  BY <1>1, <1>6, OtherSteps
<1> QED
  BY <1>1, <1>2, <1>3, <1>4, <1>5, <1>6

LEMMA TicketCount ==
  ASSUME TypeInv, NEW e \in Events
  PROVE  /\ IsFiniteSet(TicketsFor(e)) /\ Len(tickets) + 1 \notin TicketsFor(e)
         /\ Cardinality(TicketsFor(e)) \in Nat
<1>1. tickets \in Seq([event : Events, open : BOOLEAN])
  BY DEF TypeInv, TypeOK
<1>2. TicketsFor(e) \subseteq 1 .. Len(tickets) /\ Len(tickets) \in Nat
  BY <1>1 DEF TicketsFor
<1>3. IsFiniteSet(1 .. Len(tickets))
  BY <1>2, FS_Interval
<1>4. IsFiniteSet(TicketsFor(e))
  BY <1>2, <1>3, FS_Subset
<1> QED
  BY <1>2, <1>4, FS_CardinalityType

LEMMA TicketsCounted ==
  ASSUME TypeInv, [Next]_vars, NEW e \in Events
  PROVE  \/ Cardinality(TicketsFor(e))' = Cardinality(TicketsFor(e))
         \/ \E w \in Workers :
              /\ CreateTicket(w) /\ MyRow(w) = e
              /\ Cardinality(TicketsFor(e))' = Cardinality(TicketsFor(e)) + 1
<1>1. ASSUME NEW t \in DOMAIN tickets', t \notin DOMAIN tickets, tickets'[t].event = e
      PROVE  \E w \in Workers : /\ CreateTicket(w) /\ MyRow(w) = e
                                /\ Cardinality(TicketsFor(e))' = Cardinality(TicketsFor(e)) + 1
  <2>1. PICK w \in Workers :
          CreateTicket(w) /\ t = Len(tickets) + 1 /\ tickets'[t].event = MyRow(w)
    BY <1>1, TicketsChange
  <2>2. TicketsFor(e)' = TicketsFor(e) \cup {Len(tickets) + 1}
    BY <1>1, <2>1, TicketsChange DEF TicketsFor
  <2>3. Cardinality(TicketsFor(e)') = Cardinality(TicketsFor(e)) + 1
    BY <2>2, TicketCount, FS_AddElement
  <2> QED
    BY <1>1, <2>1, <2>3
<1>2. ASSUME \A t \in DOMAIN tickets' : t \notin DOMAIN tickets => tickets'[t].event # e
      PROVE  TicketsFor(e)' = TicketsFor(e)
  BY <1>2, TicketsChange DEF TicketsFor
<1> QED
  BY <1>1, <1>2

-----------------------------------------------------------------------------
(* What an event has beyond the record it keeps, which is the one whose id *)
(* is on the row or about to be saved there.  Without such an id every     *)
(* record HubSpot has for the event is one too many: that is what makes    *)
(* the count inductive, since the next attempt will create another.        *)
Over(n, kept) == IF kept THEN Extra(n) ELSE n

NoteKept(e)   == row[e].note \/ \E w \in Workers : Holds(w, e) /\ At(w, "saveNote")
TaskKept(e)   == row[e].task \/ \E w \in Workers : Holds(w, e) /\ At(w, "saveTask")
TicketKept(e) == row[e].ticket # NULL \/ \E w \in Workers : Holds(w, e) /\ At(w, "saveTicket")

NotesOver(e)   == Over(made[e].note, NoteKept(e))
TasksOver(e)   == Over(made[e].task, TaskKept(e))
TicketsOver(e) == Over(Cardinality(TicketsFor(e)), TicketKept(e))

PaidInv ==
  /\ faults <= MaxFaults
  /\ \A e \in Events : NotesOver(e) + TasksOver(e) + TicketsOver(e) <= faults

LEMMA OverFacts ==
  ASSUME NEW n \in Nat, NEW m \in Nat, NEW c \in BOOLEAN, NEW d \in BOOLEAN
  PROVE  /\ Over(n, c) \in Nat /\ Extra(n) <= Over(n, c)
         /\ m = n /\ (c => d) => Over(m, d) <= Over(n, c)
         /\ m = n => Over(m, d) <= Over(n, c) + 1
         /\ m = n + 1 /\ ~c => Over(m, d) <= Over(n, c) + 1
         /\ m = n + 1 /\ ~c /\ d => Over(m, d) <= Over(n, c)
BY DEF Over, Extra

(* A fault that strikes a process in the given phase.                      *)
Costs(phase) ==
  FaultStrikes /\ \E w \in Workers : worker[w].pc \in phase /\ worker'[w] # worker[w]

(* One process has the event, so the phase that creates a record finds     *)
(* neither an id on the row nor anybody about to save one.                 *)
LEMMA NothingKept ==
  ASSUME TypeInv, RecordInv, NoTwoHold, NEW w \in Workers, ~At(w, "poll")
  PROVE  /\ MyRow(w) \in Events
         /\ At(w, "note") => ~NoteKept(MyRow(w))
         /\ At(w, "task") => ~TaskKept(MyRow(w))
         /\ At(w, "createTicket") => ~TicketKept(MyRow(w))
<1>1. MyRow(w) \in Events /\ UpToDate(worker[w], row[MyRow(w)]) /\ Holds(w, MyRow(w))
  BY HeldMessageIsGood DEF GoodMessage, At, MyRow, RecordInv, Holds
<1>2. \A v \in Workers : Holds(v, MyRow(w)) => v = w
  BY <1>1 DEF NoTwoHold
<1>3. ASSUME At(w, "note") PROVE ~row[MyRow(w)].note
  BY <1>1, <1>3, PhaseMembers DEF UpToDate, At
<1>4. ASSUME At(w, "task") PROVE ~row[MyRow(w)].task
  BY <1>1, <1>4, PhaseMembers DEF UpToDate, At
<1>5. ASSUME At(w, "createTicket") PROVE row[MyRow(w)].ticket = NULL
  BY <1>1, <1>5, PhaseMembers DEF UpToDate, At
<1> QED
  BY <1>1, <1>2, <1>3, <1>4, <1>5 DEF NoteKept, TaskKept, TicketKept, At

(* Each kind of record for itself: a step adds at most one, and only if it *)
(* meets a fault in the phase of that kind.                                *)
LEMMA NotesArePaid ==
  ASSUME TypeInv, ProgressInv, RecordInv, NoTwoHold, [Next]_vars, NEW e \in Events
  PROVE  /\ NotesOver(e) \in Nat /\ NotesOver(e)' \in Nat
         /\ \/ NotesOver(e)' <= NotesOver(e)
            \/ NotesOver(e)' <= NotesOver(e) + 1 /\ Costs(NotePhase)
<1>0. /\ made[e].note \in Nat /\ made'[e].note \in Nat
      /\ NoteKept(e) \in BOOLEAN /\ NoteKept(e)' \in BOOLEAN
  <2>1. made \in [Events -> [note : Nat, task : Nat, inTicket : Nat]]
    BY DEF TypeInv, TypeOK
  <2> QED
    BY <2>1, MadeChanges DEF NoteKept
<1>1. ASSUME NEW w \in Workers, CreateNote(w), MyRow(w) = e,
             made'[e].note = made[e].note + 1
      PROVE  ~NoteKept(e) /\ (NoteKept(e)' \/ Costs(NotePhase))
  <2>1. At(w, "note") /\ ~At(w, "poll") /\ worker[w].pc \in NotePhase
    BY <1>1, PhaseMembers DEF CreateNote, At
  <2>2. ~NoteKept(e)
    BY <1>1, <2>1, NothingKept
  <2>3. CASE Lost(w)
    BY <2>1, <2>2, <2>3 DEF Lost, Failed, Costs, At
  <2>4. CASE worker'[w].pc = "saveNote" /\ worker'[w].event = e
    BY <2>2, <2>4 DEF NoteKept, Holds, At
  <2> QED
    BY <1>1, <2>3, <2>4, RecordSteps DEF Goes, Kept, MyRow
<1>2. ASSUME NoteKept(e) PROVE NoteKept(e)' \/ Costs(NotePhase)
  <2>1. CASE row[e].note
    BY <2>1, NotesStay DEF NoteKept
  <2>2. ASSUME NEW w \in Workers, Holds(w, e), At(w, "saveNote")
        PROVE  NoteKept(e)' \/ Costs(NotePhase)
    <3>1. worker[w].pc \in NotePhase
      BY <2>2, PhaseMembers DEF At
    <3>2. CASE worker'[w] = worker[w]
      BY <2>2, <3>2 DEF NoteKept, Holds, At
    <3>3. CASE SaveNote(w)
      BY <2>2, <3>3, WorkSavesIds DEF NoteKept, Working, Holds, MyRow
    <3>4. CASE FaultStrikes /\ worker'[w] # worker[w]
      BY <3>1, <3>4 DEF Costs
    <3> QED
      BY <2>2, <3>2, <3>3, <3>4, SavesAreNotSkipped DEF At
  <2> QED
    BY <1>2, <2>1, <2>2 DEF NoteKept
<1>3. made'[e].note = made[e].note \/ \E w \in Workers :
        CreateNote(w) /\ MyRow(w) = e /\ made'[e].note = made[e].note + 1
  BY MadeChanges
<1> QED
  BY <1>0, <1>1, <1>2, <1>3, OverFacts DEF NotesOver

LEMMA TasksArePaid ==
  ASSUME TypeInv, ProgressInv, RecordInv, NoTwoHold, [Next]_vars, NEW e \in Events
  PROVE  /\ TasksOver(e) \in Nat /\ TasksOver(e)' \in Nat
         /\ \/ TasksOver(e)' <= TasksOver(e)
            \/ TasksOver(e)' <= TasksOver(e) + 1 /\ Costs(TaskPhase)
<1>0. /\ made[e].task \in Nat /\ made'[e].task \in Nat
      /\ TaskKept(e) \in BOOLEAN /\ TaskKept(e)' \in BOOLEAN
  <2>1. made \in [Events -> [note : Nat, task : Nat, inTicket : Nat]]
    BY DEF TypeInv, TypeOK
  <2> QED
    BY <2>1, MadeChanges DEF TaskKept
<1>1. ASSUME NEW w \in Workers, CreateTask(w), MyRow(w) = e,
             made'[e].task = made[e].task + 1
      PROVE  ~TaskKept(e) /\ (TaskKept(e)' \/ Costs(TaskPhase))
  <2>1. At(w, "task") /\ ~At(w, "poll") /\ worker[w].pc \in TaskPhase
    BY <1>1, PhaseMembers DEF CreateTask, At
  <2>2. ~TaskKept(e)
    BY <1>1, <2>1, NothingKept
  <2>3. CASE Lost(w)
    BY <2>1, <2>2, <2>3 DEF Lost, Failed, Costs, At
  <2>4. CASE worker'[w].pc = "saveTask" /\ worker'[w].event = e
    BY <2>2, <2>4 DEF TaskKept, Holds, At
  <2> QED
    BY <1>1, <2>3, <2>4, RecordSteps DEF Goes, Kept, MyRow
<1>2. ASSUME TaskKept(e) PROVE TaskKept(e)' \/ Costs(TaskPhase)
  <2>1. CASE row[e].task
    BY <2>1, NotesStay DEF TaskKept
  <2>2. ASSUME NEW w \in Workers, Holds(w, e), At(w, "saveTask")
        PROVE  TaskKept(e)' \/ Costs(TaskPhase)
    <3>1. worker[w].pc \in TaskPhase
      BY <2>2, PhaseMembers DEF At
    <3>2. CASE worker'[w] = worker[w]
      BY <2>2, <3>2 DEF TaskKept, Holds, At
    <3>3. CASE SaveTask(w)
      BY <2>2, <3>3, WorkSavesIds DEF TaskKept, Working, Holds, MyRow
    <3>4. CASE FaultStrikes /\ worker'[w] # worker[w]
      BY <3>1, <3>4 DEF Costs
    <3> QED
      BY <2>2, <3>2, <3>3, <3>4, SavesAreNotSkipped DEF At
  <2> QED
    BY <1>2, <2>1, <2>2 DEF TaskKept
<1>3. made'[e].task = made[e].task \/ \E w \in Workers :
        CreateTask(w) /\ MyRow(w) = e /\ made'[e].task = made[e].task + 1
  BY MadeChanges
<1> QED
  BY <1>0, <1>1, <1>2, <1>3, OverFacts DEF TasksOver

LEMMA TicketsArePaid ==
  ASSUME TypeInv, ProgressInv, RecordInv, NoTwoHold, [Next]_vars, NEW e \in Events
  PROVE  /\ TicketsOver(e) \in Nat /\ TicketsOver(e)' \in Nat
         /\ \/ TicketsOver(e)' <= TicketsOver(e)
            \/ TicketsOver(e)' <= TicketsOver(e) + 1 /\ Costs(TicketPhase)
<1>0. /\ Cardinality(TicketsFor(e)) \in Nat /\ Cardinality(TicketsFor(e))' \in Nat
      /\ TicketKept(e) \in BOOLEAN /\ TicketKept(e)' \in BOOLEAN
  BY TicketCount, TicketsCounted DEF TicketKept
<1>1. ASSUME NEW w \in Workers, CreateTicket(w), MyRow(w) = e
      PROVE  ~TicketKept(e) /\ (TicketKept(e)' \/ Costs(TicketPhase))
  <2>1. At(w, "createTicket") /\ ~At(w, "poll") /\ worker[w].pc \in TicketPhase
    BY <1>1, PhaseMembers DEF CreateTicket, At
  <2>2. ~TicketKept(e)
    BY <1>1, <2>1, NothingKept
  <2>3. CASE Lost(w)
    BY <2>1, <2>2, <2>3 DEF Lost, Failed, Costs, At
  <2>4. CASE worker'[w].pc = "saveTicket"
    <3>1. worker'[w].event = e
      BY <1>1, WorkKeepsHolders DEF Working, SameHolders, MyRow
    <3> QED
      BY <2>2, <2>4, <3>1 DEF TicketKept, Holds, At
  <2> QED
    BY <1>1, <2>3, <2>4, RecordSteps
<1>2. ASSUME TicketKept(e) PROVE TicketKept(e)' \/ Costs(TicketPhase)
  <2>1. CASE row[e].ticket # NULL
    BY <2>1, IdsStay DEF TicketKept
  <2>2. ASSUME NEW w \in Workers, Holds(w, e), At(w, "saveTicket")
        PROVE  TicketKept(e)' \/ Costs(TicketPhase)
    <3>1. worker[w].pc \in TicketPhase
      BY <2>2, PhaseMembers DEF At
    <3>2. CASE worker'[w] = worker[w]
      BY <2>2, <3>2 DEF TicketKept, Holds, At
    <3>3. CASE SaveTicket(w)
      <4>1. worker[w].ticket # NULL
        BY <2>2 DEF ProgressInv, MessageSaved, At
      <4> QED
        BY <2>2, <3>3, <4>1, WorkSavesIds DEF TicketKept, Working, Holds, MyRow
    <3>4. CASE FaultStrikes /\ worker'[w] # worker[w]
      BY <3>1, <3>4 DEF Costs
    <3> QED
      BY <2>2, <3>2, <3>3, <3>4, SavesAreNotSkipped DEF At
  <2> QED
    BY <1>2, <2>1, <2>2 DEF TicketKept
<1> QED
  BY <1>0, <1>1, <1>2, TicketsCounted, OverFacts DEF TicketsOver

LEMMA PaidInvStep ==
  ASSUME TypeInv, ProgressInv, RecordInv, NoTwoHold, PaidInv, [Next]_vars
  PROVE  PaidInv'
<1>1. faults \in Nat /\ (faults' = faults \/ FaultStrikes) /\ MaxFaults \in Nat
  BY FaultsGrow, ConstantsOK DEF TypeInv, TypeOK
<1>2. faults' <= MaxFaults
  BY <1>1 DEF PaidInv, FaultStrikes
<1>3. ASSUME NEW e \in Events
      PROVE  NotesOver(e)' + TasksOver(e)' + TicketsOver(e)' <= faults'
  <2>1. /\ ~(Costs(NotePhase) /\ Costs(TaskPhase))
        /\ ~(Costs(NotePhase) /\ Costs(TicketPhase))
        /\ ~(Costs(TaskPhase) /\ Costs(TicketPhase))
    BY OneProcessMoves, PhaseMembers DEF Costs
  <2>2. NotesOver(e) + TasksOver(e) + TicketsOver(e) <= faults
    BY DEF PaidInv
  <2>3. /\ Costs(NotePhase) => faults' = faults + 1
        /\ Costs(TaskPhase) => faults' = faults + 1
        /\ Costs(TicketPhase) => faults' = faults + 1
        /\ faults' = faults \/ faults' = faults + 1
    BY <1>1 DEF Costs, FaultStrikes
  <2> QED
    BY <1>1, <2>1, <2>2, <2>3, NotesArePaid, TasksArePaid, TicketsArePaid
<1> QED
  BY <1>2, <1>3 DEF PaidInv

LEMMA InitPaidInv == Init => PaidInv
<1> SUFFICES ASSUME Init PROVE PaidInv
  OBVIOUS
<1>1. faults = 0 /\ MaxFaults \in Nat /\ tickets = <<>>
  BY ConstantsOK DEF Init
<1>2. ASSUME NEW e \in Events
      PROVE  NotesOver(e) + TasksOver(e) + TicketsOver(e) <= faults
  <2>1. made[e].note = 0 /\ made[e].task = 0
    <3>1. made = [f \in Events |-> [note |-> 0, task |-> 0, inTicket |-> 0]]
      BY DEF Init
    <3> QED
      BY <3>1
  <2>2. TicketsFor(e) = {}
    BY <1>1 DEF TicketsFor
  <2>3. Cardinality(TicketsFor(e)) = 0
    BY <2>2, FS_EmptySet
  <2> QED
    BY <1>1, <2>1, <2>3 DEF NotesOver, TasksOver, TicketsOver, Over, Extra
<1> QED
  BY <1>1, <1>2 DEF PaidInv

LEMMA PaidInvMeans ==
  ASSUME TypeInv, PaidInv, NEW e \in Events
  PROVE  /\ made[e].note \in Nat /\ made[e].task \in Nat /\ Cardinality(TicketsFor(e)) \in Nat
         /\ Extra(made[e].note) \in Nat /\ Extra(made[e].task) \in Nat
         /\ Extra(Cardinality(TicketsFor(e))) \in Nat
         /\ Extra(made[e].note) + Extra(made[e].task) + Extra(Cardinality(TicketsFor(e))) <= faults
<1>1. made[e].note \in Nat /\ made[e].task \in Nat /\ faults \in Nat
  BY DEF TypeInv, TypeOK
<1>2. Cardinality(TicketsFor(e)) \in Nat
  BY TicketCount
<1>3. NoteKept(e) \in BOOLEAN /\ TaskKept(e) \in BOOLEAN /\ TicketKept(e) \in BOOLEAN
  <2>1. row[e].note \in BOOLEAN /\ row[e].task \in BOOLEAN
    BY DEF TypeInv, TypeOK, Row
  <2> QED
    BY <2>1 DEF NoteKept, TaskKept, TicketKept
<1>4. /\ NotesOver(e) \in Nat /\ Extra(made[e].note) <= NotesOver(e)
      /\ TasksOver(e) \in Nat /\ Extra(made[e].task) <= TasksOver(e)
      /\ TicketsOver(e) \in Nat /\ Extra(Cardinality(TicketsFor(e))) <= TicketsOver(e)
  BY <1>1, <1>2, <1>3, OverFacts DEF NotesOver, TasksOver, TicketsOver
<1>5. /\ Extra(made[e].note) \in Nat /\ Extra(made[e].task) \in Nat
      /\ Extra(Cardinality(TicketsFor(e))) \in Nat
  BY <1>1, <1>2 DEF Extra
<1>6. NotesOver(e) + TasksOver(e) + TicketsOver(e) <= faults
  BY DEF PaidInv
<1> QED
  BY <1>1, <1>2, <1>4, <1>5, <1>6

(* DuplicatesArePaidFor: if no two processes meet at an event (one process *)
(* suffices, and so do leases that outlive the work, with any number of    *)
(* processes), every note, task or ticket too many of an event stands for  *)
(* a crash or a lost answer that struck while one was being made, whatever *)
(* is retried or replayed.                                                 *)
THEOREM EveryDuplicateIsPaidFor ==
  ASSUME OneAtATime
  PROVE  Spec => []DuplicatesArePaidFor
<1>1. Init => TypeInv /\ ProgressInv /\ LeaseInv /\ RecordInv /\ PaidInv
  BY InitTypeInv, InitProgressInv, InitLeaseInv, InitRecordInv, InitPaidInv
<1>2. TypeInv /\ ProgressInv /\ LeaseInv /\ RecordInv /\ PaidInv /\ [Next]_vars
        => TypeInv' /\ ProgressInv' /\ LeaseInv' /\ RecordInv' /\ PaidInv'
  BY TypeInvStep, ProgressInvStep, LeaseInvStep, RecordInvStep, PaidInvStep DEF LeaseInv
<1>3. TypeInv /\ PaidInv => DuplicatesArePaidFor
  BY PaidInvMeans DEF DuplicatesArePaidFor
<1> QED
  BY <1>1, <1>2, <1>3, PTL DEF Spec

-----------------------------------------------------------------------------
(* The rest needs every HubSpot answer to arrive and every process to live. *)
LEMMA NothingLost ==
  ASSUME MaxFaults = 0, TypeInv
  PROVE  ~FaultStrikes /\ \A w \in Workers : ~Lost(w)
BY DEF TypeInv, TypeOK, Lost, FaultStrikes

LEMMA ContactsChange ==
  ASSUME TypeInv, [Next]_vars
  PROVE  /\ \A c \in DOMAIN contacts :
              /\ c \in DOMAIN contacts' /\ contacts'[c].phone = contacts[c].phone
              /\ contacts[c].indexed => contacts'[c].indexed
         /\ \A c \in DOMAIN contacts' : c \notin DOMAIN contacts =>
              \E w \in Workers : /\ CreateContact(w) /\ c = Len(contacts) + 1
                                /\ contacts'[c].phone = PhoneOf[MyRow(w)]
<1> DEFINE Goal == /\ \A c \in DOMAIN contacts :
                        /\ c \in DOMAIN contacts' /\ contacts'[c].phone = contacts[c].phone
                        /\ contacts[c].indexed => contacts'[c].indexed
                   /\ \A c \in DOMAIN contacts' : c \notin DOMAIN contacts =>
                        \E w \in Workers : /\ CreateContact(w) /\ c = Len(contacts) + 1
                                          /\ contacts'[c].phone = PhoneOf[MyRow(w)]
<1>0. contacts \in Seq(ContactRecord)
  BY DEF TypeInv, TypeOK
<1>1. CASE UNCHANGED contacts
  BY <1>1
<1>2. ASSUME NEW w \in Workers, CreateContact(w) PROVE Goal
  <2>1. PICK d : d = [phone |-> PhoneOf[MyRow(w)], log |-> <<>>, indexed |-> FALSE]
    OBVIOUS
  <2>2. contacts' = Append(contacts, d) /\ d.phone = PhoneOf[MyRow(w)]
    BY <1>2, <2>1 DEF CreateContact
  <2> QED
    BY <1>0, <1>2, <2>2
<1>3. ASSUME NEW w \in Workers, UpdateContact(w) PROVE Goal
  <2>1. PICK c, log : contacts' = [contacts EXCEPT ![c].log = log]
    BY <1>3 DEF UpdateContact
  <2> QED
    BY <1>0, <2>1 DEF ContactRecord
<1>4. CASE \A w \in Workers : ~Working(w)
  BY <1>4, OtherSteps
<1>5. ASSUME NEW w \in Workers, Working(w)
      PROVE  UNCHANGED contacts \/ CreateContact(w) \/ UpdateContact(w)
  BY <1>5 DEF Working, Begin, LookupContact, SearchContact, SaveContact, GetContactLog, CreateNote,
     SaveNote, PriorTicket, GetTicket, CreateTicket, SaveTicket, TicketNote, CreateTask, SaveTask,
     TransientError, PermanentError, hubspot
<1> QED
  BY <1>1, <1>2, <1>3, <1>4, <1>5

(* One contact per caller: a contact that the search cannot see yet is on  *)
(* a row, where the lookup finds it, or about to be saved on one.          *)
ContactInv ==
  /\ \A c, d \in DOMAIN contacts : contacts[c].phone = contacts[d].phone => c = d
  /\ \A c \in DOMAIN contacts :
       \/ contacts[c].indexed
       \/ \E f \in Events : row[f].contact = c
       \/ \E w \in Workers : At(w, "saveMade") /\ worker[w].contact = c
  /\ \A w \in Workers : At(w, "create") =>
       \A c \in DOMAIN contacts : contacts[c].phone # PhoneOf[MyRow(w)]

LEMMA SearchSeesAll ==
  ASSUME RecordsInv, LogInv, ContactInv, NEW w \in Workers, SearchContact(w),
         worker'[w].pc = "create", NEW c \in DOMAIN contacts
  PROVE  contacts[c].phone # PhoneOf[MyRow(w)]
<1>1. SUFFICES ASSUME contacts[c].phone = PhoneOf[MyRow(w)] PROVE FALSE
  OBVIOUS
<1>2. worker[w].pc = "search" /\ ~At(w, "poll") /\ Stranger(MyRow(w))
  <2>1. worker[w].pc = "search" /\ ~At(w, "poll")
    BY DEF SearchContact, At
  <2> QED
    BY <2>1 DEF LogInv, LogOf, MyRow
<1>3. ~contacts[c].indexed
  BY <1>1, ContactSteps DEF RecordsInv, Goes
<1>4. c # NULL
  BY DEF RecordsInv, TypeInv, TypeOK, NULL
<1>5. ASSUME NEW f \in Events, row[f].contact = c PROVE FALSE
  BY <1>1, <1>2, <1>4, <1>5 DEF Stranger, RecordsInv, CallerInv, OwnContact
<1>6. ASSUME NEW v \in Workers, At(v, "saveMade"), worker[v].contact = c PROVE FALSE
  <2>1. ~At(v, "poll") /\ v # w
    BY <1>2, <1>6 DEF At
  <2> QED
    BY <1>1, <1>2, <1>4, <1>6, <2>1, InHand DEF OwnContact
<1> QED
  BY <1>3, <1>5, <1>6 DEF ContactInv

LEMMA ContactInvStep ==
  ASSUME MaxFaults = 0, RecordsInv, LogInv, ContactInv, [Next]_vars
  PROVE  ContactInv'
<1>0. TypeInv /\ RecordInv /\ \A c \in DOMAIN contacts : c # NULL
  BY DEF RecordsInv, TypeInv, TypeOK, NULL
<1>1. ASSUME NEW c \in DOMAIN contacts', NEW d \in DOMAIN contacts',
             contacts'[c].phone = contacts'[d].phone
      PROVE  c = d
  <2>1. ASSUME NEW x \in DOMAIN contacts', NEW y \in DOMAIN contacts, x \notin DOMAIN contacts
        PROVE  contacts'[x].phone # contacts'[y].phone
    <3>1. PICK w \in Workers : CreateContact(w) /\ contacts'[x].phone = PhoneOf[MyRow(w)]
      BY <1>0, <2>1, ContactsChange
    <3>2. contacts[y].phone # PhoneOf[MyRow(w)]
      BY <3>1 DEF ContactInv, CreateContact
    <3> QED
      BY <1>0, <3>1, <3>2, ContactsChange
  <2> QED
    BY <1>0, <1>1, <2>1, ContactsChange DEF ContactInv
<1>2. ASSUME NEW c \in DOMAIN contacts'
      PROVE  \/ contacts'[c].indexed
             \/ \E f \in Events : row'[f].contact = c
             \/ \E w \in Workers : worker'[w].pc = "saveMade" /\ worker'[w].contact = c
  <2>1. ASSUME c \notin DOMAIN contacts
        PROVE  \E w \in Workers : worker'[w].pc = "saveMade" /\ worker'[w].contact = c
    BY <1>0, <2>1, ContactsChange, ContactSteps, NothingLost
  <2>2. ASSUME NEW f \in Events, row[f].contact = c, c \in DOMAIN contacts
        PROVE  row'[f].contact = c
    BY <1>0, <2>2, IdsStay
  <2>3. ASSUME NEW w \in Workers, At(w, "saveMade"), worker[w].contact = c
        PROVE  \/ worker'[w].pc = "saveMade" /\ worker'[w].contact = c
               \/ \E f \in Events : row'[f].contact = c
    <3>1. worker[w].pc = "saveMade" /\ ~At(w, "poll")
      BY <2>3 DEF At
    <3>2. CASE worker'[w] = worker[w]
      BY <2>3, <3>1, <3>2
    <3>3. CASE SaveContact(w)
      BY <1>0, <2>3, <3>1, <3>3, InHand, WorkSavesIds DEF Working
    <3> QED
      BY <1>0, <3>1, <3>2, <3>3, SavesAreNotSkipped, NothingLost DEF At
  <2> QED
    BY <1>0, <2>1, <2>2, <2>3, ContactsChange DEF ContactInv
<1>3. ASSUME NEW v \in Workers, worker'[v].pc = "create", NEW c \in DOMAIN contacts'
      PROVE  contacts'[c].phone # PhoneOf[worker'[v].event]
  <2>1. CASE Working(v)
    <3>1. SearchContact(v)
      BY <1>0, <1>3, <2>1, ContactSteps, LogSteps, RecordSteps, NextPhases
         DEF Working, Goes, Lost, Failed
    <3>2. UNCHANGED contacts /\ worker'[v].event = MyRow(v)
      BY <1>0, <2>1, <3>1, WorkKeepsHolders DEF SearchContact, hubspot, SameHolders, MyRow
    <3> QED
      BY <1>3, <3>1, <3>2, SearchSeesAll
  <2>2. CASE ~Working(v)
    <3>1. worker'[v] = worker[v]
      <4>1. ASSUME NEW w \in Workers, Working(w) PROVE worker'[v] = worker[v]
        BY <1>0, <2>2, <4>1, WorkIsLocal
      <4>2. CASE \A w \in Workers : ~Working(w)
        <5>1. Idle.pc # "create" /\ \A e \in Events : Snapshot(e).pc # "create"
          BY DEF Idle, Snapshot
        <5> QED
          BY <1>0, <1>3, <4>2, <5>1, OtherSteps
      <4> QED
        BY <4>1, <4>2
    <3>2. At(v, "create") /\ ~At(v, "poll") /\ worker'[v].event = MyRow(v)
      BY <1>3, <3>1 DEF At, MyRow
    <3>3. ASSUME NEW w \in Workers, CreateContact(w) PROVE PhoneOf[MyRow(w)] # PhoneOf[MyRow(v)]
      <4>1. w # v /\ ~At(w, "poll")
        BY <2>2, <3>3, WorkIsInHand DEF Working
      <4> QED
        BY <3>2, <4>1, InHand
    <3> QED
      BY <1>0, <3>2, <3>3, ContactsChange DEF ContactInv
  <2> QED
    BY <2>1, <2>2
<1> QED
  BY <1>1, <1>2, <1>3 DEF ContactInv, At, MyRow

(* Tickets: each is on its event's row or about to be saved there, and a   *)
(* process that is to open one has found none of the caller's, or a closed *)
(* one.                                                                    *)
SameCaller(s, t) == PhoneOf[tickets[s].event] = PhoneOf[tickets[t].event]

TicketInv ==
  /\ \A t \in DOMAIN tickets :
       \/ row[tickets[t].event].ticket = t
       \/ \E w \in Workers :
            Holds(w, tickets[t].event) /\ At(w, "saveTicket") /\ worker[w].ticket = t
  /\ \A s, t \in DOMAIN tickets : s < t /\ SameCaller(s, t) =>
       \E u \in DOMAIN tickets : u < t /\ ~tickets[u].open /\ SameCaller(u, t)
  /\ \A w \in Workers : At(w, "createTicket") =>
       \A s \in DOMAIN tickets : PhoneOf[tickets[s].event] = PhoneOf[MyRow(w)] =>
         \E u \in DOMAIN tickets :
           ~tickets[u].open /\ PhoneOf[tickets[u].event] = PhoneOf[MyRow(w)]

LEMMA TicketFacts ==
  ASSUME TypeInv, NEW t \in DOMAIN tickets
  PROVE  t # NULL /\ tickets[t].event \in Events
<1>1. tickets \in Seq([event : Events, open : BOOLEAN])
  BY DEF TypeInv, TypeOK
<1>2. tickets[t] \in [event : Events, open : BOOLEAN]
  BY <1>1, ElementOfSeq
<1> QED
  BY <1>1, <1>2 DEF NULL

LEMMA PriorIsClosed ==
  ASSUME RecordsInv, TicketInv, NEW w \in Workers, PriorTicket(w) \/ GetTicket(w),
         worker'[w].pc = "createTicket", NEW s \in DOMAIN tickets,
         PhoneOf[tickets[s].event] = PhoneOf[MyRow(w)]
  PROVE  \E u \in DOMAIN tickets :
           ~tickets[u].open /\ PhoneOf[tickets[u].event] = PhoneOf[MyRow(w)]
<1>0. /\ TypeInv /\ ~At(w, "poll") /\ worker[w].pc \in {"priorTicket", "getTicket"}
      /\ s # NULL /\ tickets[s].event \in Events
  BY TicketFacts DEF PriorTicket, GetTicket, At, RecordsInv
<1>1. CASE PriorTicket(w)
  <2>1. row[tickets[s].event].ticket # s
    BY <1>0, <1>1, RecordSteps
  <2>2. PICK v \in Workers : Holds(v, tickets[s].event) /\ At(v, "saveTicket")
    BY <2>1 DEF TicketInv
  <2>3. v # w /\ ~At(v, "poll") /\ MyRow(v) = tickets[s].event
    BY <1>0, <2>2 DEF At, Holds, MyRow
  <2> QED
    BY <1>0, <2>3, InHand
<1>2. CASE GetTicket(w)
  <2>1. worker[w].ticket # NULL /\ ~tickets[worker[w].ticket].open
    BY <1>0, <1>2, RecordSteps, InHand DEF MessageSaved, GetTicket, At, Goes
  <2> QED
    BY <1>0, <2>1, InHand DEF OwnTicket
<1> QED
  BY <1>1, <1>2

LEMMA TicketInvStep ==
  ASSUME MaxFaults = 0, RecordsInv, TicketInv, [Next]_vars
  PROVE  TicketInv'
<1>0. /\ TypeInv /\ RecordInv /\ Len(tickets) \in Nat /\ DOMAIN tickets = 1 .. Len(tickets)
      /\ \A t \in DOMAIN tickets : t # NULL /\ tickets[t].event \in Events
  BY TicketFacts DEF RecordsInv, TypeInv, TypeOK
<1>1. ASSUME NEW t \in DOMAIN tickets'
      PROVE  \/ row'[tickets'[t].event].ticket = t
             \/ \E w \in Workers : /\ worker'[w].event = tickets'[t].event
                                   /\ worker'[w].pc = "saveTicket" /\ worker'[w].ticket = t
  <2>1. CASE t \notin DOMAIN tickets
    <3>1. PICK w \in Workers : CreateTicket(w) /\ t = Len(tickets) + 1 /\ tickets'[t].event = MyRow(w)
      BY <1>0, <2>1, TicketsChange
    <3>2. worker'[w].pc = "saveTicket" /\ worker'[w].ticket = t
      BY <1>0, <3>1, RecordSteps, NothingLost
    <3>3. worker'[w].event = MyRow(w)
      BY <1>0, <3>1, WorkKeepsHolders DEF Working, SameHolders, MyRow
    <3> QED
      BY <3>1, <3>2, <3>3
  <2>2. CASE t \in DOMAIN tickets
    <3>1. tickets'[t].event = tickets[t].event
      BY <1>0, <2>2, TicketsChange
    <3>2. CASE row[tickets[t].event].ticket = t
      BY <1>0, <2>2, <3>1, <3>2, IdsStay
    <3>3. ASSUME NEW w \in Workers, Holds(w, tickets[t].event), At(w, "saveTicket"),
                 worker[w].ticket = t
          PROVE  \/ row'[tickets[t].event].ticket = t
                 \/ /\ worker'[w].event = tickets[t].event
                    /\ worker'[w].pc = "saveTicket" /\ worker'[w].ticket = t
      <4>1. CASE worker'[w] = worker[w]
        BY <3>3, <4>1 DEF Holds, At
      <4>2. CASE SaveTicket(w)
        BY <1>0, <2>2, <3>3, <4>2, WorkSavesIds DEF Working, Holds, MyRow
      <4> QED
        BY <1>0, <3>3, <4>1, <4>2, SavesAreNotSkipped, NothingLost DEF At
    <3> QED
      BY <2>2, <3>1, <3>2, <3>3 DEF TicketInv
  <2> QED
    BY <2>1, <2>2
<1>2. ASSUME NEW s \in DOMAIN tickets', NEW t \in DOMAIN tickets', s < t,
             PhoneOf[tickets'[s].event] = PhoneOf[tickets'[t].event]
      PROVE  \E u \in DOMAIN tickets' :
               u < t /\ ~tickets'[u].open /\ PhoneOf[tickets'[u].event] = PhoneOf[tickets'[t].event]
  <2>1. CASE t \in DOMAIN tickets
    <3>1. s \in DOMAIN tickets
      BY <1>0, <1>2, <2>1, TicketsChange
    <3>2. PICK u \in DOMAIN tickets : u < t /\ ~tickets[u].open /\ SameCaller(u, t)
      BY <1>0, <1>2, <2>1, <3>1, TicketsChange DEF TicketInv, SameCaller
    <3> QED
      BY <1>0, <2>1, <3>2, TicketsChange DEF SameCaller
  <2>2. CASE t \notin DOMAIN tickets
    <3>1. PICK w \in Workers : CreateTicket(w) /\ t = Len(tickets) + 1 /\ tickets'[t].event = MyRow(w)
      BY <1>0, <2>2, TicketsChange
    <3>2. s \in DOMAIN tickets
      <4>1. s # Len(tickets) + 1
        BY <1>0, <1>2, <3>1
      <4> QED
        BY <1>0, <4>1, TicketsChange
    <3>3. PhoneOf[tickets[s].event] = PhoneOf[MyRow(w)]
      BY <1>0, <1>2, <3>1, <3>2, TicketsChange
    <3>4. PICK u \in DOMAIN tickets : ~tickets[u].open /\ PhoneOf[tickets[u].event] = PhoneOf[MyRow(w)]
      BY <3>1, <3>2, <3>3 DEF TicketInv, CreateTicket
    <3>5. u < t
      BY <1>0, <3>1, <3>4
    <3> QED
      BY <1>0, <3>1, <3>4, <3>5, TicketsChange
  <2> QED
    BY <2>1, <2>2
<1>3. ASSUME NEW v \in Workers, worker'[v].pc = "createTicket", NEW s \in DOMAIN tickets',
             PhoneOf[tickets'[s].event] = PhoneOf[worker'[v].event]
      PROVE  \E u \in DOMAIN tickets' :
               ~tickets'[u].open /\ PhoneOf[tickets'[u].event] = PhoneOf[worker'[v].event]
  <2>1. CASE Working(v)
    <3>1. PriorTicket(v) \/ GetTicket(v)
      BY <1>0, <1>3, <2>1, ContactSteps, LogSteps, RecordSteps, NextPhases
         DEF Working, Goes, Lost, Failed
    <3>2. UNCHANGED tickets /\ worker'[v].event = MyRow(v)
      BY <1>0, <2>1, <3>1, WorkKeepsHolders DEF PriorTicket, GetTicket, hubspot, SameHolders, MyRow
    <3> QED
      BY <1>3, <3>1, <3>2, PriorIsClosed
  <2>2. CASE ~Working(v)
    <3>1. worker'[v] = worker[v]
      <4>1. ASSUME NEW w \in Workers, Working(w) PROVE worker'[v] = worker[v]
        BY <1>0, <2>2, <4>1, WorkIsLocal
      <4>2. CASE \A w \in Workers : ~Working(w)
        <5>1. Idle.pc # "createTicket" /\ \A e \in Events : Snapshot(e).pc # "createTicket"
          BY DEF Idle, Snapshot
        <5> QED
          BY <1>0, <1>3, <4>2, <5>1, OtherSteps
      <4> QED
        BY <4>1, <4>2
    <3>2. At(v, "createTicket") /\ ~At(v, "poll") /\ worker'[v].event = MyRow(v)
      BY <1>3, <3>1 DEF At, MyRow
    <3>3. s \in DOMAIN tickets
      <4>1. ASSUME NEW w \in Workers, CreateTicket(w), tickets'[s].event = MyRow(w) PROVE FALSE
        <5>1. w # v /\ ~At(w, "poll")
          BY <2>2, <4>1, WorkIsInHand DEF Working
        <5> QED
          BY <1>3, <3>2, <4>1, <5>1, InHand
      <4> QED
        BY <1>0, <4>1, TicketsChange
    <3>4. PICK u \in DOMAIN tickets : ~tickets[u].open /\ PhoneOf[tickets[u].event] = PhoneOf[MyRow(v)]
      BY <1>0, <1>3, <3>2, <3>3, TicketsChange DEF TicketInv
    <3> QED
      BY <1>0, <3>2, <3>4, TicketsChange
  <2> QED
    BY <2>1, <2>2
<1> QED
  BY <1>1, <1>2, <1>3 DEF TicketInv, SameCaller, At, MyRow, Holds

LEMMA RecordsAreSingle ==
  ASSUME MaxFaults = 0, RecordsInv, ContactInv, PaidInv, TicketInv
  PROVE  OneRecordEach
<1>0. NoTwoHold /\ \A t \in DOMAIN tickets : t # NULL /\ tickets[t].event \in Events
  BY OneCallerOneHolder, TicketFacts DEF RecordsInv
<1>1. ASSUME NEW s \in DOMAIN tickets, NEW t \in DOMAIN tickets, tickets[s].event = tickets[t].event
      PROVE  s = t
  <2> DEFINE e == tickets[t].event
  <2>1. ASSUME NEW w \in Workers, Holds(w, e), At(w, "saveTicket") PROVE row[e].ticket = NULL
    <3>1. ~At(w, "poll") /\ worker[w].pc \in TicketPhase /\ MyRow(w) = e
      BY <2>1, PhaseMembers DEF At, Holds, MyRow
    <3> QED
      BY <3>1, InHand DEF UpToDate
  <2>2. ASSUME NEW v \in Workers, Holds(v, e), NEW w \in Workers, Holds(w, e) PROVE v = w
    BY <1>0, <2>2 DEF NoTwoHold
  <2>3. \/ row[e].ticket = s
        \/ \E w \in Workers : Holds(w, e) /\ At(w, "saveTicket") /\ worker[w].ticket = s
    BY <1>1 DEF TicketInv
  <2>4. \/ row[e].ticket = t
        \/ \E w \in Workers : Holds(w, e) /\ At(w, "saveTicket") /\ worker[w].ticket = t
    BY DEF TicketInv
  <2> HIDE DEF e
  <2> QED
    BY <1>0, <2>1, <2>2, <2>3, <2>4
<1>2. ASSUME NEW e \in Events PROVE made[e].note <= 1 /\ made[e].task <= 1
  <2>1. TypeInv /\ faults = 0
    BY DEF PaidInv, RecordsInv, TypeInv, TypeOK
  <2>2. Extra(made[e].note) = 0 /\ Extra(made[e].task) = 0
    BY <1>2, <2>1, PaidInvMeans
  <2>3. made[e].note \in Nat /\ made[e].task \in Nat
    BY <1>2, <2>1, PaidInvMeans
  <2> QED
    BY <2>2, <2>3 DEF Extra
<1> QED
  BY <1>1, <1>2 DEF OneRecordEach, ContactInv, TicketInv, SameCaller

(* OneRecordEach: when no answer is lost and no two processes work for one *)
(* caller at once, the caller has one contact, an event one note, task and *)
(* ticket, and a further ticket of the caller needs a closed one.          *)
THEOREM OneRecordOfEach ==
  ASSUME MaxFaults = 0, KnownContactsFound
  PROVE  Spec /\ []OneCallerAtATime => []OneRecordEach
<1>1. Init => HandInv /\ LogInv /\ ContactInv /\ PaidInv /\ TicketInv
  <2>1. Init => LogInv
    BY DEF Init, Idle, NewRow, LogInv, At
  <2>2. Init => ContactInv
    BY DEF Init, Idle, ContactInv, KnownContactsFound, At
  <2>3. Init => TicketInv
    BY DEF Init, Idle, TicketInv, At
  <2> QED
    BY <2>1, <2>2, <2>3, InitHandInv, InitPaidInv
<1>2. HandInv /\ LogInv /\ ContactInv /\ PaidInv /\ TicketInv /\ OneCallerAtATime /\ [Next]_vars
        => HandInv' /\ LogInv' /\ ContactInv' /\ PaidInv' /\ TicketInv'
  BY HandInvStep, LogInvStep, ContactInvStep, PaidInvStep, TicketInvStep,
     OneCallerOneHolder DEF HandInv, RecordsInv
<1>3. HandInv /\ ContactInv /\ PaidInv /\ TicketInv /\ OneCallerAtATime => OneRecordEach
  BY RecordsAreSingle DEF HandInv, RecordsInv
<1> QED
  BY <1>1, <1>2, <1>3, PTL DEF Spec

(* With one process the condition on callers holds at every moment.        *)
LEMMA OneWorkerOneCaller ==
  ASSUME \A v, w \in Workers : v = w
  PROVE  []OneCallerAtATime
<1>1. OneCallerAtATime
  BY DEF OneCallerAtATime
<1> QED
  BY <1>1, PTL

(* DeliveredIsLogged and HistoryKept: one delivery worker, which is what   *)
(* make worker starts, is enough for both promises on the log.             *)
THEOREM OneWorkerKeepsTheLog ==
  ASSUME \A v, w \in Workers : v = w, CallersUnlogged
  PROVE  Spec => []DeliveredIsLogged /\ HistoryKept
<1>1. []OneCallerAtATime
  BY OneWorkerOneCaller
<1>2. Spec /\ []OneCallerAtATime => []DeliveredIsLogged
  BY DeliveredCanBeRead
<1>3. Spec /\ []OneCallerAtATime => HistoryKept
  BY NothingDropsOut
<1> QED
  BY <1>1, <1>2, <1>3, PTL

(* OneRecordEach: as long as no answer is lost, one delivery worker is     *)
(* enough for one record of each kind, too.                                *)
THEOREM OneWorkerOneRecord ==
  ASSUME \A v, w \in Workers : v = w, MaxFaults = 0, KnownContactsFound
  PROVE  Spec => []OneRecordEach
<1>1. []OneCallerAtATime
  BY OneWorkerOneCaller
<1>2. Spec /\ []OneCallerAtATime => []OneRecordEach
  BY OneRecordOfEach
<1> QED
  BY <1>1, <1>2, PTL
=============================================================================
