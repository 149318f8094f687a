------------------------- MODULE DeliveryRecordProofs -------------------------
(***************************************************************************)
(* Which HubSpot records an event may touch and how often.  An event only  *)
(* lands on records of its own caller, with or without a good lease; under *)
(* a lease that outlives the work, or with one worker, nothing that is on  *)
(* the row is created again, and the note into a reused ticket is written  *)
(* at most once.                                                           *)
(***************************************************************************)
EXTENDS DeliveryLeaseProofs, DeliveryProgressProofs

(* The ids c and t may stand on event e, or in a message about e.          *)
OwnContact(e, c) ==
  c # NULL => c \in DOMAIN contacts /\ contacts[c].phone = PhoneOf[e]

OwnTicket(e, t) ==
  t # NULL => t \in DOMAIN tickets /\ PhoneOf[tickets[t].event] = PhoneOf[e]

(* The messages are the strengthening: an id is saved from a message, and  *)
(* the message took it from HubSpot or from another row.                   *)
CallerInv ==
  /\ \A e \in Events : OwnContact(e, row[e].contact) /\ OwnTicket(e, row[e].ticket)
  /\ \A w \in Workers : /\ OwnContact(MyRow(w), worker[w].contact)
                        /\ OwnTicket(MyRow(w), worker[w].ticket)

(* HubSpot never takes a record away or gives it to another caller.        *)
RecordsKept ==
  /\ \A c \in DOMAIN contacts : c \in DOMAIN contacts' /\ contacts'[c].phone = contacts[c].phone
  /\ \A t \in DOMAIN tickets : t \in DOMAIN tickets' /\ tickets'[t].event = tickets[t].event

LEMMA InitCallerInv == Init => CallerInv
BY DEF Init, NewRow, Idle, CallerInv, OwnContact, OwnTicket

LEMMA OwnKept ==
  ASSUME RecordsKept, NEW e, NEW i
  PROVE  /\ OwnContact(e, i) => OwnContact(e, i)'
         /\ OwnTicket(e, i) => OwnTicket(e, i)'
BY DEF RecordsKept, OwnContact, OwnTicket

LEMMA HubspotKeepsRecords ==
  ASSUME TypeInv, [Next]_vars
  PROVE  RecordsKept
<1>0. contacts \in Seq(ContactRecord) /\ tickets \in Seq([event : Events, open : BOOLEAN])
      /\ NULL \notin Events
  BY ConstantsOK DEF TypeInv, TypeOK
<1>1. CASE UNCHANGED <<contacts, tickets>>
  BY <1>1 DEF RecordsKept
<1>2. ASSUME NEW w \in Workers, CreateContact(w) PROVE RecordsKept
  BY <1>0, <1>2 DEF CreateContact, RecordsKept
<1>3. ASSUME NEW w \in Workers, CreateTicket(w) PROVE RecordsKept
  BY <1>0, <1>3 DEF CreateTicket, RecordsKept
<1>4. ASSUME NEW w \in Workers, UpdateContact(w) PROVE RecordsKept
  BY <1>0, <1>4 DEF UpdateContact, RecordsKept, ContactRecord
<1>5. ASSUME NEW c \in DOMAIN contacts, IndexCatchesUp(c) PROVE RecordsKept
  BY <1>0, <1>5 DEF IndexCatchesUp, RecordsKept, ContactRecord
<1>6. ASSUME NEW t \in DOMAIN tickets, TicketCloses(t) PROVE RecordsKept
  BY <1>0, <1>6 DEF TicketCloses, RecordsKept
<1>7. ASSUME NEW w \in Workers, Step(w) PROVE RecordsKept
  BY <1>1, <1>2, <1>3, <1>4, <1>7 DEF Step, ClaimNext, Claim, Begin, LookupContact,
     SearchContact, SaveContact, GetContactLog, CreateNote, SaveNote, PriorTicket, GetTicket,
     SaveTicket, TicketNote, CreateTask, SaveTask, TransientError, PermanentError, Ack, Nack,
     DeadLetter, Finish, hubspot
<1>8. ASSUME \/ \E e \in Events : Publish(e) \/ GateOpens(e) \/ LeaseExpires(e) \/ BackoffElapses(e)
             \/ \E w \in Workers : Abandon(w)
             \/ Replay
             \/ UNCHANGED vars
      PROVE  UNCHANGED <<contacts, tickets>>
  BY <1>8 DEF Publish, GateOpens, LeaseExpires, BackoffElapses, Abandon, Replay, vars, hubspot
<1> QED
  BY <1>1, <1>5, <1>6, <1>7, <1>8 DEF Next

(* If every id on a row or in a message was one of its caller's records    *)
(* before the step, or is one after it, the invariant is kept.             *)
LEMMA CallerKept ==
  ASSUME TypeInv, CallerInv, RecordsKept,
         \A e \in Events :
            /\ \/ row'[e].contact = row[e].contact
               \/ \E w \in Workers : MyRow(w) = e /\ row'[e].contact = worker[w].contact
            /\ \/ row'[e].ticket = row[e].ticket
               \/ \E w \in Workers : MyRow(w) = e /\ row'[e].ticket = worker[w].ticket,
         \A w \in Workers :
            \/ worker'[w] = worker[w] \/ worker'[w] = Idle
            \/ (OwnContact(MyRow(w), worker[w].contact) /\ OwnTicket(MyRow(w), worker[w].ticket))'
  PROVE  CallerInv'
<1>1. ASSUME NEW e \in Events, NEW c, NEW t,
             c = row[e].contact \/ \E w \in Workers : MyRow(w) = e /\ c = worker[w].contact,
             t = row[e].ticket \/ \E w \in Workers : MyRow(w) = e /\ t = worker[w].ticket
      PROVE  OwnContact(e, c)' /\ OwnTicket(e, t)'
  <2>1. OwnContact(e, c) /\ OwnTicket(e, t)
    BY <1>1 DEF CallerInv
  <2> QED
    BY <2>1, OwnKept
<1>2. ASSUME NEW e \in Events PROVE OwnContact(e, row[e].contact)' /\ OwnTicket(e, row[e].ticket)'
  BY <1>1, Zenon
<1>3. ASSUME NEW w \in Workers
      PROVE  OwnContact(MyRow(w), worker[w].contact)' /\ OwnTicket(MyRow(w), worker[w].ticket)'
  <2>1. CASE worker'[w] = worker[w]
    <3>1. PICK e, c, t : e = worker[w].event /\ c = worker[w].contact /\ t = worker[w].ticket
      OBVIOUS
    <3>2. OwnContact(e, c) /\ OwnTicket(e, t)
      BY <3>1 DEF CallerInv, MyRow
    <3>3. OwnContact(e, c)' /\ OwnTicket(e, t)'
      BY <3>2, OwnKept
    <3> QED
      BY <2>1, <3>1, <3>3 DEF OwnContact, OwnTicket, MyRow
  <2>2. CASE worker'[w] = Idle
    BY <2>2 DEF Idle, OwnContact, OwnTicket
  <2> QED
    BY <2>1, <2>2 DEF MyRow
<1> QED
  BY <1>2, <1>3 DEF CallerInv

(* What a message carries after a phase: the ids it had, a contact of the  *)
(* caller's other rows or of the search, or the record HubSpot just made.  *)
LEMMA WorkFindsOwn ==
  ASSUME TypeInv, CallerInv, RecordsKept, NEW w \in Workers, Working(w)
  PROVE  (OwnContact(MyRow(w), worker[w].contact) /\ OwnTicket(MyRow(w), worker[w].ticket))'
<1> DEFINE m == worker[w]
<1>0. /\ worker \in [Workers -> Message] /\ m \in Message
      /\ contacts \in Seq(ContactRecord) /\ tickets \in Seq([event : Events, open : BOOLEAN])
      /\ NULL \notin Events /\ (PhoneOf[m.event] # NoPhone \/ m.pc # "create")
  BY ConstantsOK, HeldMessageIsGood, PCFacts DEF TypeInv, TypeOK, GoodMessage
<1>1. OwnContact(m.event, m.contact) /\ OwnTicket(m.event, m.ticket)
  BY DEF CallerInv, MyRow
<1>2. ASSUME NEW n, n.event = m.event, NEW c, NEW t, n.contact = c, n.ticket = t,
             OwnContact(n.event, c)', OwnTicket(n.event, t)',
             worker' = [worker EXCEPT ![w] = n]
      PROVE  (OwnContact(MyRow(w), worker[w].contact) /\ OwnTicket(MyRow(w), worker[w].ticket))'
  <2>1. worker'[w] = n
    BY <1>0, <1>2
  <2> QED
    BY <1>2, <2>1 DEF OwnContact, OwnTicket, MyRow
<1>3. PICK e, c, t : e = m.event /\ c = m.contact /\ t = m.ticket
  OBVIOUS
<1>4. OwnContact(e, c) /\ OwnTicket(e, t)
  BY <1>1, <1>3
<1>5. OwnContact(e, c)' /\ OwnTicket(e, t)'
  BY <1>4, OwnKept
<1>6. ASSUME NEW n, n.event = e, n.contact = c, n.ticket = t, worker' = [worker EXCEPT ![w] = n]
      PROVE  (OwnContact(MyRow(w), worker[w].contact) /\ OwnTicket(MyRow(w), worker[w].ticket))'
  BY <1>2, <1>3, <1>5, <1>6
<1>7. ASSUME NEW pc, Goto(w, pc)
      PROVE  (OwnContact(MyRow(w), worker[w].contact) /\ OwnTicket(MyRow(w), worker[w].ticket))'
  <2> DEFINE n == [m EXCEPT !.pc = pc]
  <2>1. n.event = e /\ n.contact = c /\ n.ticket = t /\ worker' = [worker EXCEPT ![w] = n]
    BY <1>0, <1>3, <1>7 DEF Goto, Message
  <2> HIDE DEF n
  <2> QED
    BY <1>6, <2>1
<1>8. ASSUME NEW n, n.event = e, n.contact = c, n.ticket = t, Answered(w, n)
      PROVE  (OwnContact(MyRow(w), worker[w].contact) /\ OwnTicket(MyRow(w), worker[w].ticket))'
  BY <1>6, <1>7, <1>8 DEF Answered
<1>9. CASE Begin(w) \/ SaveContact(w) \/ SaveNote(w) \/ SaveTicket(w) \/ TicketNote(w)
           \/ SaveTask(w) \/ TransientError(w) \/ PermanentError(w)
  <2>1. PICK pc : Goto(w, pc)
    BY <1>9 DEF Begin, SaveContact, SaveNote, SaveTicket, TicketNote, SaveTask,
           TransientError, PermanentError
  <2> QED
    BY <1>7, <2>1
<1>10. CASE GetContactLog(w) \/ UpdateContact(w)
  <2>1. PICK l, pc : \/ worker' = [worker EXCEPT ![w] = [m EXCEPT !.log = l, !.pc = pc]]
                     \/ Answered(w, [m EXCEPT !.log = l, !.pc = pc])
    <3>1. CASE GetContactLog(w)
      <4>1. worker' = [worker EXCEPT ![w] = [m EXCEPT !.log = contacts[m.contact].log, !.pc = "patch"]]
        BY <1>0, <3>1 DEF GetContactLog
      <4> QED
        BY <4>1
    <3>2. CASE UpdateContact(w)
      <4>1. Answered(w, [m EXCEPT !.log = <<>>, !.pc = AfterPatch(m)])
        BY <3>2 DEF UpdateContact
      <4> QED
        BY <4>1
    <3> QED
      BY <1>10, <3>1, <3>2
  <2> DEFINE n == [m EXCEPT !.log = l, !.pc = pc]
  <2>2. n.event = e /\ n.contact = c /\ n.ticket = t
    BY <1>0, <1>3 DEF Message
  <2> HIDE DEF n
  <2> QED
    BY <1>6, <1>8, <2>1, <2>2 DEF n
<1>11. CASE CreateNote(w) \/ CreateTask(w)
  <2>1. PICK pc : Answered(w, [m EXCEPT !.pc = pc])
    BY <1>11 DEF CreateNote, CreateTask
  <2> DEFINE n == [m EXCEPT !.pc = pc]
  <2>2. n.event = e /\ n.contact = c /\ n.ticket = t /\ Answered(w, n)
    BY <1>0, <1>3, <2>1 DEF Message
  <2> HIDE DEF n
  <2> QED
    BY <1>8, <2>2
<1>12. ASSUME NEW d, OwnContact(e, d)', NEW pc,
              \/ worker' = [worker EXCEPT ![w].contact = d, ![w].pc = pc]
              \/ Answered(w, [m EXCEPT !.contact = d, !.pc = pc])
       PROVE  (OwnContact(MyRow(w), worker[w].contact) /\ OwnTicket(MyRow(w), worker[w].ticket))'
  <2> DEFINE n == [m EXCEPT !.contact = d, !.pc = pc]
  <2>1. n.event = e /\ n.contact = d /\ n.ticket = t
    BY <1>0, <1>3 DEF Message
  <2>2. worker' = [worker EXCEPT ![w] = n] \/ Answered(w, n)
    BY <1>0, <1>12
  <2> HIDE DEF n
  <2> QED
    BY <1>2, <1>3, <1>5, <1>7, <1>12, <2>1, <2>2 DEF Answered
<1>13. ASSUME NEW k, OwnTicket(e, k)', NEW pc,
              \/ worker' = [worker EXCEPT ![w].ticket = k, ![w].pc = pc]
              \/ Answered(w, [m EXCEPT !.ticket = k, !.pc = pc])
       PROVE  (OwnContact(MyRow(w), worker[w].contact) /\ OwnTicket(MyRow(w), worker[w].ticket))'
  <2> DEFINE n == [m EXCEPT !.ticket = k, !.pc = pc]
  <2>1. n.event = e /\ n.contact = c /\ n.ticket = k
    BY <1>0, <1>3 DEF Message
  <2>2. worker' = [worker EXCEPT ![w] = n] \/ Answered(w, n)
    BY <1>0, <1>13
  <2> HIDE DEF n
  <2> QED
    BY <1>2, <1>3, <1>5, <1>7, <1>13, <2>1, <2>2 DEF Answered
<1>14. CASE LookupContact(w)
  <2>1. ASSUME NEW f \in Events, PhoneOf[f] = PhoneOf[e],
               worker' = [worker EXCEPT ![w].contact = row[f].contact, ![w].pc = "saveFound"]
        PROVE  (OwnContact(MyRow(w), worker[w].contact) /\ OwnTicket(MyRow(w), worker[w].ticket))'
    <3>1. PICK d : d = row[f].contact
      OBVIOUS
    <3>2. OwnContact(e, d)
      BY <2>1, <3>1 DEF CallerInv, OwnContact
    <3> QED
      BY <1>12, <2>1, <3>1, <3>2, OwnKept
  <2> QED
    BY <1>3, <1>7, <1>14, <2>1 DEF LookupContact, MyRow
<1>15. CASE SearchContact(w)
  <2>1. ASSUME NEW d \in DOMAIN contacts, contacts[d].phone = PhoneOf[e],
               worker' = [worker EXCEPT ![w].contact = d, ![w].pc = "saveMade"]
        PROVE  (OwnContact(MyRow(w), worker[w].contact) /\ OwnTicket(MyRow(w), worker[w].ticket))'
    <3>1. OwnContact(e, d)
      BY <2>1 DEF OwnContact
    <3> QED
      BY <1>12, <2>1, <3>1, OwnKept
  <2> QED
    BY <1>3, <1>7, <1>15, <2>1 DEF SearchContact, MyRow
<1>16. CASE CreateContact(w)
  <2>1. PICK d : d = Len(contacts) + 1
    OBVIOUS
  <2>2. OwnContact(e, d)'
    BY <1>0, <1>3, <1>16, <2>1 DEF CreateContact, OwnContact, MyRow
  <2> QED
    BY <1>12, <1>16, <2>1, <2>2 DEF CreateContact
<1>17. CASE PriorTicket(w)
  <2>1. ASSUME NEW f \in Events, PhoneOf[f] = PhoneOf[e],
               worker' = [worker EXCEPT ![w].ticket = row[f].ticket, ![w].pc = "getTicket"]
        PROVE  (OwnContact(MyRow(w), worker[w].contact) /\ OwnTicket(MyRow(w), worker[w].ticket))'
    <3>1. PICK k : k = row[f].ticket
      OBVIOUS
    <3>2. OwnTicket(e, k)
      BY <2>1, <3>1 DEF CallerInv, OwnTicket
    <3> QED
      BY <1>13, <2>1, <3>1, <3>2, OwnKept
  <2> QED
    BY <1>3, <1>7, <1>17, <2>1 DEF PriorTicket, MyRow
<1>18. CASE GetTicket(w)
  <2>1. CASE worker' = [worker EXCEPT ![w].reused = TRUE, ![w].pc = "saveTicket"]
    <3> DEFINE n == [m EXCEPT !.reused = TRUE, !.pc = "saveTicket"]
    <3>1. n.event = e /\ n.contact = c /\ n.ticket = t /\ worker' = [worker EXCEPT ![w] = n]
      BY <1>0, <1>3, <2>1 DEF Message
    <3> HIDE DEF n
    <3> QED
      BY <1>6, <3>1
  <2> QED
    BY <1>7, <1>18, <2>1 DEF GetTicket
<1>19. CASE CreateTicket(w)
  <2>1. PICK k : k = Len(tickets) + 1
    OBVIOUS
  <2>2. OwnTicket(e, k)'
    BY <1>0, <1>3, <1>19, <2>1 DEF CreateTicket, OwnTicket, MyRow
  <2> QED
    BY <1>13, <1>19, <2>1, <2>2 DEF CreateTicket
<1> QED
  BY <1>9, <1>10, <1>11, <1>14, <1>15, <1>16, <1>17, <1>18, <1>19 DEF Working

LEMMA CallerInvStep == TypeInv /\ CallerInv /\ [Next]_vars => CallerInv'
<1> SUFFICES ASSUME TypeInv, CallerInv, [Next]_vars PROVE CallerInv'
  OBVIOUS
<1>0. /\ row \in [Events -> Row] /\ worker \in [Workers -> Message] /\ RecordsKept
      /\ \A w \in Workers : worker[w].event \in Events \cup {NULL}
  BY HubspotKeepsRecords, HeldMessageIsGood DEF TypeInv, TypeOK
<1>1. ASSUME NEW w \in Workers, Working(w) PROVE CallerInv'
  <2>1. \A v \in Workers : v = w \/ worker'[v] = worker[v]
    BY <1>1, WorkIsLocal
  <2>2. (OwnContact(MyRow(w), worker[w].contact) /\ OwnTicket(MyRow(w), worker[w].ticket))'
    BY <1>0, <1>1, WorkFindsOwn
  <2>3. ASSUME NEW e \in Events
        PROVE  /\ \/ row'[e].contact = row[e].contact
                  \/ MyRow(w) = e /\ row'[e].contact = worker[w].contact
               /\ \/ row'[e].ticket = row[e].ticket
                  \/ MyRow(w) = e /\ row'[e].ticket = worker[w].ticket
    <3>1. CASE UNCHANGED row
      BY <3>1
    <3>2. CASE SaveContact(w)
      BY <1>0, <3>2 DEF SaveContact, MyRow, Row
    <3>3. CASE SaveTicket(w)
      BY <1>0, <3>3 DEF SaveTicket, MyRow, Row
    <3>4. CASE SaveNote(w) \/ SaveTask(w)
      BY <1>0, <3>4 DEF SaveNote, SaveTask, MyRow, Row
    <3> QED
      BY <1>1, <3>1, <3>2, <3>3, <3>4 DEF Working, Begin, LookupContact, SearchContact,
         CreateContact, GetContactLog, UpdateContact, CreateNote, PriorTicket, GetTicket,
         CreateTicket, TicketNote, CreateTask, TransientError, PermanentError
  <2> QED
    BY <1>0, <2>1, <2>2, <2>3, CallerKept
<1>2. ASSUME NEW w \in Workers, NEW e \in Events, Claim(w, e) PROVE CallerInv'
  <2>1. \A v \in Workers : v = w \/ worker'[v] = worker[v]
    BY <1>0, <1>2 DEF Claim
  <2>2. PICK c, t : c = row[e].contact /\ t = row[e].ticket
    OBVIOUS
  <2>3. OwnContact(e, c)' /\ OwnTicket(e, t)'
    <3>1. OwnContact(e, c) /\ OwnTicket(e, t)
      BY <2>2 DEF CallerInv
    <3> QED
      BY <1>0, <3>1, OwnKept
  <2>4. worker'[w].event = e /\ worker'[w].contact = c /\ worker'[w].ticket = t
    BY <1>0, <1>2, <2>2 DEF Claim, Snapshot, Idle
  <2>5. (OwnContact(MyRow(w), worker[w].contact) /\ OwnTicket(MyRow(w), worker[w].ticket))'
    BY <2>3, <2>4 DEF OwnContact, OwnTicket, MyRow
  <2>6. \A f \in Events : row'[f].contact = row[f].contact /\ row'[f].ticket = row[f].ticket
    BY <1>0, <1>2 DEF Claim, Row
  <2> QED
    BY <1>0, <2>1, <2>5, <2>6, CallerKept
<1>3. ASSUME \A f \in Events : row'[f].contact = row[f].contact /\ row'[f].ticket = row[f].ticket,
             \A v \in Workers : worker'[v] = worker[v] \/ worker'[v] = Idle
      PROVE  CallerInv'
  BY <1>0, <1>3, CallerKept
<1>4. ASSUME NEW w \in Workers, Ack(w) \/ Nack(w) \/ DeadLetter(w) \/ Abandon(w) PROVE CallerInv'
  <2>1. \A f \in Events : row'[f].contact = row[f].contact /\ row'[f].ticket = row[f].ticket
    BY <1>0, <1>4 DEF Ack, Nack, DeadLetter, Finish, Abandon, Row
  <2>2. \A v \in Workers : worker'[v] = worker[v] \/ worker'[v] = Idle
    BY <1>0, <1>4 DEF Ack, Nack, DeadLetter, Finish, Abandon
  <2> QED
    BY <1>3, <2>1, <2>2
<1>5. ASSUME Replay \/ \E e \in Events : Publish(e) \/ LeaseExpires(e) \/ BackoffElapses(e)
      PROVE  CallerInv'
  <2>1. \A f \in Events : row'[f].contact = row[f].contact /\ row'[f].ticket = row[f].ticket
    <3>1. CASE Replay
      BY <1>0, <3>1 DEF Replay, Row
    <3>2. ASSUME NEW e \in Events, Publish(e) \/ LeaseExpires(e) \/ BackoffElapses(e)
          PROVE  \A f \in Events : row'[f].contact = row[f].contact /\ row'[f].ticket = row[f].ticket
      BY <1>0, <3>2 DEF Publish, LeaseExpires, BackoffElapses, Row
    <3> QED
      BY <1>5, <3>1, <3>2
  <2>2. UNCHANGED worker
    BY <1>5 DEF Replay, Publish, LeaseExpires, BackoffElapses
  <2> QED
    BY <1>3, <2>1, <2>2
<1>6. ASSUME \/ \E e \in Events : GateOpens(e)
             \/ \E c \in DOMAIN contacts : IndexCatchesUp(c)
             \/ \E t \in DOMAIN tickets : TicketCloses(t)
             \/ UNCHANGED vars
      PROVE  CallerInv'
  <2>1. UNCHANGED <<row, worker>>
    BY <1>6 DEF GateOpens, IndexCatchesUp, TicketCloses, vars
  <2> QED
    BY <1>3, <2>1
<1> QED
  BY <1>1, <1>2, <1>4, <1>5, <1>6 DEF Next, Step, ClaimNext, Working

(* RightCaller: whatever is retried, shared or lost, an event's contact    *)
(* has the event's number and its ticket was opened for the same caller.   *)
THEOREM RecordsOfTheCaller == Spec => []RightCaller
<1>1. Init => TypeInv /\ CallerInv
  BY InitTypeInv, InitCallerInv
<1>2. TypeInv /\ CallerInv /\ [Next]_vars => TypeInv' /\ CallerInv'
  BY TypeInvStep, CallerInvStep
<1>3. CallerInv => RightCaller
  BY DEF CallerInv, RightCaller, OwnContact, OwnTicket
<1> QED
  BY <1>1, <1>2, <1>3, PTL DEF Spec

-----------------------------------------------------------------------------
(* What a message knows of its row: up to a phase the row has exactly the  *)
(* ids the message has, and in the phase that makes a record the row has   *)
(* none.  That is true only while nobody else works on the row.            *)
BeforeNote == {"begin"} \cup ContactPhase \cup LogPhase
BeforeTask == BeforeTicket \cup TicketPhase \cup {"ticketNote"}

UpToDate(m, r) ==
  /\ m.pc = "begin" => m.contact = r.contact
  /\ m.pc \in ContactPhase => r.contact = NULL
  /\ m.pc \in BeforeNote => m.note = r.note
  /\ m.pc \in NotePhase => ~r.note
  /\ m.pc \in BeforeTicket => m.ticket = r.ticket
  /\ m.pc \in TicketPhase => r.ticket = NULL
  /\ m.pc \in BeforeTask => m.task = r.task
  /\ m.pc \in TaskPhase => ~r.task

(* A row with no ticket has no note in one, and a process that is about to *)
(* write the note has saved the ticket and written nothing yet.            *)
RecordInv ==
  /\ \A w \in Workers : ~At(w, "poll") =>
       /\ UpToDate(worker[w], row[MyRow(w)])
       /\ worker[w].pc = "ticketNote" =>
            row[MyRow(w)].ticket # NULL /\ made[MyRow(w)].inTicket = 0
  /\ \A e \in Events : /\ made[e].inTicket <= 1
                       /\ row[e].ticket = NULL => made[e].inTicket = 0

SameIds(r, s) ==
  r.contact = s.contact /\ r.note = s.note /\ r.ticket = s.ticket /\ r.task = s.task

LEMMA UpToDateKept ==
  ASSUME NEW m, NEW r, NEW s, UpToDate(m, r), SameIds(r, s)
  PROVE  UpToDate(m, s)
BY DEF UpToDate, SameIds

LEMMA PhaseMembers ==
  /\ ContactPhase = {"lookup", "saveFound", "search", "create", "saveMade"}
  /\ LogPhase = {"getLog", "patch"}
  /\ NotePhase = {"note", "saveNote"}
  /\ TicketPhase = {"priorTicket", "getTicket", "createTicket", "saveTicket"}
  /\ TaskPhase = {"task", "saveTask"}
  /\ BeforeNote = {"begin"} \cup ContactPhase \cup LogPhase
  /\ BeforeTicket = BeforeNote \cup NotePhase
  /\ BeforeTask = BeforeTicket \cup TicketPhase \cup {"ticketNote"}
BY DEF ContactPhase, LogPhase, NotePhase, TicketPhase, TaskPhase, BeforeNote, BeforeTicket,
       BeforeTask

(* Where a process may go next without forgetting what is on the row.      *)
LEMMA UpToDateAtTask ==
  ASSUME NEW m \in Message, NEW r, m.task = r.task
  PROVE  UpToDate([m EXCEPT !.pc = AfterTicket(m)], r)
<1> DEFINE n == [m EXCEPT !.pc = AfterTicket(m)]
<1>1. n.pc \in {"task", "ack"} /\ (n.pc = "task" => ~m.task)
  BY DEF AfterTicket, Message
<1> HIDE DEF n
<1>2. UpToDate(n, r)
  BY <1>1, PhaseMembers DEF UpToDate
<1> QED
  BY <1>2 DEF n

LEMMA UpToDateAtTicket ==
  ASSUME NEW m \in Message, NEW r, m.task = r.task, m.ticket = r.ticket
  PROVE  UpToDate([m EXCEPT !.pc = AfterNote(m)], r)
<1>1. CASE AfterNote(m) = "priorTicket" /\ m.ticket = NULL
  <2> DEFINE n == [m EXCEPT !.pc = "priorTicket"]
  <2>1. n.pc = "priorTicket" /\ n.task = m.task
    BY DEF Message
  <2> HIDE DEF n
  <2>2. UpToDate(n, r)
    BY <1>1, <2>1, PhaseMembers DEF UpToDate
  <2> QED
    BY <1>1, <2>2 DEF n
<1>2. CASE AfterNote(m) = AfterTicket(m)
  BY <1>2, UpToDateAtTask
<1> QED
  BY <1>1, <1>2 DEF AfterNote

LEMMA UpToDateAtNote ==
  ASSUME NEW m \in Message, NEW r, m.task = r.task, m.ticket = r.ticket, m.note = r.note
  PROVE  UpToDate([m EXCEPT !.pc = AfterPatch(m)], r)
<1>1. CASE AfterPatch(m) = "note" /\ ~m.note
  <2> DEFINE n == [m EXCEPT !.pc = "note"]
  <2>1. n.pc = "note" /\ n.task = m.task /\ n.ticket = m.ticket
    BY DEF Message
  <2> HIDE DEF n
  <2>2. UpToDate(n, r)
    BY <1>1, <2>1, PhaseMembers DEF UpToDate
  <2> QED
    BY <1>1, <2>2 DEF n
<1>2. CASE AfterPatch(m) = AfterNote(m)
  BY <1>2, UpToDateAtTicket
<1> QED
  BY <1>1, <1>2 DEF AfterPatch

(* Work creates a note, a ticket or a task only on a row that has none, a  *)
(* saved id replaces none, and everything made belongs to the row in hand. *)
Recreates(e) ==
  \/ made'[e].note > made[e].note /\ row[e].note
  \/ made'[e].task > made[e].task /\ row[e].task
  \/ Len(tickets') > Len(tickets) /\ tickets'[Len(tickets')].event = e /\ row[e].ticket # NULL
  \/ row[e].ticket # NULL /\ row'[e].ticket # row[e].ticket
  \/ row[e].contact # NULL /\ row'[e].contact # row[e].contact

LEMMA WorkCreatesNew ==
  ASSUME TypeInv, RecordInv, NEW w \in Workers, Working(w), ~At(w, "poll"), NEW e \in Events
  PROVE  ~Recreates(e)
<1>0. /\ row \in [Events -> Row] /\ UpToDate(worker[w], row[MyRow(w)])
      /\ made \in [Events -> [note : Nat, task : Nat, inTicket : Nat]]
      /\ tickets \in Seq([event : Events, open : BOOLEAN])
      /\ MyRow(w) \in Events
  BY HeldMessageIsGood DEF TypeInv, TypeOK, RecordInv, GoodMessage, At, MyRow
<1>1. CASE UNCHANGED <<row, tickets, made>>
  BY <1>0, <1>1 DEF Recreates
<1>2. CASE CreateNote(w)
  <2>1. ~row[MyRow(w)].note /\ UNCHANGED <<row, tickets>>
    BY <1>0, <1>2, PhaseMembers DEF CreateNote, At, UpToDate
  <2>2. made' = [made EXCEPT ![MyRow(w)].note = @ + 1]
    BY <1>2 DEF CreateNote
  <2> QED
    BY <1>0, <2>1, <2>2 DEF Recreates
<1>3. CASE CreateTask(w)
  <2>1. ~row[MyRow(w)].task /\ UNCHANGED <<row, tickets>>
    BY <1>0, <1>3, PhaseMembers DEF CreateTask, At, UpToDate
  <2>2. made' = [made EXCEPT ![MyRow(w)].task = @ + 1]
    BY <1>3 DEF CreateTask
  <2> QED
    BY <1>0, <2>1, <2>2 DEF Recreates
<1>4. CASE CreateTicket(w)
  <2>1. row[MyRow(w)].ticket = NULL /\ UNCHANGED <<row, made>>
    BY <1>0, <1>4, PhaseMembers DEF CreateTicket, At, UpToDate
  <2>2. tickets' = Append(tickets, [event |-> MyRow(w), open |-> TRUE])
    BY <1>4 DEF CreateTicket
  <2>3. tickets'[Len(tickets')].event = MyRow(w)
    BY <1>0, <2>2
  <2> QED
    BY <1>0, <2>1, <2>3 DEF Recreates
<1>5. CASE SaveTicket(w)
  <2>1. row[MyRow(w)].ticket = NULL /\ UNCHANGED <<tickets, made>>
    BY <1>0, <1>5, PhaseMembers DEF SaveTicket, At, UpToDate, hubspot
  <2>2. row' = [row EXCEPT ![MyRow(w)].ticket = worker[w].ticket]
    BY <1>5 DEF SaveTicket
  <2> QED
    BY <1>0, <2>1, <2>2 DEF Recreates, Row
<1>6. CASE SaveContact(w)
  <2>1. row[MyRow(w)].contact = NULL /\ UNCHANGED <<tickets, made>>
    BY <1>0, <1>6, PhaseMembers DEF SaveContact, UpToDate, hubspot
  <2>2. row' = [row EXCEPT ![MyRow(w)].contact = worker[w].contact]
    BY <1>6 DEF SaveContact
  <2> QED
    BY <1>0, <2>1, <2>2 DEF Recreates, Row
<1>7. CASE TicketNote(w)
  <2>1. UNCHANGED <<row, tickets>>
    BY <1>7 DEF TicketNote
  <2>2. \A f \in Events : made'[f].note = made[f].note /\ made'[f].task = made[f].task
    BY <1>0, <1>7 DEF TicketNote
  <2> QED
    BY <1>0, <2>1, <2>2 DEF Recreates
<1>8. CASE SaveNote(w) \/ SaveTask(w)
  <2>1. UNCHANGED <<tickets, made>>
    BY <1>8 DEF SaveNote, SaveTask, hubspot
  <2>2. \A f \in Events : row'[f].ticket = row[f].ticket /\ row'[f].contact = row[f].contact
    <3>1. CASE SaveNote(w)
      BY <1>0, <3>1 DEF SaveNote, Row
    <3>2. CASE SaveTask(w)
      BY <1>0, <3>2 DEF SaveTask, Row
    <3> QED
      BY <1>8, <3>1, <3>2
  <2> QED
    BY <1>0, <2>1, <2>2 DEF Recreates
<1>9. CASE Begin(w) \/ LookupContact(w) \/ SearchContact(w) \/ CreateContact(w)
           \/ GetContactLog(w) \/ UpdateContact(w) \/ PriorTicket(w) \/ GetTicket(w)
           \/ TransientError(w) \/ PermanentError(w)
  <2>1. UNCHANGED <<row, tickets, made>>
    BY <1>9 DEF Begin, LookupContact, SearchContact, CreateContact, GetContactLog,
       UpdateContact, PriorTicket, GetTicket, TransientError, PermanentError, hubspot
  <2> QED
    BY <1>1, <2>1
<1> QED
  BY <1>2, <1>3, <1>4, <1>5, <1>6, <1>7, <1>8, <1>9 DEF Working

(* Work leaves its process up to date with the row it saved to.            *)
LEMMA WorkStaysUpToDate ==
  ASSUME TypeInv, RecordInv, NEW w \in Workers, Working(w), ~At(w, "poll")
  PROVE  UpToDate(worker'[w], row'[MyRow(w)])
<1> DEFINE m == worker[w]
<1> DEFINE r == row[MyRow(w)]
<1> DEFINE s == row'[MyRow(w)]
<1>0. /\ row \in [Events -> Row] /\ worker \in [Workers -> Message] /\ m \in Message
      /\ UpToDate(m, r) /\ MyRow(w) \in Events /\ r \in Row
  BY HeldMessageIsGood DEF TypeInv, TypeOK, RecordInv, GoodMessage, At, MyRow
<1>1. UNCHANGED row => s = r
  OBVIOUS
<1>2. ASSUME NEW n, worker' = [worker EXCEPT ![w] = n]
      PROVE  worker'[w] = n
  BY <1>0, <1>2
<1>3. ASSUME NEW pc \in {"nack", "dead", "ticketNote"}, Goto(w, pc),
             pc = "ticketNote" => m.task = s.task
      PROVE  UpToDate(worker'[w], s)
  <2> DEFINE n == [m EXCEPT !.pc = pc]
  <2>1. n.pc = pc /\ n.task = m.task /\ worker'[w] = n
    BY <1>0, <1>3 DEF Goto, Message
  <2> HIDE DEF n
  <2> QED
    BY <1>3, <2>1, PhaseMembers DEF UpToDate
<1>4. ASSUME NEW n, Answered(w, n), UpToDate(n, s)
      PROVE  UpToDate(worker'[w], s)
  BY <1>2, <1>3, <1>4 DEF Answered
<1>5. ASSUME m.pc \in BeforeNote, r.note = s.note, r.ticket = s.ticket, r.task = s.task,
             NEW n, n.pc \in ContactPhase \cup LogPhase, n.pc \in ContactPhase => s.contact = NULL,
             n.note = m.note, n.ticket = m.ticket, n.task = m.task
      PROVE  UpToDate(n, s)
  BY <1>0, <1>5, PhaseMembers DEF UpToDate
<1>6. ASSUME m.pc \in BeforeNote, r.note = s.note, r.ticket = s.ticket, r.task = s.task,
             NEW pc \in ContactPhase \cup LogPhase, pc \in ContactPhase => s.contact = NULL,
             Goto(w, pc)
      PROVE  UpToDate(worker'[w], s)
  <2> DEFINE n == [m EXCEPT !.pc = pc]
  <2>1. n.pc = pc /\ n.note = m.note /\ n.ticket = m.ticket /\ n.task = m.task /\ worker'[w] = n
    BY <1>0, <1>6 DEF Goto, Message
  <2> HIDE DEF n
  <2> QED
    BY <1>5, <1>6, <2>1
<1>7. ASSUME m.pc \in BeforeNote, UNCHANGED row, r.contact = NULL, NEW d, NEW pc \in ContactPhase,
             \/ worker' = [worker EXCEPT ![w].contact = d, ![w].pc = pc]
             \/ Answered(w, [m EXCEPT !.contact = d, !.pc = pc])
      PROVE  UpToDate(worker'[w], s)
  <2> DEFINE n == [m EXCEPT !.contact = d, !.pc = pc]
  <2>1. n.pc = pc /\ n.note = m.note /\ n.ticket = m.ticket /\ n.task = m.task
    BY <1>0 DEF Message
  <2>2. worker'[w] = n \/ Answered(w, n)
    BY <1>0, <1>7
  <2> HIDE DEF n
  <2>3. UpToDate(n, s)
    BY <1>1, <1>5, <1>7, <2>1
  <2> QED
    BY <1>4, <2>2, <2>3
<1>8. CASE TransientError(w) \/ PermanentError(w)
  BY <1>3, <1>8 DEF TransientError, PermanentError
<1>9. CASE Begin(w)
  <2>1. m.pc = "begin" /\ m.pc \in BeforeNote /\ UNCHANGED row /\ m.contact = r.contact
    BY <1>0, <1>9 DEF Begin, At, BeforeNote, UpToDate
  <2>2. CASE Goto(w, "dead") \/ Goto(w, "nack")
    BY <1>3, <2>2
  <2>3. CASE Goto(w, "lookup") /\ m.contact = NULL
    BY <1>1, <1>6, <2>1, <2>3, PhaseMembers
  <2>4. CASE Goto(w, "getLog")
    BY <1>1, <1>6, <2>1, <2>4, PhaseMembers
  <2> QED
    BY <1>9, <2>2, <2>3, <2>4 DEF Begin, FirstPhase
<1>10. CASE LookupContact(w) \/ SearchContact(w) \/ CreateContact(w)
  <2>1. m.pc \in ContactPhase /\ m.pc \in BeforeNote /\ UNCHANGED row
    BY <1>10, PhaseMembers DEF LookupContact, SearchContact, CreateContact, At
  <2>2. r.contact = NULL
    BY <1>0, <2>1 DEF UpToDate
  <2>3. \/ Goto(w, "search") \/ Goto(w, "create")
        \/ \E d : \E pc \in {"saveFound", "saveMade"} :
             \/ worker' = [worker EXCEPT ![w].contact = d, ![w].pc = pc]
             \/ Answered(w, [m EXCEPT !.contact = d, !.pc = pc])
    BY <1>10 DEF LookupContact, SearchContact, CreateContact
  <2> QED
    BY <1>1, <1>6, <1>7, <2>1, <2>2, <2>3, PhaseMembers
<1>11. CASE SaveContact(w)
  <2>1. m.pc \in BeforeNote /\ r.note = s.note /\ r.ticket = s.ticket /\ r.task = s.task
    BY <1>0, <1>11, PhaseMembers DEF SaveContact, MyRow, Row
  <2>2. PICK pc \in LogPhase : Goto(w, pc)
    BY <1>11, PhaseMembers DEF SaveContact
  <2> QED
    BY <1>6, <2>1, <2>2, PhaseMembers
<1>12. CASE GetContactLog(w)
  <2> DEFINE n == [m EXCEPT !.log = contacts[m.contact].log, !.pc = "patch"]
  <2>1. m.pc \in BeforeNote /\ UNCHANGED row
    BY <1>12, PhaseMembers DEF GetContactLog, At
  <2>2. n.pc = "patch" /\ n.note = m.note /\ n.ticket = m.ticket /\ n.task = m.task
        /\ worker'[w] = n
    BY <1>0, <1>12 DEF GetContactLog, Message
  <2> HIDE DEF n
  <2> QED
    BY <1>1, <1>5, <2>1, <2>2, PhaseMembers
<1>13. CASE UpdateContact(w)
  <2> DEFINE n == [m EXCEPT !.log = <<>>, !.pc = AfterPatch(m)]
  <2> DEFINE k == [m EXCEPT !.pc = AfterPatch(m)]
  <2>1. m.pc \in BeforeNote /\ UNCHANGED row /\ Answered(w, n)
    BY <1>13, PhaseMembers DEF UpdateContact, At
  <2>2. m.note = r.note /\ m.ticket = r.ticket /\ m.task = r.task
    BY <1>0, <2>1, PhaseMembers DEF UpToDate
  <2>3. UpToDate(k, r)
    BY <1>0, <2>2, UpToDateAtNote
  <2>4. n.pc = k.pc /\ n.note = k.note /\ n.ticket = k.ticket /\ n.task = k.task
        /\ n.contact = k.contact
    BY <1>0 DEF Message
  <2> HIDE DEF n, k
  <2>5. UpToDate(n, r)
    BY <2>3, <2>4 DEF UpToDate
  <2> QED
    BY <1>1, <1>4, <2>1, <2>5
<1>14. CASE CreateNote(w) \/ CreateTask(w)
  <2>1. PICK pc \in {"saveNote", "saveTask"} :
          /\ Answered(w, [m EXCEPT !.pc = pc])
          /\ pc = "saveNote" => m.pc = "note"
          /\ pc = "saveTask" => m.pc = "task"
    BY <1>14 DEF CreateNote, CreateTask, At
  <2> DEFINE n == [m EXCEPT !.pc = pc]
  <2>2. n.pc = pc /\ n.ticket = m.ticket /\ n.task = m.task
    BY <1>0 DEF Message
  <2>3. UNCHANGED row /\ Answered(w, n)
    BY <1>14, <2>1 DEF CreateNote, CreateTask
  <2> HIDE DEF n
  <2>4. UpToDate(n, r)
    BY <1>0, <2>1, <2>2, PhaseMembers DEF UpToDate
  <2> QED
    BY <1>1, <1>4, <2>3, <2>4
<1>15. CASE SaveNote(w)
  <2>1. m.ticket = r.ticket /\ m.task = r.task
    BY <1>0, <1>15, PhaseMembers DEF SaveNote, At, UpToDate
  <2>2. s.ticket = r.ticket /\ s.task = r.task
    BY <1>0, <1>15 DEF SaveNote, MyRow, Row
  <2>3. worker'[w] = [m EXCEPT !.pc = AfterNote(m)]
    BY <1>0, <1>15 DEF SaveNote, Goto
  <2> QED
    BY <1>0, <2>1, <2>2, <2>3, UpToDateAtTicket
<1>16. ASSUME m.pc \in TicketPhase, NEW n, n.pc \in TicketPhase, n.task = m.task
       PROVE  UpToDate(n, r)
  BY <1>0, <1>16, PhaseMembers DEF UpToDate
<1>17. CASE PriorTicket(w) \/ GetTicket(w) \/ CreateTicket(w)
  <2>1. m.pc \in TicketPhase /\ UNCHANGED row
    BY <1>17, PhaseMembers DEF PriorTicket, GetTicket, CreateTicket, At
  <2>2. ASSUME NEW n, n.pc \in TicketPhase, n.task = m.task,
               worker' = [worker EXCEPT ![w] = n] \/ Answered(w, n)
        PROVE  UpToDate(worker'[w], s)
    BY <1>1, <1>2, <1>4, <1>16, <2>1, <2>2
  <2>3. CASE Goto(w, "createTicket")
    <3> DEFINE n == [m EXCEPT !.pc = "createTicket"]
    <3>1. n.pc \in TicketPhase /\ n.task = m.task /\ worker' = [worker EXCEPT ![w] = n]
      BY <1>0, <2>3, PhaseMembers DEF Goto, Message
    <3> HIDE DEF n
    <3> QED
      BY <2>2, <3>1
  <2>4. ASSUME NEW t, worker' = [worker EXCEPT ![w].ticket = t, ![w].pc = "getTicket"]
        PROVE  UpToDate(worker'[w], s)
    <3> DEFINE n == [m EXCEPT !.ticket = t, !.pc = "getTicket"]
    <3>1. n.pc \in TicketPhase /\ n.task = m.task /\ worker' = [worker EXCEPT ![w] = n]
      BY <1>0, <2>4, PhaseMembers DEF Message
    <3> HIDE DEF n
    <3> QED
      BY <2>2, <3>1
  <2>5. CASE worker' = [worker EXCEPT ![w].reused = TRUE, ![w].pc = "saveTicket"]
    <3> DEFINE n == [m EXCEPT !.reused = TRUE, !.pc = "saveTicket"]
    <3>1. n.pc \in TicketPhase /\ n.task = m.task /\ worker' = [worker EXCEPT ![w] = n]
      BY <1>0, <2>5, PhaseMembers DEF Message
    <3> HIDE DEF n
    <3> QED
      BY <2>2, <3>1
  <2>6. ASSUME NEW t, Answered(w, [m EXCEPT !.ticket = t, !.pc = "saveTicket"])
        PROVE  UpToDate(worker'[w], s)
    <3> DEFINE n == [m EXCEPT !.ticket = t, !.pc = "saveTicket"]
    <3>1. n.pc \in TicketPhase /\ n.task = m.task /\ Answered(w, n)
      BY <1>0, <2>6, PhaseMembers DEF Message
    <3> HIDE DEF n
    <3> QED
      BY <2>2, <3>1
  <2> QED
    BY <1>17, <2>3, <2>4, <2>5, <2>6 DEF PriorTicket, GetTicket, CreateTicket
<1>18. CASE SaveTicket(w)
  <2>1. m.task = r.task
    BY <1>0, <1>18, PhaseMembers DEF SaveTicket, At, UpToDate
  <2>2. s.task = r.task
    BY <1>0, <1>18 DEF SaveTicket, MyRow, Row
  <2>3. CASE Goto(w, AfterTicket(m))
    <3>1. worker'[w] = [m EXCEPT !.pc = AfterTicket(m)]
      BY <1>0, <2>3 DEF Goto
    <3> QED
      BY <1>0, <2>1, <2>2, <3>1, UpToDateAtTask
  <2> QED
    BY <1>3, <1>18, <2>1, <2>2, <2>3 DEF SaveTicket
<1>19. CASE TicketNote(w)
  <2>1. m.task = r.task /\ s = r
    BY <1>0, <1>19, PhaseMembers DEF TicketNote, At, UpToDate
  <2>2. worker'[w] = [m EXCEPT !.pc = AfterTicket(m)]
    BY <1>0, <1>19 DEF TicketNote, Goto
  <2> QED
    BY <1>0, <2>1, <2>2, UpToDateAtTask
<1>20. CASE SaveTask(w)
  <2> DEFINE n == [m EXCEPT !.pc = "ack"]
  <2>1. n.pc = "ack" /\ worker'[w] = n
    BY <1>0, <1>20 DEF SaveTask, Goto, Message
  <2> HIDE DEF n
  <2> QED
    BY <2>1, PhaseMembers DEF UpToDate
<1> QED
  BY <1>8, <1>9, <1>10, <1>11, <1>12, <1>13, <1>14, <1>15, <1>17, <1>18, <1>19, <1>20 DEF Working

(* The note into a reused ticket: it is written by the one process that    *)
(* just saved the ticket on a row that had none.                           *)
LEMMA WorkNotesOnce ==
  ASSUME TypeInv, ProgressInv, RecordInv, NEW w \in Workers, Working(w), ~At(w, "poll")
  PROVE  /\ \A e \in Events : MyRow(w) # e => made'[e].inTicket = made[e].inTicket
         /\ \A e \in Events : /\ made'[e].inTicket <= 1
                              /\ row'[e].ticket = NULL => made'[e].inTicket = 0
         /\ worker'[w].pc = "ticketNote" =>
              row'[MyRow(w)].ticket # NULL /\ made'[MyRow(w)].inTicket = 0
<1> DEFINE m == worker[w]
<1>0. /\ row \in [Events -> Row] /\ worker \in [Workers -> Message] /\ m \in Message
      /\ made \in [Events -> [note : Nat, task : Nat, inTicket : Nat]]
      /\ UpToDate(m, row[MyRow(w)]) /\ MessageSaved(m, row[MyRow(w)]) /\ MyRow(w) \in Events
      /\ \A e \in Events : row'[e].ticket = NULL => row[e].ticket = NULL
      /\ \A e \in Events : /\ made[e].inTicket <= 1
                           /\ row[e].ticket = NULL => made[e].inTicket = 0
      /\ m.pc = "ticketNote" => row[MyRow(w)].ticket # NULL /\ made[MyRow(w)].inTicket = 0
  BY HeldMessageIsGood, WorkGains DEF TypeInv, TypeOK, RecordInv, ProgressInv, GoodMessage, At,
     MyRow, Gains
<1>1. ASSUME \A e \in Events : made'[e].inTicket = made[e].inTicket, worker'[w].pc # "ticketNote"
      PROVE  /\ \A e \in Events : MyRow(w) # e => made'[e].inTicket = made[e].inTicket
             /\ \A e \in Events : /\ made'[e].inTicket <= 1
                                  /\ row'[e].ticket = NULL => made'[e].inTicket = 0
             /\ worker'[w].pc = "ticketNote" =>
                  row'[MyRow(w)].ticket # NULL /\ made'[MyRow(w)].inTicket = 0
  BY <1>0, <1>1
<1>2. CASE TicketNote(w)
  <2>1. m.pc = "ticketNote" /\ UNCHANGED row /\ worker'[w].pc \in {"task", "ack"}
    BY <1>0, <1>2, NextPhases DEF TicketNote, At, Goto, Message
  <2>2. \/ made' = [made EXCEPT ![MyRow(w)].inTicket = @ + 1]
        \/ UNCHANGED made
    BY <1>2 DEF TicketNote
  <2>3. row[MyRow(w)].ticket # NULL /\ made[MyRow(w)].inTicket = 0
    BY <1>0, <2>1
  <2>4. made'[MyRow(w)].inTicket <= 1
    BY <1>0, <2>2, <2>3
  <2>5. \A e \in Events : MyRow(w) # e => made'[e].inTicket = made[e].inTicket
    BY <1>0, <2>2
  <2>6. \A e \in Events : /\ made'[e].inTicket <= 1
                          /\ row'[e].ticket = NULL => made'[e].inTicket = 0
    BY <1>0, <2>1, <2>3, <2>4, <2>5
  <2> QED
    BY <2>1, <2>5, <2>6
<1>3. CASE SaveTicket(w)
  <2>1. row[MyRow(w)].ticket = NULL /\ m.ticket # NULL /\ UNCHANGED made
    BY <1>0, <1>3, PhaseMembers DEF SaveTicket, At, UpToDate, MessageSaved, hubspot
  <2>2. row'[MyRow(w)].ticket = m.ticket
    BY <1>0, <1>3 DEF SaveTicket, Row
  <2> QED
    BY <1>0, <2>1, <2>2
<1>4. CASE ~TicketNote(w) /\ ~SaveTicket(w)
  <2>1. \A e \in Events : made'[e].inTicket = made[e].inTicket
    <3>1. CASE UNCHANGED made
      BY <3>1
    <3>2. CASE CreateNote(w)
      BY <1>0, <3>2 DEF CreateNote
    <3>3. CASE CreateTask(w)
      BY <1>0, <3>3 DEF CreateTask
    <3> QED
      BY <1>4, <3>1, <3>2, <3>3 DEF Working, Begin, LookupContact, SearchContact, CreateContact,
         SaveContact, GetContactLog, UpdateContact, SaveNote, PriorTicket, GetTicket,
         CreateTicket, SaveTask, TransientError, PermanentError, hubspot
  <2>2. worker'[w].pc # "ticketNote"
    <3>1. ASSUME NEW n, n.pc # "ticketNote", worker' = [worker EXCEPT ![w] = n]
          PROVE  worker'[w].pc # "ticketNote"
      BY <1>0, <3>1
    <3>2. ASSUME NEW n, n.pc # "ticketNote", Answered(w, n)
          PROVE  worker'[w].pc # "ticketNote"
      BY <1>0, <3>1, <3>2 DEF Answered, Goto, Message
    <3>3. CASE CreateContact(w) \/ UpdateContact(w) \/ CreateNote(w) \/ CreateTicket(w)
               \/ CreateTask(w)
      <4>1. [m EXCEPT !.contact = Len(contacts) + 1, !.pc = "saveMade"].pc # "ticketNote"
            /\ [m EXCEPT !.log = <<>>, !.pc = AfterPatch(m)].pc # "ticketNote"
            /\ [m EXCEPT !.pc = "saveNote"].pc # "ticketNote"
            /\ [m EXCEPT !.ticket = Len(tickets) + 1, !.pc = "saveTicket"].pc # "ticketNote"
            /\ [m EXCEPT !.pc = "saveTask"].pc # "ticketNote"
        BY <1>0, NextPhases DEF Message
      <4> QED
        BY <3>2, <3>3, <4>1 DEF CreateContact, UpdateContact, CreateNote, CreateTicket, CreateTask
    <3>4. CASE \E pc : pc # "ticketNote" /\ Goto(w, pc)
      BY <1>0, <3>4 DEF Goto, Message
    <3>5. CASE Begin(w) \/ SaveContact(w) \/ SaveNote(w) \/ SaveTask(w) \/ TransientError(w)
               \/ PermanentError(w)
      <4>1. AfterNote(m) # "ticketNote" /\ FirstPhase(m) # "ticketNote"
        BY NextPhases
      <4> QED
        BY <3>4, <3>5, <4>1 DEF Begin, SaveContact, SaveNote, SaveTask, TransientError,
           PermanentError
    <3>6. CASE LookupContact(w) \/ SearchContact(w) \/ GetContactLog(w) \/ PriorTicket(w)
               \/ GetTicket(w)
      <4>1. CASE LookupContact(w)
        BY <1>0, <3>4, <4>1 DEF LookupContact, Message
      <4>2. CASE SearchContact(w)
        BY <1>0, <3>4, <4>2 DEF SearchContact, Message
      <4>3. CASE GetContactLog(w)
        BY <1>0, <4>3 DEF GetContactLog, Message
      <4>4. CASE PriorTicket(w)
        BY <1>0, <3>4, <4>4 DEF PriorTicket, Message
      <4>5. CASE GetTicket(w)
        BY <1>0, <3>4, <4>5 DEF GetTicket, Message
      <4> QED
        BY <3>6, <4>1, <4>2, <4>3, <4>4, <4>5
    <3> QED
      BY <1>4, <3>3, <3>5, <3>6 DEF Working
  <2> QED
    BY <1>1, <2>1, <2>2
<1> QED
  BY <1>2, <1>3, <1>4

LEMMA InitRecordInv == Init => RecordInv
BY ConstantsOK DEF Init, Idle, RecordInv, At

LEMMA RecordInvStep ==
  TypeInv /\ ProgressInv /\ NoTwoHold /\ RecordInv /\ [Next]_vars => RecordInv'
<1> SUFFICES ASSUME TypeInv, ProgressInv, NoTwoHold, RecordInv, [Next]_vars PROVE RecordInv'
  OBVIOUS
<1>0. /\ row \in [Events -> Row] /\ worker \in [Workers -> Message] /\ NULL \notin Events
      /\ \A w \in Workers : ~At(w, "poll") => MyRow(w) \in Events
  BY ConstantsOK, HeldMessageIsGood DEF TypeInv, TypeOK, GoodMessage, At, MyRow
<1>1. ASSUME NEW w \in Workers, Working(w), ~At(w, "poll") PROVE RecordInv'
  <2>1. \A v \in Workers : v = w \/ worker'[v] = worker[v]
    BY <1>1, WorkIsLocal
  <2>2. worker'[w].event = MyRow(w)
    BY <1>1, WorkKeepsHolders DEF SameHolders, MyRow
  <2>3. UpToDate(worker'[w], row'[MyRow(w)])
    BY <1>1, WorkStaysUpToDate
  <2>4. \A e \in Events : MyRow(w) # e => row'[e] = row[e]
    BY <1>1, WorkKeepsQueue DEF Holds, MyRow
  <2>5. ASSUME NEW v \in Workers, worker'[v].pc # "poll"
        PROVE  /\ UpToDate(worker'[v], row'[worker'[v].event])
               /\ worker'[v].pc = "ticketNote" =>
                    row'[worker'[v].event].ticket # NULL /\ made'[worker'[v].event].inTicket = 0
    <3>1. CASE v = w
      BY <1>1, <2>2, <2>3, <3>1, WorkNotesOnce
    <3>2. CASE v # w
      <4>1. worker'[v] = worker[v] /\ ~At(v, "poll") /\ MyRow(v) \in Events
        BY <1>0, <2>1, <2>5, <3>2 DEF At
      <4>2. MyRow(w) # MyRow(v)
        BY <3>2, <4>1 DEF NoTwoHold, Holds, MyRow
      <4>3. row'[MyRow(v)] = row[MyRow(v)] /\ made'[MyRow(v)].inTicket = made[MyRow(v)].inTicket
        BY <1>1, <2>4, <4>1, <4>2, WorkNotesOnce
      <4> QED
        BY <4>1, <4>3 DEF RecordInv, MyRow
    <3> QED
      BY <3>1, <3>2
  <2> QED
    BY <1>1, <2>5, WorkNotesOnce DEF RecordInv, At, MyRow
<1>2. ASSUME \A e \in Events : SameIds(row[e], row'[e]), UNCHANGED made,
             \A v \in Workers : \/ worker'[v] = worker[v] \/ worker'[v].pc = "poll"
                                \/ \E e \in Events : worker'[v] = Snapshot(e)
      PROVE  RecordInv'
  <2>1. ASSUME NEW v \in Workers, worker'[v].pc # "poll"
        PROVE  /\ UpToDate(worker'[v], row'[worker'[v].event])
               /\ worker'[v].pc = "ticketNote" =>
                    row'[worker'[v].event].ticket # NULL /\ made'[worker'[v].event].inTicket = 0
    <3>1. CASE worker'[v] = worker[v]
      <4>1. ~At(v, "poll") /\ MyRow(v) \in Events
        BY <1>0, <2>1, <3>1 DEF At
      <4>2. UpToDate(worker[v], row'[MyRow(v)])
        BY <1>2, <4>1, UpToDateKept DEF RecordInv
      <4> QED
        BY <1>2, <3>1, <4>1, <4>2 DEF RecordInv, MyRow, SameIds
    <3>2. ASSUME NEW e \in Events, worker'[v] = Snapshot(e)
          PROVE  /\ UpToDate(worker'[v], row'[worker'[v].event])
                 /\ worker'[v].pc # "ticketNote"
      <4> DEFINE m == Snapshot(e)
      <4>1. m.pc = "begin" /\ m.event = e /\ m.note = row[e].note /\ m.task = row[e].task
            /\ m.ticket = row[e].ticket /\ m.contact = row[e].contact
        BY DEF Snapshot, Idle
      <4> HIDE DEF m
      <4>2. UpToDate(m, row[e])
        BY <4>1, PhaseMembers DEF UpToDate
      <4>3. UpToDate(m, row'[e])
        BY <1>2, <4>2, UpToDateKept
      <4> QED
        BY <3>2, <4>1, <4>3 DEF m
    <3> QED
      BY <1>2, <2>1, <3>1, <3>2
  <2>2. \A e \in Events : made'[e].inTicket <= 1 /\ (row'[e].ticket = NULL => made'[e].inTicket = 0)
    BY <1>2 DEF RecordInv, SameIds
  <2> QED
    BY <2>1, <2>2 DEF RecordInv, At, MyRow
<1>3. ASSUME NEW w \in Workers, NEW e \in Events, Claim(w, e) PROVE RecordInv'
  <2>1. \A f \in Events : SameIds(row[f], row'[f])
    BY <1>0, <1>3 DEF Claim, SameIds, Row
  <2>2. UNCHANGED made /\ \A v \in Workers : worker'[v] = worker[v] \/ worker'[v] = Snapshot(e)
    BY <1>0, <1>3 DEF Claim, hubspot
  <2> QED
    BY <1>2, <2>1, <2>2
<1>4. ASSUME NEW w \in Workers, Ack(w) \/ Nack(w) \/ DeadLetter(w) \/ Abandon(w) PROVE RecordInv'
  <2>1. \A f \in Events : SameIds(row[f], row'[f])
    BY <1>0, <1>4 DEF Ack, Nack, DeadLetter, Finish, Abandon, SameIds, Row
  <2>2. UNCHANGED made /\ \A v \in Workers : worker'[v] = worker[v] \/ worker'[v].pc = "poll"
    BY <1>0, <1>4 DEF Ack, Nack, DeadLetter, Finish, Abandon, Idle, hubspot
  <2> QED
    BY <1>2, <2>1, <2>2
<1>5. CASE Replay
  <2>1. \A f \in Events : SameIds(row[f], row'[f])
    BY <1>0, <1>5 DEF Replay, SameIds, Row
  <2> QED
    BY <1>2, <1>5, <2>1 DEF Replay, hubspot
<1>6. ASSUME NEW e \in Events, Publish(e) \/ LeaseExpires(e) \/ BackoffElapses(e)
      PROVE  RecordInv'
  <2>1. \A f \in Events : SameIds(row[f], row'[f])
    BY <1>0, <1>6 DEF Publish, LeaseExpires, BackoffElapses, SameIds, Row
  <2> QED
    BY <1>2, <1>6, <2>1 DEF Publish, LeaseExpires, BackoffElapses, hubspot
<1>7. ASSUME \/ \E e \in Events : GateOpens(e)
             \/ \E c \in DOMAIN contacts : IndexCatchesUp(c)
             \/ \E t \in DOMAIN tickets : TicketCloses(t)
             \/ UNCHANGED vars
      PROVE  RecordInv'
  <2>1. UNCHANGED <<row, worker, made>>
    BY <1>7 DEF GateOpens, IndexCatchesUp, TicketCloses, vars, hubspot
  <2> QED
    BY <1>2, <2>1 DEF SameIds
<1>8. \A w \in Workers : Working(w) => ~At(w, "poll")
  BY DEF Working, Begin, LookupContact, SearchContact, CreateContact, SaveContact,
     GetContactLog, UpdateContact, CreateNote, SaveNote, PriorTicket, GetTicket, CreateTicket,
     SaveTicket, TicketNote, CreateTask, SaveTask, TransientError, PermanentError, Calls, At
<1> QED
  BY <1>1, <1>3, <1>4, <1>5, <1>6, <1>7, <1>8 DEF Next, Step, ClaimNext, Working

(* Under the lease, no step makes again what the row already has.          *)
LEMMA NextCreatesNew ==
  ASSUME TypeInv, RecordInv, [Next]_vars, NEW e \in Events
  PROVE  ~Recreates(e)
<1>0. row \in [Events -> Row] /\ made \in [Events -> [note : Nat, task : Nat, inTicket : Nat]]
      /\ tickets \in Seq([event : Events, open : BOOLEAN])
  BY DEF TypeInv, TypeOK
<1>1. ASSUME \A f \in Events : SameIds(row[f], row'[f]), UNCHANGED made,
             Len(tickets') = Len(tickets)
      PROVE  ~Recreates(e)
  BY <1>0, <1>1 DEF Recreates, SameIds
<1>2. ASSUME NEW w \in Workers, Working(w) PROVE ~Recreates(e)
  <2>1. ~At(w, "poll")
    BY <1>2 DEF Working, Begin, LookupContact, SearchContact, CreateContact, SaveContact,
       GetContactLog, UpdateContact, CreateNote, SaveNote, PriorTicket, GetTicket, CreateTicket,
       SaveTicket, TicketNote, CreateTask, SaveTask, TransientError, PermanentError, Calls, At
  <2> QED
    BY <1>2, <2>1, WorkCreatesNew
<1>3. ASSUME NEW w \in Workers, NEW f \in Events, Claim(w, f) PROVE ~Recreates(e)
  <2>1. \A g \in Events : SameIds(row[g], row'[g])
    BY <1>0, <1>3 DEF Claim, SameIds, Row
  <2> QED
    BY <1>1, <1>3, <2>1 DEF Claim, hubspot
<1>4. ASSUME NEW w \in Workers, Ack(w) \/ Nack(w) \/ DeadLetter(w) \/ Abandon(w)
      PROVE  ~Recreates(e)
  <2>1. \A g \in Events : SameIds(row[g], row'[g])
    <3>1. CASE Abandon(w)
      BY <3>1 DEF Abandon, SameIds
    <3>2. CASE Ack(w) \/ Nack(w) \/ DeadLetter(w)
      <4>1. PICK st, until : row' = [row EXCEPT ![MyRow(w)].status = st, ![MyRow(w)].retry = until]
        BY <3>2 DEF Ack, Nack, DeadLetter, Finish
      <4> QED
        BY <1>0, <4>1 DEF SameIds, Row
    <3> QED
      BY <1>4, <3>1, <3>2
  <2> QED
    BY <1>1, <1>4, <2>1 DEF Ack, Nack, DeadLetter, Finish, Abandon, hubspot
<1>5. CASE Replay
  <2>1. \A g \in Events : SameIds(row[g], row'[g])
    BY <1>0, <1>5 DEF Replay, SameIds, Row
  <2> QED
    BY <1>1, <1>5, <2>1 DEF Replay, hubspot
<1>6. ASSUME NEW f \in Events, Publish(f) \/ LeaseExpires(f) \/ BackoffElapses(f)
      PROVE  ~Recreates(e)
  <2>1. \A g \in Events : SameIds(row[g], row'[g])
    <3>1. CASE Publish(f)
      BY <1>0, <3>1 DEF Publish, SameIds, Row
    <3>2. CASE LeaseExpires(f) \/ BackoffElapses(f)
      <4>1. row' = [row EXCEPT ![f].retry = "none"]
        BY <3>2 DEF LeaseExpires, BackoffElapses
      <4> QED
        BY <1>0, <4>1 DEF SameIds, Row
    <3> QED
      BY <1>6, <3>1, <3>2
  <2> QED
    BY <1>1, <1>6, <2>1 DEF Publish, LeaseExpires, BackoffElapses, hubspot
<1>7. ASSUME NEW t \in DOMAIN tickets, TicketCloses(t) PROVE ~Recreates(e)
  BY <1>0, <1>1, <1>7 DEF TicketCloses, SameIds
<1>8. ASSUME \/ \E f \in Events : GateOpens(f)
             \/ \E c \in DOMAIN contacts : IndexCatchesUp(c)
             \/ UNCHANGED vars
      PROVE  ~Recreates(e)
  BY <1>1, <1>8 DEF GateOpens, IndexCatchesUp, vars, hubspot, SameIds
<1> QED
  BY <1>2, <1>3, <1>4, <1>5, <1>6, <1>7, <1>8 DEF Next, Step, ClaimNext, Working

(* NothingRecreated: if no two processes meet at an event, then retries,   *)
(* replays and restarts never create a note, ticket or task whose id is    *)
(* saved, nor swap a saved id.                                             *)
THEOREM RetriesCreateNothingAgain ==
  ASSUME OneAtATime
  PROVE  Spec => NothingRecreated
<1>1. Init => TypeInv /\ ProgressInv /\ LeaseInv /\ RecordInv
  BY InitTypeInv, InitProgressInv, InitLeaseInv, InitRecordInv
<1>2. TypeInv /\ ProgressInv /\ LeaseInv /\ RecordInv /\ [Next]_vars
        => TypeInv' /\ ProgressInv' /\ LeaseInv' /\ RecordInv'
  BY TypeInvStep, ProgressInvStep, LeaseInvStep, RecordInvStep DEF LeaseInv
<1>3. TypeInv /\ RecordInv /\ [Next]_vars
        => [\A e \in Events :
              /\ made'[e].note > made[e].note => ~row[e].note
              /\ made'[e].task > made[e].task => ~row[e].task
              /\ Len(tickets') > Len(tickets) /\ tickets'[Len(tickets')].event = e
                   => row[e].ticket = NULL
              /\ row[e].ticket # NULL => row'[e].ticket = row[e].ticket
              /\ row[e].contact # NULL => row'[e].contact = row[e].contact]_vars
  BY NextCreatesNew DEF Recreates
<1> QED
  BY <1>1, <1>2, <1>3, PTL DEF Spec, NothingRecreated

(* InTicketNoteOnce: if no two processes meet at an event, a reused ticket *)
(* gets the event's note at most once, although that note has no id of its *)
(* own to save.                                                            *)
THEOREM OneNoteInTicket ==
  ASSUME OneAtATime
  PROVE  Spec => []InTicketNoteOnce
<1>1. Init => TypeInv /\ ProgressInv /\ LeaseInv /\ RecordInv
  BY InitTypeInv, InitProgressInv, InitLeaseInv, InitRecordInv
<1>2. TypeInv /\ ProgressInv /\ LeaseInv /\ RecordInv /\ [Next]_vars
        => TypeInv' /\ ProgressInv' /\ LeaseInv' /\ RecordInv'
  BY TypeInvStep, ProgressInvStep, LeaseInvStep, RecordInvStep DEF LeaseInv
<1>3. RecordInv => InTicketNoteOnce
  BY DEF RecordInv, InTicketNoteOnce
<1> QED
  BY <1>1, <1>2, <1>3, PTL DEF Spec
=============================================================================
