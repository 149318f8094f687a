---------------------------- MODULE DeliveryProofs ----------------------------
(***************************************************************************)
(* Proofs about DeliveryWorker, for every number of events, workers,       *)
(* attempts, faults and replays.                                           *)
(***************************************************************************)
EXTENDS DeliveryRefinement, TLAPS

(* Ids point at existing contacts, which is what makes contacts[id] safe,  *)
(* a message past the contact phase has one, and a contact is only looked  *)
(* for or created for a caller whose number is known.                      *)
NeedsPhone == {"lookup", "search", "create"}

IdsValid ==
  /\ \A e \in Events : row[e].contact \in 0 .. Len(contacts)
  /\ \A w \in Workers :
       /\ worker[w].contact \in 0 .. Len(contacts)
       /\ worker[w].pc \in HasContact => worker[w].contact # NULL
       /\ worker[w].pc \in NeedsPhone => PhoneOf[worker[w].event] # NoPhone

TypeInv == TypeOK /\ IdsValid

(* TypeInv again, by the variable each part is about.                      *)
RowsGood ==
  /\ row \in [Events -> Row]
  /\ \A e \in Events : row[e].contact \in 0 .. Len(contacts)

WorkersGood ==
  /\ worker \in [Workers -> Message]
  /\ \A w \in Workers :
       /\ worker[w].pc = "poll" <=> worker[w].event = NULL
       /\ worker[w].contact \in 0 .. Len(contacts)
       /\ worker[w].pc \in HasContact => worker[w].contact # NULL
       /\ worker[w].pc \in NeedsPhone => PhoneOf[worker[w].event] # NoPhone

HubspotGood ==
  /\ contacts \in Seq(ContactRecord)
  /\ tickets \in Seq([event : Events, open : BOOLEAN])
  /\ made \in [Events -> [note : Nat, task : Nat, inTicket : Nat]]

OthersGood == gate \subseteq Events /\ faults \in Nat /\ replays \in Nat

(* A message a process may hold when HubSpot has n contacts.               *)
GoodMessage(m, n) ==
  /\ m \in Message
  /\ m.pc = "poll" <=> m.event = NULL
  /\ m.contact \in 0 .. n
  /\ m.pc \in HasContact => m.contact # NULL
  /\ m.pc \in NeedsPhone => PhoneOf[m.event] # NoPhone

-----------------------------------------------------------------------------
LEMMA InitTypeInv == Init => TypeInv
<1> SUFFICES ASSUME Init PROVE TypeInv
  OBVIOUS
<1>1. row \in [Events -> Row] /\ \A e \in Events : row[e].contact = 0
  BY DEF Init, NewRow, Row, NULL
<1>2. Idle \in Message /\ worker \in [Workers -> Message] /\ \A w \in Workers : worker[w] = Idle
  <2>1. Idle \in Message
    BY DEF Idle, Message, PC, NULL
  <2> QED
    BY <2>1 DEF Init
<1>3. \A w \in Workers : worker[w].pc = "poll" /\ worker[w].event = NULL /\ worker[w].contact = 0
  BY <1>2 DEF Idle, NULL
<1>4. contacts \in Seq(ContactRecord) /\ Len(contacts) \in Nat
  BY ConstantsOK DEF Init
<1>5. TypeOK
  BY <1>1, <1>2, <1>3, <1>4 DEF Init, TypeOK, At, Holds
<1>6. "poll" \notin HasContact /\ "poll" \notin NeedsPhone
  BY DEF HasContact, PastPatch, PastNote, PastTicket, LogPhase, NotePhase, TicketPhase, TaskPhase,
         NeedsPhone
<1>7. IdsValid
  BY <1>1, <1>3, <1>4, <1>6 DEF IdsValid
<1> QED
  BY <1>5, <1>7 DEF TypeInv

LEMMA TypeInvParts ==
  /\ TypeInv <=> RowsGood /\ WorkersGood /\ HubspotGood /\ OthersGood
  /\ TypeInv' <=> RowsGood' /\ WorkersGood' /\ HubspotGood' /\ OthersGood'
BY DEF TypeInv, TypeOK, IdsValid, RowsGood, WorkersGood, HubspotGood, OthersGood, At, Holds

LEMMA PCFacts ==
  /\ HasContact = {"saveFound", "saveMade", "getLog", "patch", "note", "saveNote", "priorTicket",
                   "getTicket", "createTicket", "saveTicket", "ticketNote", "task", "saveTask",
                   "ack"}
  /\ PC = HasContact \cup {"poll", "begin", "lookup", "search", "create", "nack", "dead"}
  /\ NeedsPhone = {"lookup", "search", "create"}
  /\ HasContact \cap NeedsPhone = {}
BY DEF HasContact, PC, PastPatch, PastNote, PastTicket, ContactPhase, LogPhase, NotePhase,
       TicketPhase, TaskPhase, Outcome, NeedsPhone

LEMMA NextPhases ==
  ASSUME NEW m
  PROVE  /\ FirstPhase(m) \in {"getLog", "dead", "lookup"}
         /\ FirstPhase(m) = "getLog" => m.contact # NULL
         /\ FirstPhase(m) = "lookup" => PhoneOf[m.event] # NoPhone
         /\ AfterTicket(m) \in {"task", "ack"}
         /\ AfterNote(m) \in {"priorTicket", "task", "ack"}
         /\ AfterPatch(m) \in {"note", "priorTicket", "task", "ack"}
BY DEF FirstPhase, AfterTicket, AfterNote, AfterPatch

LEMMA IdleIsGood == \A n \in Nat : GoodMessage(Idle, n)
<1>1. Idle \in Message
  BY DEF Idle, Message, PC, NULL
<1> QED
  BY <1>1, PCFacts DEF GoodMessage, Idle, NULL

LEMMA HeldMessageIsGood ==
  ASSUME TypeInv, NEW w \in Workers
  PROVE  /\ GoodMessage(worker[w], Len(contacts))
         /\ Len(contacts) \in Nat
         /\ worker[w].event \in Events \cup {NULL}
BY DEF TypeInv, TypeOK, IdsValid, GoodMessage, At, Holds, Message

LEMMA GotoIsGood ==
  ASSUME TypeInv, NEW w \in Workers, ~At(w, "poll"), NEW pc \in PC, pc # "poll",
         pc \in HasContact => worker[w].contact # NULL,
         pc \in NeedsPhone => PhoneOf[worker[w].event] # NoPhone
  PROVE  GoodMessage([worker[w] EXCEPT !.pc = pc], Len(contacts))
<1>1. worker[w] \in Message /\ worker[w].event # NULL
  BY DEF TypeInv, TypeOK, At, Holds
<1>2. [worker[w] EXCEPT !.pc = pc] \in Message
  BY <1>1 DEF Message
<1> QED
  BY <1>1, <1>2, HeldMessageIsGood DEF GoodMessage, Message

(* If a step gives one process a good message and HubSpot loses no         *)
(* contact, the workers stay as they should be.                            *)
LEMMA WorkersKept ==
  ASSUME TypeInv, NEW w \in Workers, NEW m, worker' = [worker EXCEPT ![w] = m],
         Len(contacts') \in Nat, Len(contacts) <= Len(contacts'),
         GoodMessage(m, Len(contacts'))
  PROVE  WorkersGood'
<1>1. worker \in [Workers -> Message] /\ Len(contacts) \in Nat
  BY DEF TypeInv, TypeOK
<1>2. \A v \in Workers : GoodMessage(worker[v], Len(contacts))
  BY HeldMessageIsGood
<1> QED
  BY <1>1, <1>2 DEF GoodMessage, WorkersGood

LEMMA GotoKept ==
  ASSUME TypeInv, NEW w \in Workers, ~At(w, "poll"), NEW pc \in PC, pc # "poll",
         pc \in HasContact => worker[w].contact # NULL,
         pc \in NeedsPhone => PhoneOf[worker[w].event] # NoPhone, Goto(w, pc),
         Len(contacts') \in Nat, Len(contacts) <= Len(contacts')
  PROVE  WorkersGood'
<1> DEFINE m == [worker[w] EXCEPT !.pc = pc]
<1>1. GoodMessage(m, Len(contacts'))
  BY GotoIsGood, HeldMessageIsGood DEF GoodMessage
<1>2. worker' = [worker EXCEPT ![w] = m]
  BY DEF Goto
<1> QED
  BY <1>1, <1>2, WorkersKept

LEMMA RowsKept ==
  ASSUME TypeInv, NEW e \in Events, NEW r \in Row, r.contact \in 0 .. Len(contacts),
         row' = [row EXCEPT ![e] = r], UNCHANGED contacts
  PROVE  RowsGood'
BY DEF TypeInv, TypeOK, IdsValid, RowsGood

(* A message stays good when its contact, its log, or what it knows of its *)
(* ticket is set on the way to another phase.                              *)
LEMMA EditIsGood ==
  ASSUME NEW m, NEW n \in Nat, GoodMessage(m, n), m.event # NULL,
         NEW pc \in HasContact, m.contact # NULL
  PROVE  /\ \A t \in Nat : GoodMessage([m EXCEPT !.ticket = t, !.pc = pc], n)
         /\ \A l \in Seq(Nat) : GoodMessage([m EXCEPT !.log = l, !.pc = pc], n)
         /\ GoodMessage([m EXCEPT !.reused = TRUE, !.pc = pc], n)
         /\ GoodMessage([m EXCEPT !.pc = pc], n)
<1>0. pc \in PC /\ pc # "poll" /\ pc \notin NeedsPhone
  BY PCFacts
<1>1. m \in Message
  BY DEF GoodMessage
<1>2. \A t \in Nat : [m EXCEPT !.ticket = t, !.pc = pc] \in Message
  BY <1>0, <1>1 DEF Message
<1>3. \A l \in Seq(Nat) : [m EXCEPT !.log = l, !.pc = pc] \in Message
  BY <1>0, <1>1 DEF Message
<1>4. [m EXCEPT !.reused = TRUE, !.pc = pc] \in Message
  BY <1>0, <1>1 DEF Message
<1>5. [m EXCEPT !.pc = pc] \in Message
  BY <1>0, <1>1 DEF Message
<1>6. ASSUME NEW t \in Nat PROVE GoodMessage([m EXCEPT !.ticket = t, !.pc = pc], n)
  BY <1>0, <1>1, <1>2 DEF GoodMessage, Message
<1>7. ASSUME NEW l \in Seq(Nat) PROVE GoodMessage([m EXCEPT !.log = l, !.pc = pc], n)
  BY <1>0, <1>1, <1>3 DEF GoodMessage, Message
<1>8. GoodMessage([m EXCEPT !.reused = TRUE, !.pc = pc], n)
  BY <1>0, <1>1, <1>4 DEF GoodMessage, Message
<1>9. GoodMessage([m EXCEPT !.pc = pc], n)
  BY <1>0, <1>1, <1>5 DEF GoodMessage, Message
<1> QED
  BY <1>6, <1>7, <1>8, <1>9

LEMMA ContactIsGood ==
  ASSUME NEW m, NEW n \in Nat, GoodMessage(m, n), m.event # NULL, NEW k \in Nat, n <= k,
         NEW c \in 1 .. k, NEW pc \in HasContact
  PROVE  GoodMessage([m EXCEPT !.contact = c, !.pc = pc], k)
<1>0. pc \in PC /\ pc # "poll" /\ pc \notin NeedsPhone
  BY PCFacts
<1>1. m \in Message
  BY DEF GoodMessage
<1>2. c \in Nat /\ c \in 0 .. k /\ c # NULL
  BY DEF NULL
<1>3. [m EXCEPT !.contact = c, !.pc = pc] \in Message
  BY <1>0, <1>1, <1>2 DEF Message
<1>4. /\ [m EXCEPT !.contact = c, !.pc = pc].contact = c
      /\ [m EXCEPT !.contact = c, !.pc = pc].pc = pc
      /\ [m EXCEPT !.contact = c, !.pc = pc].event = m.event
  BY <1>1 DEF Message
<1> QED
  BY <1>0, <1>2, <1>3, <1>4 DEF GoodMessage

-----------------------------------------------------------------------------
(* The steps that change neither the tables nor HubSpot.                   *)
LEMMA LocalSteps ==
  ASSUME TypeInv, NEW w \in Workers,
         \/ Begin(w) \/ SearchContact(w) \/ LookupContact(w) \/ GetContactLog(w)
         \/ PriorTicket(w) \/ GetTicket(w) \/ TransientError(w) \/ PermanentError(w)
  PROVE  WorkersGood'
<1> DEFINE m == worker[w]
<1>0. /\ GoodMessage(m, Len(contacts)) /\ Len(contacts) \in Nat
      /\ row \in [Events -> Row] /\ contacts \in Seq(ContactRecord)
      /\ \A f \in Events : row[f].contact \in 0 .. Len(contacts)
  BY HeldMessageIsGood DEF GoodMessage, TypeInv, TypeOK, IdsValid
<1>a. contacts' = contacts /\ Len(contacts') \in Nat /\ Len(contacts) <= Len(contacts')
  BY <1>0 DEF Begin, SearchContact, LookupContact, GetContactLog, PriorTicket, GetTicket,
         TransientError, PermanentError, hubspot
<1>b. ~At(w, "poll") /\ m.event # NULL
  BY <1>0 DEF Begin, SearchContact, LookupContact, GetContactLog, PriorTicket, GetTicket,
         TransientError, PermanentError, Calls, At, GoodMessage
<1>c. ASSUME NEW r, worker' = [worker EXCEPT ![w] = r], GoodMessage(r, Len(contacts))
      PROVE  WorkersGood'
  BY <1>a, <1>c, WorkersKept
<1>d. ASSUME NEW pc \in PC, pc # "poll", pc \in HasContact => m.contact # NULL,
             pc \in NeedsPhone => PhoneOf[m.event] # NoPhone, Goto(w, pc)
      PROVE  WorkersGood'
  BY <1>a, <1>b, <1>d, GotoKept
<1>1. CASE Begin(w)
  <2>1. PICK pc \in {"dead", "nack", FirstPhase(m)} : Goto(w, pc)
    BY <1>1 DEF Begin
  <2>2. pc \in PC /\ pc # "poll" /\ (pc \in HasContact => m.contact # NULL)
       /\ (pc \in NeedsPhone => PhoneOf[m.event] # NoPhone)
    BY <2>1, NextPhases, PCFacts
  <2> QED
    BY <1>d, <2>1, <2>2
<1>2. CASE TransientError(w) \/ PermanentError(w)
  <2>1. PICK pc \in {"dead", "nack"} : Goto(w, pc)
    BY <1>2 DEF TransientError, PermanentError
  <2> QED
    BY <1>d, <2>1, PCFacts
<1>3. CASE SearchContact(w)
  <2>0. PhoneOf[m.event] # NoPhone
    BY <1>0, <1>3, PCFacts DEF SearchContact, At, GoodMessage
  <2>1. CASE Goto(w, "create")
    BY <1>d, <2>0, <2>1, PCFacts
  <2>2. ASSUME NEW c \in DOMAIN contacts,
               worker' = [worker EXCEPT ![w].contact = c, ![w].pc = "saveMade"]
        PROVE  WorkersGood'
    <3>1. c \in 1 .. Len(contacts)
      BY <1>0
    <3>2. Len(contacts) <= Len(contacts) /\ "saveMade" \in HasContact
      BY <1>0, PCFacts
    <3>3. GoodMessage([m EXCEPT !.contact = c, !.pc = "saveMade"], Len(contacts))
      BY <1>0, <1>b, <3>1, <3>2, ContactIsGood
    <3>4. worker' = [worker EXCEPT ![w] = [m EXCEPT !.contact = c, !.pc = "saveMade"]]
      BY <2>2
    <3> QED
      BY <1>c, <3>3, <3>4
  <2> QED
    BY <1>3, <2>1, <2>2 DEF SearchContact
<1>4. CASE LookupContact(w)
  <2>0. PhoneOf[m.event] # NoPhone
    BY <1>0, <1>4, PCFacts DEF LookupContact, At, GoodMessage
  <2>1. CASE Goto(w, "search")
    BY <1>d, <2>0, <2>1, PCFacts
  <2>2. ASSUME NEW f \in Events, row[f].contact # NULL,
               worker' = [worker EXCEPT ![w].contact = row[f].contact, ![w].pc = "saveFound"]
        PROVE  WorkersGood'
    <3>1. row[f].contact \in 1 .. Len(contacts)
      BY <1>0, <2>2 DEF NULL
    <3>2. Len(contacts) <= Len(contacts) /\ "saveFound" \in HasContact
      BY <1>0, PCFacts
    <3>3. GoodMessage([m EXCEPT !.contact = row[f].contact, !.pc = "saveFound"], Len(contacts))
      BY <1>0, <1>b, <3>1, <3>2, ContactIsGood
    <3>4. worker' = [worker EXCEPT ![w] = [m EXCEPT !.contact = row[f].contact,
                                                    !.pc = "saveFound"]]
      BY <2>2
    <3> QED
      BY <1>c, <3>3, <3>4
  <2> QED
    BY <1>4, <2>1, <2>2 DEF LookupContact
<1>5. CASE GetContactLog(w)
  <2> DEFINE log == contacts[m.contact].log
  <2>1. m.contact # NULL /\ m.contact \in DOMAIN contacts
    BY <1>0, <1>5, PCFacts DEF GetContactLog, GoodMessage, At, NULL
  <2>2. contacts[m.contact] \in ContactRecord
    BY <1>0, <2>1
  <2>3. log \in Seq(Nat)
    BY <2>2 DEF ContactRecord
  <2>4. GoodMessage([m EXCEPT !.log = log, !.pc = "patch"], Len(contacts))
    BY <1>0, <1>b, <2>1, <2>3, PCFacts, EditIsGood
  <2>5. worker' = [worker EXCEPT ![w] = [m EXCEPT !.log = log, !.pc = "patch"]]
    BY <1>5 DEF GetContactLog
  <2> QED
    BY <1>c, <2>4, <2>5
<1>6. CASE PriorTicket(w)
  <2>0. m.contact # NULL
    BY <1>0, <1>6, PCFacts DEF PriorTicket, At, GoodMessage
  <2>1. CASE Goto(w, "createTicket")
    BY <1>d, <2>0, <2>1, PCFacts
  <2>2. ASSUME NEW f \in Events,
               worker' = [worker EXCEPT ![w].ticket = row[f].ticket, ![w].pc = "getTicket"]
        PROVE  WorkersGood'
    <3>1. row[f].ticket \in Nat
      BY <1>0 DEF Row
    <3>2. GoodMessage([m EXCEPT !.ticket = row[f].ticket, !.pc = "getTicket"], Len(contacts))
      BY <1>0, <1>b, <2>0, <3>1, PCFacts, EditIsGood
    <3>3. worker' = [worker EXCEPT ![w] = [m EXCEPT !.ticket = row[f].ticket,
                                                    !.pc = "getTicket"]]
      BY <2>2
    <3> QED
      BY <1>c, <3>2, <3>3
  <2> QED
    BY <1>6, <2>1, <2>2 DEF PriorTicket
<1>7. CASE GetTicket(w)
  <2>0. m.contact # NULL
    BY <1>0, <1>7, PCFacts DEF GetTicket, At, GoodMessage
  <2>1. CASE Goto(w, "createTicket")
    BY <1>d, <2>0, <2>1, PCFacts
  <2>2. CASE worker' = [worker EXCEPT ![w].reused = TRUE, ![w].pc = "saveTicket"]
    <3>1. GoodMessage([m EXCEPT !.reused = TRUE, !.pc = "saveTicket"], Len(contacts))
      BY <1>0, <1>b, <2>0, PCFacts, EditIsGood
    <3>2. worker' = [worker EXCEPT ![w] = [m EXCEPT !.reused = TRUE, !.pc = "saveTicket"]]
      BY <2>2
    <3> QED
      BY <1>c, <3>1, <3>2
  <2> QED
    BY <1>7, <2>1, <2>2 DEF GetTicket
<1> QED
  BY <1>1, <1>2, <1>3, <1>4, <1>5, <1>6, <1>7

-----------------------------------------------------------------------------
(* The steps that save an id on the message's row.                         *)
LEMMA SaveSteps ==
  ASSUME TypeInv, NEW w \in Workers,
         SaveContact(w) \/ SaveNote(w) \/ SaveTicket(w) \/ SaveTask(w)
  PROVE  RowsGood' /\ WorkersGood'
<1> DEFINE m == worker[w]
<1> DEFINE r == row[m.event]
<1>0. /\ GoodMessage(m, Len(contacts)) /\ Len(contacts) \in Nat /\ m.event \in Events \cup {NULL}
      /\ m \in Message /\ row \in [Events -> Row]
      /\ \A f \in Events : row[f].contact \in 0 .. Len(contacts)
  BY HeldMessageIsGood DEF GoodMessage, TypeInv, TypeOK, IdsValid
<1>a. contacts' = contacts /\ Len(contacts') \in Nat /\ Len(contacts) <= Len(contacts')
  BY <1>0 DEF SaveContact, SaveNote, SaveTicket, SaveTask, hubspot
<1>b. ~At(w, "poll") /\ m.event # NULL /\ m.contact # NULL /\ m.event \in Events
  BY <1>0, PCFacts DEF SaveContact, SaveNote, SaveTicket, SaveTask, At, GoodMessage
<1>c. r \in Row /\ r.contact \in 0 .. Len(contacts)
  BY <1>0, <1>b
<1>d. ASSUME NEW q \in Row, q.contact \in 0 .. Len(contacts), row' = [row EXCEPT ![m.event] = q]
      PROVE  RowsGood'
  BY <1>a, <1>b, <1>d, RowsKept
<1>e. ASSUME NEW pc \in HasContact, Goto(w, pc)
      PROVE  WorkersGood'
  <2>1. pc \in PC /\ pc # "poll" /\ pc \notin NeedsPhone
    BY PCFacts
  <2> QED
    BY <1>a, <1>b, <1>e, <2>1, GotoKept
<1>1. CASE SaveContact(w)
  <2>1. [r EXCEPT !.contact = m.contact] \in Row
    BY <1>0, <1>c DEF Row, Message
  <2>2. [r EXCEPT !.contact = m.contact].contact \in 0 .. Len(contacts)
    BY <1>0, <1>c DEF Row, GoodMessage
  <2>3. row' = [row EXCEPT ![m.event] = [r EXCEPT !.contact = m.contact]]
    BY <1>1 DEF SaveContact, MyRow
  <2>4. RowsGood'
    BY <1>d, <2>1, <2>2, <2>3
  <2>5. PICK pc \in {"getLog", "patch"} : Goto(w, pc)
    BY <1>1 DEF SaveContact
  <2> QED
    BY <1>e, <2>4, <2>5, PCFacts
<1>2. CASE SaveNote(w)
  <2>1. [r EXCEPT !.note = TRUE] \in Row
    BY <1>c DEF Row
  <2>2. [r EXCEPT !.note = TRUE].contact \in 0 .. Len(contacts)
    BY <1>c DEF Row
  <2>3. row' = [row EXCEPT ![m.event] = [r EXCEPT !.note = TRUE]]
    BY <1>2 DEF SaveNote, MyRow
  <2>4. RowsGood'
    BY <1>d, <2>1, <2>2, <2>3
  <2>5. PICK pc \in {"priorTicket", "task", "ack"} : Goto(w, pc)
    BY <1>2, NextPhases DEF SaveNote
  <2> QED
    BY <1>e, <2>4, <2>5, PCFacts
<1>3. CASE SaveTicket(w)
  <2>1. [r EXCEPT !.ticket = m.ticket] \in Row
    BY <1>0, <1>c DEF Row, Message
  <2>2. [r EXCEPT !.ticket = m.ticket].contact \in 0 .. Len(contacts)
    BY <1>c DEF Row
  <2>3. row' = [row EXCEPT ![m.event] = [r EXCEPT !.ticket = m.ticket]]
    BY <1>3 DEF SaveTicket, MyRow
  <2>4. RowsGood'
    BY <1>d, <2>1, <2>2, <2>3
  <2>5. PICK pc \in {"ticketNote", "task", "ack"} : Goto(w, pc)
    BY <1>3, NextPhases DEF SaveTicket
  <2> QED
    BY <1>e, <2>4, <2>5, PCFacts
<1>4. CASE SaveTask(w)
  <2>1. [r EXCEPT !.task = TRUE] \in Row
    BY <1>c DEF Row
  <2>2. [r EXCEPT !.task = TRUE].contact \in 0 .. Len(contacts)
    BY <1>c DEF Row
  <2>3. row' = [row EXCEPT ![m.event] = [r EXCEPT !.task = TRUE]]
    BY <1>4 DEF SaveTask, MyRow
  <2>4. RowsGood'
    BY <1>d, <2>1, <2>2, <2>3
  <2>5. Goto(w, "ack")
    BY <1>4 DEF SaveTask
  <2> QED
    BY <1>e, <2>4, <2>5, PCFacts
<1> QED
  BY <1>1, <1>2, <1>3, <1>4

(* HubSpot's answer may be lost; either way the workers stay good.         *)
LEMMA AnsweredKept ==
  ASSUME TypeInv, NEW w \in Workers, ~At(w, "poll"), NEW m, Answered(w, m),
         Len(contacts') \in Nat, Len(contacts) <= Len(contacts'),
         GoodMessage(m, Len(contacts'))
  PROVE  WorkersGood' /\ faults' \in Nat
<1>0. faults \in Nat /\ "nack" \in PC /\ "nack" \notin HasContact /\ "nack" \notin NeedsPhone
  BY PCFacts DEF TypeInv, TypeOK
<1>1. CASE worker' = [worker EXCEPT ![w] = m] /\ UNCHANGED faults
  BY <1>0, <1>1, WorkersKept
<1>2. CASE faults' = faults + 1 /\ Goto(w, "nack")
  BY <1>0, <1>2, GotoKept
<1> QED
  BY <1>1, <1>2 DEF Answered

(* The calls that change HubSpot.                                          *)
LEMMA CreateContactStep ==
  ASSUME TypeInv, NEW w \in Workers, CreateContact(w)
  PROVE  /\ WorkersGood' /\ faults' \in Nat
         /\ contacts' \in Seq(ContactRecord)
         /\ Len(contacts') = Len(contacts) + 1
<1> DEFINE m == worker[w]
<1> DEFINE c == [phone |-> PhoneOf[MyRow(w)], log |-> <<>>, indexed |-> FALSE]
<1>0. /\ GoodMessage(m, Len(contacts)) /\ Len(contacts) \in Nat /\ contacts \in Seq(ContactRecord)
  BY HeldMessageIsGood DEF TypeInv, TypeOK
<1>1. c \in ContactRecord
  <2>1. PhoneOf[m.event] # NoPhone /\ m.event # NULL /\ m.event \in Events \cup {NULL}
    BY <1>0, PCFacts, HeldMessageIsGood DEF CreateContact, At, GoodMessage
  <2>2. PhoneOf[m.event] \in Phones
    BY <2>1, ConstantsOK
  <2> QED
    BY <2>2 DEF ContactRecord, MyRow
<1>2. contacts' = Append(contacts, c)
  BY DEF CreateContact
<1>3. contacts' \in Seq(ContactRecord) /\ Len(contacts') = Len(contacts) + 1
  BY <1>0, <1>1, <1>2
<1>4. ~At(w, "poll") /\ m.event # NULL
  BY <1>0 DEF CreateContact, At, GoodMessage
<1>5. "saveMade" \in HasContact /\ Len(contacts) + 1 \in 1 .. Len(contacts') /\ Len(contacts') \in Nat
      /\ Len(contacts) <= Len(contacts')
  BY <1>0, <1>3, PCFacts
<1>6. GoodMessage([m EXCEPT !.contact = Len(contacts) + 1, !.pc = "saveMade"], Len(contacts'))
  BY <1>0, <1>4, <1>5, ContactIsGood
<1>7. Answered(w, [m EXCEPT !.contact = Len(contacts) + 1, !.pc = "saveMade"])
  BY DEF CreateContact
<1>8. WorkersGood' /\ faults' \in Nat
  BY <1>4, <1>5, <1>6, <1>7, AnsweredKept
<1> QED
  BY <1>3, <1>8

LEMMA UpdateContactStep ==
  ASSUME TypeInv, NEW w \in Workers, UpdateContact(w)
  PROVE  /\ WorkersGood' /\ faults' \in Nat
         /\ contacts' \in Seq(ContactRecord)
         /\ Len(contacts') = Len(contacts)
<1> DEFINE m == worker[w]
<1> DEFINE log == Prepended(m.log, m.event)
<1>0. /\ GoodMessage(m, Len(contacts)) /\ Len(contacts) \in Nat /\ contacts \in Seq(ContactRecord)
      /\ m \in Message /\ m.event \in Events \cup {NULL} /\ At(w, "patch")
  BY HeldMessageIsGood DEF TypeInv, TypeOK, UpdateContact
<1>1. /\ ~At(w, "poll") /\ m.event # NULL /\ m.event \in Events
      /\ m.contact # NULL /\ m.contact \in 1 .. Len(contacts)
  BY <1>0, PCFacts DEF At, GoodMessage, NULL
<1>2. log \in Seq(Nat)
  <2>1. m.log \in Seq(Nat) /\ Block[m.event] \in Nat
    BY <1>0, <1>1, ConstantsOK DEF Message
  <2> HIDE DEF m
  <2>2. <<Block[m.event]>> \o m.log \in Seq(Nat)
    BY <2>1
  <2> QED
    BY <2>1, <2>2 DEF Prepended
<1>3. [contacts[m.contact] EXCEPT !.log = log] \in ContactRecord
  <2>1. contacts[m.contact] \in ContactRecord
    BY <1>0, <1>1
  <2> QED
    BY <1>2, <2>1 DEF ContactRecord
<1>4. contacts' = [contacts EXCEPT ![m.contact] = [contacts[m.contact] EXCEPT !.log = log]]
  BY DEF UpdateContact, MyRow
<1>5. contacts' \in Seq(ContactRecord) /\ Len(contacts') = Len(contacts)
  <2> DEFINE c == [contacts[m.contact] EXCEPT !.log = log]
  <2> HIDE DEF c, m
  <2> QED
    BY <1>0, <1>1, <1>3, <1>4
<1>6. AfterPatch(m) \in HasContact /\ <<>> \in Seq(Nat) /\ Len(contacts) <= Len(contacts')
      /\ Len(contacts') \in Nat
  BY <1>0, <1>5, NextPhases, PCFacts
<1>7. GoodMessage([m EXCEPT !.log = <<>>, !.pc = AfterPatch(m)], Len(contacts'))
  BY <1>0, <1>1, <1>5, <1>6, EditIsGood
<1>8. Answered(w, [m EXCEPT !.log = <<>>, !.pc = AfterPatch(m)])
  BY DEF UpdateContact
<1>9. WorkersGood' /\ faults' \in Nat
  BY <1>1, <1>6, <1>7, <1>8, AnsweredKept
<1> QED
  BY <1>5, <1>9

(* HubSpot may count one more note, task or in-ticket note for an event.   *)
LEMMA CountKept ==
  ASSUME HubspotGood, NEW e \in Events, NEW k \in [note : Nat, task : Nat, inTicket : Nat],
         made' = [made EXCEPT ![e] = k], UNCHANGED <<contacts, tickets>>
  PROVE  HubspotGood'
BY DEF HubspotGood

LEMMA CreateStep ==
  ASSUME TypeInv, NEW w \in Workers,
         CreateNote(w) \/ CreateTask(w) \/ CreateTicket(w) \/ TicketNote(w)
  PROVE  WorkersGood' /\ HubspotGood' /\ faults' \in Nat
<1> DEFINE m == worker[w]
<1>0. /\ GoodMessage(m, Len(contacts)) /\ Len(contacts) \in Nat /\ contacts \in Seq(ContactRecord)
      /\ m.event \in Events \cup {NULL} /\ HubspotGood /\ faults \in Nat
  BY HeldMessageIsGood DEF TypeInv, TypeOK, HubspotGood
<1>1. ~At(w, "poll") /\ m.event # NULL /\ m.event \in Events /\ m.contact # NULL
  BY <1>0, PCFacts DEF CreateNote, CreateTask, CreateTicket, TicketNote, At, GoodMessage
<1>2. contacts' = contacts /\ Len(contacts') \in Nat /\ Len(contacts) <= Len(contacts')
  BY <1>0 DEF CreateNote, CreateTask, CreateTicket, TicketNote
<1>3. ASSUME NEW r, GoodMessage(r, Len(contacts)), Answered(w, r)
      PROVE  WorkersGood' /\ faults' \in Nat
  BY <1>1, <1>2, <1>3, AnsweredKept
<1>4. LET k == made[m.event]
      IN  {[k EXCEPT !.note = @ + 1], [k EXCEPT !.task = @ + 1], [k EXCEPT !.inTicket = @ + 1]}
            \subseteq [note : Nat, task : Nat, inTicket : Nat]
  <2> DEFINE k == made[m.event]
  <2>1. k \in [note : Nat, task : Nat, inTicket : Nat]
    BY <1>0, <1>1 DEF HubspotGood
  <2> HIDE DEF k
  <2>2. [k EXCEPT !.note = @ + 1] \in [note : Nat, task : Nat, inTicket : Nat]
    BY <2>1
  <2>3. [k EXCEPT !.task = @ + 1] \in [note : Nat, task : Nat, inTicket : Nat]
    BY <2>1
  <2>4. [k EXCEPT !.inTicket = @ + 1] \in [note : Nat, task : Nat, inTicket : Nat]
    BY <2>1
  <2> QED
    BY <2>2, <2>3, <2>4 DEF k
<1>5. CASE CreateNote(w)
  <2>1. GoodMessage([m EXCEPT !.pc = "saveNote"], Len(contacts))
    BY <1>0, <1>1, EditIsGood, PCFacts
  <2>2. Answered(w, [m EXCEPT !.pc = "saveNote"])
    BY <1>5 DEF CreateNote
  <2>3. /\ made' = [made EXCEPT ![m.event] = [made[m.event] EXCEPT !.note = @ + 1]]
        /\ UNCHANGED <<contacts, tickets>>
    BY <1>5 DEF CreateNote, MyRow
  <2>4. HubspotGood'
    BY <1>0, <1>1, <1>4, <2>3, CountKept
  <2> QED
    BY <1>3, <2>1, <2>2, <2>4
<1>6. CASE CreateTask(w)
  <2>1. GoodMessage([m EXCEPT !.pc = "saveTask"], Len(contacts))
    BY <1>0, <1>1, EditIsGood, PCFacts
  <2>2. Answered(w, [m EXCEPT !.pc = "saveTask"])
    BY <1>6 DEF CreateTask
  <2>3. /\ made' = [made EXCEPT ![m.event] = [made[m.event] EXCEPT !.task = @ + 1]]
        /\ UNCHANGED <<contacts, tickets>>
    BY <1>6 DEF CreateTask, MyRow
  <2>4. HubspotGood'
    BY <1>0, <1>1, <1>4, <2>3, CountKept
  <2> QED
    BY <1>3, <2>1, <2>2, <2>4
<1>7. CASE CreateTicket(w)
  <2> DEFINE t == [event |-> m.event, open |-> TRUE]
  <2>1. t \in [event : Events, open : BOOLEAN]
    BY <1>1
  <2>2. tickets' = Append(tickets, t)
    BY <1>7 DEF CreateTicket, MyRow
  <2>3. tickets' \in Seq([event : Events, open : BOOLEAN]) /\ Len(tickets) + 1 \in Nat
    <3> HIDE DEF t
    <3> QED
      BY <1>0, <2>1, <2>2 DEF HubspotGood
  <2>4. HubspotGood'
    BY <1>0, <1>2, <1>7, <2>3 DEF CreateTicket, HubspotGood
  <2>5. GoodMessage([m EXCEPT !.ticket = Len(tickets) + 1, !.pc = "saveTicket"], Len(contacts))
    BY <1>0, <1>1, <2>3, EditIsGood, PCFacts
  <2>6. Answered(w, [m EXCEPT !.ticket = Len(tickets) + 1, !.pc = "saveTicket"])
    BY <1>7 DEF CreateTicket
  <2> QED
    BY <1>3, <2>4, <2>5, <2>6
<1>8. CASE TicketNote(w)
  <2>1. HubspotGood'
    <3>1. CASE made' = [made EXCEPT ![m.event] = [made[m.event] EXCEPT !.inTicket = @ + 1]]
      BY <1>0, <1>1, <1>2, <1>4, <1>8, <3>1, CountKept DEF TicketNote
    <3>2. CASE UNCHANGED made
      BY <1>0, <1>2, <1>8, <3>2 DEF TicketNote, HubspotGood
    <3> QED
      BY <1>8, <3>1, <3>2 DEF TicketNote, MyRow
  <2>2. PICK pc \in {"task", "ack"} : Goto(w, pc)
    BY <1>8, NextPhases DEF TicketNote
  <2>3. pc \in PC /\ pc # "poll" /\ pc \notin NeedsPhone
    BY <2>2, PCFacts
  <2>4. WorkersGood' /\ faults' = faults
    BY <1>1, <1>2, <1>8, <2>2, <2>3, GotoKept DEF TicketNote, bounds
  <2> QED
    BY <1>0, <2>1, <2>4
<1> QED
  BY <1>5, <1>6, <1>7, <1>8

-----------------------------------------------------------------------------
(* The steps of the queue itself.                                          *)
LEMMA ClaimStep ==
  ASSUME TypeInv, NEW w \in Workers, NEW e \in Events, Claim(w, e)
  PROVE  RowsGood' /\ WorkersGood'
<1> DEFINE r == [row[e] EXCEPT !.attempts = @ + 1, !.retry = "lease"]
<1>0. /\ row[e] \in Row /\ row[e].contact \in 0 .. Len(contacts) /\ Len(contacts) \in Nat
      /\ e # NULL
  BY ConstantsOK DEF TypeInv, TypeOK, IdsValid
<1>1. contacts' = contacts
  BY DEF Claim, hubspot
<1>2. r \in Row /\ r.contact \in 0 .. Len(contacts)
  <2>1. row[e].attempts + 1 \in Nat
    BY <1>0 DEF Row
  <2>2. r \in Row
    BY <1>0, <2>1 DEF Row
  <2>3. r.contact = row[e].contact
    BY <1>0 DEF Row
  <2> QED
    BY <1>0, <2>2, <2>3
<1>3. row' = [row EXCEPT ![e] = r]
  BY DEF Claim
<1>4. RowsGood'
  BY <1>1, <1>2, <1>3, RowsKept
<1>5. Snapshot(e) \in Message
  <2>1. /\ row[e].attempts + 1 \in Nat /\ row[e].contact \in Nat /\ row[e].note \in BOOLEAN
        /\ row[e].ticket \in Nat /\ row[e].task \in BOOLEAN
    BY <1>0 DEF Row
  <2>2. ASSUME NEW m \in Message, NEW pc \in PC, NEW a \in Nat, NEW c \in Nat,
               NEW n \in BOOLEAN, NEW t \in Nat, NEW k \in BOOLEAN
        PROVE  [m EXCEPT !.pc = pc, !.event = e, !.attempt = a, !.contact = c, !.note = n,
                         !.ticket = t, !.task = k] \in Message
    BY DEF Message
  <2>3. Idle \in Message /\ "begin" \in PC
    BY IdleIsGood, PCFacts DEF GoodMessage
  <2> QED
    BY <2>1, <2>2, <2>3, Zenon DEF Snapshot
<1>6. Snapshot(e).pc = "begin" /\ Snapshot(e).event = e /\ Snapshot(e).contact = row[e].contact
  BY DEF Snapshot, Idle
<1>7. GoodMessage(Snapshot(e), Len(contacts'))
  BY <1>0, <1>1, <1>5, <1>6, PCFacts DEF GoodMessage
<1>8. worker' = [worker EXCEPT ![w] = Snapshot(e)] /\ Len(contacts') \in Nat
      /\ Len(contacts) <= Len(contacts')
  BY <1>0, <1>1 DEF Claim
<1>9. WorkersGood'
  BY <1>7, <1>8, WorkersKept
<1> QED
  BY <1>4, <1>9

(* Ack, Nack and DeadLetter.                                               *)
LEMMA FinishStep ==
  ASSUME TypeInv, NEW w \in Workers, Ack(w) \/ Nack(w) \/ DeadLetter(w)
  PROVE  RowsGood' /\ WorkersGood'
<1>1. PICK pc \in Outcome, st \in {"delivered", "failed", "dead"}, until \in {"none", "backoff"} :
        Finish(w, pc, st, until)
  BY DEF Ack, Nack, DeadLetter, Outcome
<1> DEFINE e == worker[w].event
<1> DEFINE r == [row[e] EXCEPT !.status = st, !.retry = until]
<1>2. /\ contacts' = contacts /\ Len(contacts') \in Nat /\ Len(contacts) <= Len(contacts')
      /\ row' = [row EXCEPT ![e] = r]
      /\ worker' = [worker EXCEPT ![w] = Idle]
  <2>1. contacts' = contacts /\ worker' = [worker EXCEPT ![w] = Idle]
    BY <1>1 DEF Finish, hubspot
  <2>2. row' = [row EXCEPT ![e].status = st, ![e].retry = until]
    BY <1>1 DEF Finish, MyRow
  <2>3. row' = [row EXCEPT ![e] = r]
    BY <2>2
  <2>4. Len(contacts) \in Nat
    BY HeldMessageIsGood
  <2> QED
    BY <2>1, <2>3, <2>4
<1>3. e \in Events
  BY <1>1, HeldMessageIsGood DEF Finish, At, Outcome, GoodMessage
<1>4. row[e] \in Row /\ row[e].contact \in 0 .. Len(contacts)
  BY <1>3 DEF TypeInv, TypeOK, IdsValid
<1>5. r \in Row /\ r.contact \in 0 .. Len(contacts)
  BY <1>4 DEF Row
<1>6. RowsGood'
  BY <1>2, <1>3, <1>5, RowsKept
<1>7. WorkersGood'
  BY <1>2, IdleIsGood, WorkersKept
<1> QED
  BY <1>6, <1>7

LEMMA RetryStep ==
  ASSUME TypeInv, NEW e \in Events, Publish(e) \/ LeaseExpires(e) \/ BackoffElapses(e)
  PROVE  RowsGood'
<1>0. row[e] \in Row /\ row[e].contact \in 0 .. Len(contacts) /\ UNCHANGED contacts
  BY DEF TypeInv, TypeOK, IdsValid, Publish, LeaseExpires, BackoffElapses, hubspot
<1>1. CASE row' = [row EXCEPT ![e] = [row[e] EXCEPT !.status = "pending"]]
  <2>1. [row[e] EXCEPT !.status = "pending"] \in Row
    BY <1>0 DEF Row
  <2>2. [row[e] EXCEPT !.status = "pending"].contact \in 0 .. Len(contacts)
    BY <1>0 DEF Row
  <2> QED
    BY <1>0, <1>1, <2>1, <2>2, RowsKept
<1>2. CASE row' = [row EXCEPT ![e] = [row[e] EXCEPT !.retry = "none"]]
  <2>1. [row[e] EXCEPT !.retry = "none"] \in Row
    BY <1>0 DEF Row
  <2>2. [row[e] EXCEPT !.retry = "none"].contact \in 0 .. Len(contacts)
    BY <1>0 DEF Row
  <2> QED
    BY <1>0, <1>2, <2>1, <2>2, RowsKept
<1> QED
  BY <1>1, <1>2 DEF Publish, LeaseExpires, BackoffElapses

LEMMA ReplayStep ==
  ASSUME TypeInv, Replay
  PROVE  RowsGood' /\ replays' \in Nat
<1>0. row \in [Events -> Row] /\ (\A e \in Events : row[e].contact \in 0 .. Len(contacts))
      /\ replays \in Nat
  BY DEF TypeInv, TypeOK, IdsValid
<1>1. replays' \in Nat /\ contacts' = contacts
  <2>1. replays' = replays + 1 /\ UNCHANGED hubspot
    BY DEF Replay
  <2> QED
    BY <1>0, <2>1 DEF hubspot
<1>2. ASSUME NEW e \in Events
      PROVE  /\ [row[e] EXCEPT !.status = "pending", !.attempts = 0, !.retry = "none"] \in Row
             /\ [row[e] EXCEPT !.status = "pending", !.attempts = 0, !.retry = "none"].contact
                  = row[e].contact
  BY <1>0 DEF Row
<1>3. RowsGood'
  BY <1>0, <1>1, <1>2 DEF Replay, RowsGood
<1> QED
  BY <1>1, <1>3

LEMMA AbandonStep ==
  ASSUME TypeInv, NEW w \in Workers, Abandon(w)
  PROVE  WorkersGood' /\ faults' \in Nat
<1>1. /\ contacts' = contacts /\ Len(contacts') \in Nat /\ Len(contacts) <= Len(contacts')
      /\ worker' = [worker EXCEPT ![w] = Idle]
      /\ faults' \in Nat
  BY HeldMessageIsGood DEF Abandon, hubspot, TypeInv, TypeOK
<1> QED
  BY <1>1, IdleIsGood, WorkersKept

LEMMA ElementOfSeq ==
  ASSUME NEW S, NEW s \in Seq(S), NEW i \in DOMAIN s
  PROVE  s[i] \in S
OBVIOUS

LEMMA HubspotStep ==
  ASSUME TypeInv,
         \/ \E c \in DOMAIN contacts : IndexCatchesUp(c)
         \/ \E t \in DOMAIN tickets : TicketCloses(t)
  PROVE  HubspotGood' /\ Len(contacts') = Len(contacts)
<1>0. HubspotGood
  BY DEF TypeInv, TypeOK, HubspotGood
<1>1. ASSUME NEW c \in DOMAIN contacts, IndexCatchesUp(c)
      PROVE  HubspotGood' /\ Len(contacts') = Len(contacts)
  <2> DEFINE d == [contacts[c] EXCEPT !.indexed = TRUE]
  <2>1. d \in ContactRecord
    <3>1. contacts[c] \in ContactRecord
      BY <1>0 DEF HubspotGood
    <3> QED
      BY <3>1 DEF ContactRecord
  <2>2. contacts' = [contacts EXCEPT ![c] = d]
    BY <1>1 DEF IndexCatchesUp
  <2> HIDE DEF d
  <2>3. contacts' \in Seq(ContactRecord) /\ Len(contacts') = Len(contacts)
    BY <1>0, <2>1, <2>2 DEF HubspotGood
  <2> QED
    BY <1>0, <1>1, <2>3 DEF HubspotGood, IndexCatchesUp
<1>2. ASSUME NEW t \in DOMAIN tickets, TicketCloses(t)
      PROVE  HubspotGood' /\ Len(contacts') = Len(contacts)
  <2> DEFINE d == [tickets[t] EXCEPT !.open = FALSE]
  <2>1. d \in [event : Events, open : BOOLEAN]
    <3>1. tickets[t] \in [event : Events, open : BOOLEAN]
      BY <1>0, ElementOfSeq DEF HubspotGood
    <3> QED
      BY <3>1
  <2>2. tickets' = [tickets EXCEPT ![t] = d]
    BY <1>2 DEF TicketCloses
  <2> HIDE DEF d
  <2>3. tickets' \in Seq([event : Events, open : BOOLEAN])
    BY <1>0, <2>1, <2>2 DEF HubspotGood
  <2> QED
    BY <1>0, <1>2, <2>3 DEF HubspotGood, TicketCloses
<1> QED
  BY <1>1, <1>2

(* What a step leaves alone stays good as long as HubSpot loses no contact. *)
LEMMA FrameKept ==
  ASSUME TypeInv, Len(contacts') \in Nat, Len(contacts) <= Len(contacts')
  PROVE  /\ UNCHANGED row => RowsGood'
         /\ UNCHANGED worker => WorkersGood'
<1>1. RowsGood /\ WorkersGood /\ Len(contacts) \in Nat
  BY TypeInvParts DEF TypeInv, TypeOK
<1>2. ASSUME UNCHANGED row PROVE RowsGood'
  BY <1>1, <1>2 DEF RowsGood
<1>3. ASSUME UNCHANGED worker PROVE WorkersGood'
  BY <1>1, <1>3 DEF WorkersGood
<1> QED
  BY <1>2, <1>3

LEMMA HubspotFrameKept ==
  ASSUME TypeInv, UNCHANGED hubspot
  PROVE  HubspotGood' /\ Len(contacts') \in Nat /\ Len(contacts) <= Len(contacts')
BY DEF TypeInv, TypeOK, HubspotGood, hubspot

LEMMA TypeInvStep == TypeInv /\ [Next]_vars => TypeInv'
<1> SUFFICES ASSUME TypeInv, [Next]_vars PROVE TypeInv'
  OBVIOUS
<1> SUFFICES RowsGood' /\ WorkersGood' /\ HubspotGood' /\ OthersGood'
  BY TypeInvParts
<1>0. RowsGood /\ WorkersGood /\ HubspotGood /\ OthersGood /\ Len(contacts) \in Nat
  BY TypeInvParts DEF HubspotGood
<1>1. ASSUME NEW e \in Events, Publish(e) \/ LeaseExpires(e) \/ BackoffElapses(e)
      PROVE  RowsGood' /\ WorkersGood' /\ HubspotGood' /\ OthersGood'
  <2>1. UNCHANGED <<gate, worker, hubspot, bounds>>
    BY <1>1 DEF Publish, LeaseExpires, BackoffElapses
  <2>2. OthersGood'
    BY <1>0, <2>1 DEF OthersGood, bounds
  <2> QED
    BY <1>1, <2>1, <2>2, RetryStep, FrameKept, HubspotFrameKept
<1>2. ASSUME NEW e \in Events, GateOpens(e)
      PROVE  RowsGood' /\ WorkersGood' /\ HubspotGood' /\ OthersGood'
  <2>1. UNCHANGED <<row, worker, hubspot, bounds>> /\ gate' \subseteq Events
    BY <1>0, <1>2 DEF GateOpens, OthersGood
  <2>2. OthersGood'
    BY <1>0, <2>1 DEF OthersGood, bounds
  <2> QED
    BY <2>1, <2>2, FrameKept, HubspotFrameKept
<1>3. ASSUME NEW w \in Workers, ClaimNext(w)
      PROVE  RowsGood' /\ WorkersGood' /\ HubspotGood' /\ OthersGood'
  <2>1. PICK e \in Events : Claim(w, e)
    BY <1>3 DEF ClaimNext
  <2>2. UNCHANGED <<gate, hubspot, bounds>>
    BY <2>1 DEF Claim
  <2>3. OthersGood'
    BY <1>0, <2>2 DEF OthersGood, bounds
  <2> QED
    BY <2>1, <2>2, <2>3, ClaimStep, HubspotFrameKept
<1>4. ASSUME NEW w \in Workers,
             \/ Begin(w) \/ SearchContact(w) \/ LookupContact(w) \/ GetContactLog(w)
             \/ PriorTicket(w) \/ GetTicket(w) \/ TransientError(w) \/ PermanentError(w)
      PROVE  RowsGood' /\ WorkersGood' /\ HubspotGood' /\ OthersGood'
  <2>1. UNCHANGED <<row, gate, hubspot, bounds>>
    BY <1>4 DEF Begin, SearchContact, LookupContact, GetContactLog, PriorTicket, GetTicket,
           TransientError, PermanentError
  <2>2. OthersGood'
    BY <1>0, <2>1 DEF OthersGood, bounds
  <2> QED
    BY <1>4, <2>1, <2>2, LocalSteps, FrameKept, HubspotFrameKept
<1>5. ASSUME NEW w \in Workers, SaveContact(w) \/ SaveNote(w) \/ SaveTicket(w) \/ SaveTask(w)
      PROVE  RowsGood' /\ WorkersGood' /\ HubspotGood' /\ OthersGood'
  <2>1. UNCHANGED <<gate, hubspot, bounds>>
    BY <1>5 DEF SaveContact, SaveNote, SaveTicket, SaveTask
  <2>2. OthersGood'
    BY <1>0, <2>1 DEF OthersGood, bounds
  <2> QED
    BY <1>5, <2>1, <2>2, SaveSteps, HubspotFrameKept
<1>6. ASSUME NEW w \in Workers, CreateContact(w) \/ UpdateContact(w)
      PROVE  RowsGood' /\ WorkersGood' /\ HubspotGood' /\ OthersGood'
  <2>1. /\ WorkersGood' /\ faults' \in Nat /\ contacts' \in Seq(ContactRecord)
        /\ Len(contacts') \in Nat /\ Len(contacts) <= Len(contacts')
    BY <1>0, <1>6, CreateContactStep, UpdateContactStep
  <2>2. UNCHANGED <<row, gate, tickets, made, replays>>
    BY <1>6 DEF CreateContact, UpdateContact
  <2>3. HubspotGood' /\ OthersGood'
    BY <1>0, <2>1, <2>2 DEF HubspotGood, OthersGood
  <2> QED
    BY <2>1, <2>2, <2>3, FrameKept
<1>7. ASSUME NEW w \in Workers,
             CreateNote(w) \/ CreateTask(w) \/ CreateTicket(w) \/ TicketNote(w)
      PROVE  RowsGood' /\ WorkersGood' /\ HubspotGood' /\ OthersGood'
  <2>1. UNCHANGED <<row, gate, contacts, replays>>
    BY <1>7 DEF CreateNote, CreateTask, CreateTicket, TicketNote, bounds
  <2>2. WorkersGood' /\ HubspotGood' /\ faults' \in Nat
    BY <1>7, CreateStep
  <2>3. OthersGood'
    BY <1>0, <2>1, <2>2 DEF OthersGood
  <2> QED
    BY <1>0, <2>1, <2>2, <2>3, FrameKept
<1>8. ASSUME NEW w \in Workers, Ack(w) \/ Nack(w) \/ DeadLetter(w)
      PROVE  RowsGood' /\ WorkersGood' /\ HubspotGood' /\ OthersGood'
  <2>1. UNCHANGED <<gate, hubspot, bounds>>
    BY <1>8 DEF Ack, Nack, DeadLetter, Finish
  <2>2. OthersGood'
    BY <1>0, <2>1 DEF OthersGood, bounds
  <2> QED
    BY <1>8, <2>1, <2>2, FinishStep, HubspotFrameKept
<1>9. ASSUME NEW w \in Workers, Abandon(w)
      PROVE  RowsGood' /\ WorkersGood' /\ HubspotGood' /\ OthersGood'
  <2>1. UNCHANGED <<row, gate, hubspot, replays>>
    BY <1>9 DEF Abandon
  <2>2. WorkersGood' /\ faults' \in Nat
    BY <1>9, AbandonStep
  <2>3. OthersGood'
    BY <1>0, <2>1, <2>2 DEF OthersGood
  <2> QED
    BY <2>1, <2>2, <2>3, FrameKept, HubspotFrameKept
<1>10. ASSUME \/ \E c \in DOMAIN contacts : IndexCatchesUp(c)
              \/ \E t \in DOMAIN tickets : TicketCloses(t)
       PROVE  RowsGood' /\ WorkersGood' /\ HubspotGood' /\ OthersGood'
  <2>1. UNCHANGED <<row, gate, worker, bounds>>
    BY <1>10 DEF IndexCatchesUp, TicketCloses
  <2>2. HubspotGood' /\ Len(contacts') \in Nat /\ Len(contacts) <= Len(contacts')
    BY <1>0, <1>10, HubspotStep
  <2>3. OthersGood'
    BY <1>0, <2>1 DEF OthersGood, bounds
  <2> QED
    BY <2>1, <2>2, <2>3, FrameKept
<1>11. ASSUME Replay
       PROVE  RowsGood' /\ WorkersGood' /\ HubspotGood' /\ OthersGood'
  <2>1. UNCHANGED <<gate, worker, hubspot, faults>>
    BY <1>11 DEF Replay
  <2>2. RowsGood' /\ replays' \in Nat
    BY <1>11, ReplayStep
  <2>3. OthersGood'
    BY <1>0, <2>1, <2>2 DEF OthersGood
  <2> QED
    BY <2>1, <2>2, <2>3, FrameKept, HubspotFrameKept
<1>12. CASE UNCHANGED vars
  <2>1. UNCHANGED <<row, gate, worker, hubspot, bounds>>
    BY <1>12 DEF vars
  <2>2. OthersGood'
    BY <1>0, <2>1 DEF OthersGood, bounds
  <2> QED
    BY <2>1, <2>2, FrameKept, HubspotFrameKept
<1> QED
  BY <1>1, <1>2, <1>3, <1>4, <1>5, <1>6, <1>7, <1>8, <1>9, <1>10, <1>11, <1>12 DEF Next, Step

(* TypeOK: every variable stays in its domain, and a process holds an event *)
(* exactly when it is not polling.                                         *)
THEOREM TypeCorrect == Spec => []TypeOK
<1>1. Init => TypeInv
  BY InitTypeInv
<1>2. TypeInv /\ [Next]_vars => TypeInv'
  BY TypeInvStep
<1>3. TypeInv => TypeOK
  BY DEF TypeInv
<1> QED
  BY <1>1, <1>2, <1>3, PTL DEF Spec

-----------------------------------------------------------------------------
(* A step that hands no event over and moves no row in the queue.          *)
SameHolders == \A w \in Workers : worker'[w].event = worker[w].event
SameQueue   == \A e \in Events : /\ row'[e].status = row[e].status
                                 /\ row'[e].retry = row[e].retry

(* What a process does with a message in hand, short of letting it go.     *)
Working(w) ==
  \/ Begin(w) \/ LookupContact(w) \/ SearchContact(w) \/ CreateContact(w) \/ SaveContact(w)
  \/ GetContactLog(w) \/ UpdateContact(w) \/ CreateNote(w) \/ SaveNote(w)
  \/ PriorTicket(w) \/ GetTicket(w) \/ CreateTicket(w) \/ SaveTicket(w) \/ TicketNote(w)
  \/ CreateTask(w) \/ SaveTask(w) \/ TransientError(w) \/ PermanentError(w)

LEMMA WorkKeepsHolders ==
  ASSUME TypeInv, NEW w \in Workers, Working(w)
  PROVE  SameHolders
<1>0. worker \in [Workers -> Message]
  BY DEF TypeInv, TypeOK
<1>1. ASSUME NEW m, m.event = worker[w].event, worker' = [worker EXCEPT ![w] = m]
      PROVE  SameHolders
  BY <1>0, <1>1 DEF SameHolders
<1>2. ASSUME NEW pc, Goto(w, pc)
      PROVE  SameHolders
  BY <1>0, <1>2 DEF SameHolders, Goto, Message
<1>3. ASSUME NEW m, m.event = worker[w].event, Answered(w, m)
      PROVE  SameHolders
  BY <1>1, <1>2, <1>3 DEF Answered
<1>4. CASE Begin(w) \/ SaveContact(w) \/ SaveNote(w) \/ SaveTicket(w) \/ TicketNote(w)
           \/ SaveTask(w) \/ TransientError(w) \/ PermanentError(w)
  <2>1. PICK pc : Goto(w, pc)
    BY <1>4 DEF Begin, SaveContact, SaveNote, SaveTicket, TicketNote, SaveTask,
           TransientError, PermanentError
  <2> QED
    BY <1>2, <2>1
<1>5. CASE CreateContact(w)
  <2>1. Answered(w, [worker[w] EXCEPT !.contact = Len(contacts) + 1, !.pc = "saveMade"])
    BY <1>5 DEF CreateContact
  <2>2. [worker[w] EXCEPT !.contact = Len(contacts) + 1, !.pc = "saveMade"].event
          = worker[w].event
    BY <1>0 DEF Message
  <2> QED
    BY <1>3, <2>1, <2>2
<1>6. CASE UpdateContact(w)
  <2>1. Answered(w, [worker[w] EXCEPT !.log = <<>>, !.pc = AfterPatch(worker[w])])
    BY <1>6 DEF UpdateContact
  <2>2. [worker[w] EXCEPT !.log = <<>>, !.pc = AfterPatch(worker[w])].event = worker[w].event
    BY <1>0 DEF Message
  <2> QED
    BY <1>3, <2>1, <2>2
<1>7. CASE CreateNote(w) \/ CreateTask(w)
  <2>1. PICK pc \in {"saveNote", "saveTask"} : Answered(w, [worker[w] EXCEPT !.pc = pc])
    BY <1>7 DEF CreateNote, CreateTask
  <2>2. [worker[w] EXCEPT !.pc = pc].event = worker[w].event
    BY <1>0 DEF Message
  <2> QED
    BY <1>3, <2>1, <2>2
<1>8. CASE CreateTicket(w)
  <2>1. Answered(w, [worker[w] EXCEPT !.ticket = Len(tickets) + 1, !.pc = "saveTicket"])
    BY <1>8 DEF CreateTicket
  <2>2. [worker[w] EXCEPT !.ticket = Len(tickets) + 1, !.pc = "saveTicket"].event
          = worker[w].event
    BY <1>0 DEF Message
  <2> QED
    BY <1>3, <2>1, <2>2
<1>9. CASE LookupContact(w)
  <2>1. CASE Goto(w, "search")
    BY <1>2, <2>1
  <2>2. CASE \E c : worker' = [worker EXCEPT ![w].contact = c, ![w].pc = "saveFound"]
    BY <1>0, <2>2 DEF SameHolders, Message
  <2> QED
    BY <1>9, <2>1, <2>2 DEF LookupContact
<1>10. CASE SearchContact(w)
  <2>1. CASE Goto(w, "create")
    BY <1>2, <2>1
  <2>2. CASE \E c : worker' = [worker EXCEPT ![w].contact = c, ![w].pc = "saveMade"]
    BY <1>0, <2>2 DEF SameHolders, Message
  <2> QED
    BY <1>10, <2>1, <2>2 DEF SearchContact
<1>11. CASE GetContactLog(w)
  BY <1>0, <1>11 DEF GetContactLog, SameHolders, Message
<1>12. CASE PriorTicket(w)
  <2>1. CASE Goto(w, "createTicket")
    BY <1>2, <2>1
  <2>2. CASE \E t : worker' = [worker EXCEPT ![w].ticket = t, ![w].pc = "getTicket"]
    BY <1>0, <2>2 DEF SameHolders, Message
  <2> QED
    BY <1>12, <2>1, <2>2 DEF PriorTicket
<1>13. CASE GetTicket(w)
  <2>1. CASE Goto(w, "createTicket")
    BY <1>2, <2>1
  <2>2. CASE worker' = [worker EXCEPT ![w].reused = TRUE, ![w].pc = "saveTicket"]
    BY <1>0, <2>2 DEF SameHolders, Message
  <2> QED
    BY <1>13, <2>1, <2>2 DEF GetTicket
<1> QED
  BY <1>4, <1>5, <1>6, <1>7, <1>8, <1>9, <1>10, <1>11, <1>12, <1>13 DEF Working

(* Work touches only the worker's own row, and not its place in the queue. *)
LEMMA WorkKeepsQueue ==
  ASSUME TypeInv, NEW w \in Workers, Working(w)
  PROVE  /\ SameQueue
         /\ \A e \in Events : row'[e] # row[e] => Holds(w, e)
<1>0. row \in [Events -> Row]
  BY DEF TypeInv, TypeOK
<1>1. CASE UNCHANGED row
  BY <1>1 DEF SameQueue
<1>2. CASE SaveContact(w)
  BY <1>0, <1>2 DEF SaveContact, SameQueue, Holds, MyRow, Row
<1>3. CASE SaveNote(w)
  BY <1>0, <1>3 DEF SaveNote, SameQueue, Holds, MyRow, Row
<1>4. CASE SaveTicket(w)
  BY <1>0, <1>4 DEF SaveTicket, SameQueue, Holds, MyRow, Row
<1>5. CASE SaveTask(w)
  BY <1>0, <1>5 DEF SaveTask, SameQueue, Holds, MyRow, Row
<1> QED
  BY <1>1, <1>2, <1>3, <1>4, <1>5 DEF Working, Begin, LookupContact, SearchContact,
     CreateContact, GetContactLog, UpdateContact, CreateNote, PriorTicket, GetTicket,
     CreateTicket, TicketNote, CreateTask, TransientError, PermanentError

LEMMA WorkIsLocal ==
  ASSUME TypeInv, NEW w \in Workers, Working(w)
  PROVE  \A v \in Workers \ {w} : worker'[v] = worker[v]
<1>0. worker \in [Workers -> Message]
  BY DEF TypeInv, TypeOK
<1>1. PICK m : worker' = [worker EXCEPT ![w] = m]
  BY DEF Working, Goto, Answered, Begin, LookupContact, SearchContact, CreateContact,
     SaveContact, GetContactLog, UpdateContact, CreateNote, SaveNote, PriorTicket, GetTicket,
     CreateTicket, SaveTicket, TicketNote, CreateTask, SaveTask, TransientError, PermanentError
<1> QED
  BY <1>0, <1>1
=============================================================================
