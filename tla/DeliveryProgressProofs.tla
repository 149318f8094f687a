------------------------ MODULE DeliveryProgressProofs ------------------------
(***************************************************************************)
(* What the saved ids buy, with or without a lease that outlives the work: *)
(* whatever a phase produced is on the row before the next phase starts,   *)
(* so only complete events are acked, however often processes die, lose    *)
(* answers, or work on one row together.                                   *)
(***************************************************************************)
EXTENDS DeliveryProofs

(* PhasesSaved of a message m and its row r.  The last part is the         *)
(* strengthening: it carries a contact found on the row at the claim to    *)
(* the first phase, which then skips the search.                           *)
MessageSaved(m, r) ==
  /\ m.note => r.note
  /\ m.task => r.task
  /\ m.pc \in BeforeTicket /\ m.ticket # NULL => r.ticket # NULL
  /\ m.pc \in HasContact => m.contact # NULL
  /\ m.pc \in PastPatch \cup LogPhase => r.contact # NULL
  /\ m.pc \in PastNote /\ m.event \in Noted => r.note
  /\ m.pc \in {"getTicket", "saveTicket"} => m.ticket # NULL
  /\ m.pc \in PastTicket /\ m.event \in Ticketed => r.ticket # NULL
  /\ m.pc = "ack" /\ m.event \in Tasked => r.task
  /\ m.pc = "begin" /\ m.contact # NULL => r.contact # NULL

ProgressInv ==
  /\ \A w \in Workers : ~At(w, "poll") => MessageSaved(worker[w], row[MyRow(w)])
  /\ DeliveredMeansComplete

(* Rows only gain ids.                                                     *)
Gains(r, s) ==
  /\ r.contact # NULL => s.contact # NULL
  /\ r.note => s.note
  /\ r.ticket # NULL => s.ticket # NULL
  /\ r.task => s.task

LEMMA PhaseSets ==
  /\ PastTicket = {"ticketNote", "ack", "task", "saveTask"}
  /\ PastNote = PastTicket \cup {"priorTicket", "getTicket", "createTicket", "saveTicket"}
  /\ PastPatch = PastNote \cup {"note", "saveNote"}
  /\ LogPhase = {"getLog", "patch"}
  /\ BeforeTicket = {"begin", "lookup", "saveFound", "search", "create", "saveMade", "getLog",
                     "patch", "note", "saveNote"}
  /\ HasContact = PastPatch \cup LogPhase \cup {"saveFound", "saveMade"}
BY DEF PastTicket, PastNote, PastPatch, LogPhase, BeforeTicket, HasContact, ContactPhase,
       NotePhase, TicketPhase, TaskPhase

LEMMA SavedGains ==
  ASSUME NEW m, NEW r, NEW s, MessageSaved(m, r), Gains(r, s)
  PROVE  MessageSaved(m, s)
BY DEF MessageSaved, Gains

(* A message that is about to be nacked or dead-lettered claims less.      *)
LEMMA SavedAfterError ==
  ASSUME NEW m \in Message, NEW r, MessageSaved(m, r), NEW pc \in {"nack", "dead"}
  PROVE  MessageSaved([m EXCEPT !.pc = pc], r)
<1>1. /\ [m EXCEPT !.pc = pc].pc = pc
      /\ [m EXCEPT !.pc = pc].note = m.note
      /\ [m EXCEPT !.pc = pc].task = m.task
  BY DEF Message
<1>2. pc \notin BeforeTicket \cup HasContact \cup {"begin", "ack"}
  BY PhaseSets
<1>3. pc \notin PastPatch \cup LogPhase \cup PastNote \cup PastTicket \cup {"getTicket", "saveTicket"}
  BY PhaseSets
<1> QED
  BY <1>1, <1>2, <1>3 DEF MessageSaved

(* The phase that follows a saved note, a ticket, or the log.              *)
LEMMA SavedAtTask ==
  ASSUME NEW m \in Message, NEW r, MessageSaved(m, r), m.contact # NULL,
         r.contact # NULL, m.event \in Noted => r.note, m.event \in Ticketed => r.ticket # NULL
  PROVE  MessageSaved([m EXCEPT !.pc = AfterTicket(m)], r)
<1> DEFINE n == [m EXCEPT !.pc = AfterTicket(m)]
<1>1. n.pc = AfterTicket(m) /\ n.note = m.note /\ n.task = m.task /\ n.contact = m.contact
      /\ n.event = m.event
  BY DEF Message
<1>2. n.pc \in {"task", "ack"} /\ (n.pc = "ack" /\ n.event \in Tasked => m.task)
  BY <1>1 DEF AfterTicket
<1>3. n.pc \notin BeforeTicket \cup {"getTicket", "saveTicket", "begin"}
  BY <1>2, PhaseSets
<1> HIDE DEF n
<1>4. n.pc = "ack" /\ n.event \in Tasked => r.task
  BY <1>2 DEF MessageSaved
<1>5. (n.note => r.note) /\ (n.task => r.task)
  BY <1>1 DEF MessageSaved
<1>6. MessageSaved(n, r)
  BY <1>1, <1>3, <1>4, <1>5 DEF MessageSaved
<1> QED
  BY <1>6 DEF n

LEMMA SavedAtTicket ==
  ASSUME NEW m \in Message, NEW r, MessageSaved(m, r), m.contact # NULL, m.pc \in BeforeTicket,
         r.contact # NULL, m.event \in Noted => r.note
  PROVE  MessageSaved([m EXCEPT !.pc = AfterNote(m)], r)
<1>1. CASE AfterNote(m) = "priorTicket"
  <2> DEFINE n == [m EXCEPT !.pc = "priorTicket"]
  <2>1. n.pc = "priorTicket" /\ n.note = m.note /\ n.task = m.task /\ n.contact = m.contact
        /\ n.event = m.event
    BY DEF Message
  <2>2. n.pc \notin BeforeTicket \cup PastTicket \cup {"getTicket", "saveTicket", "begin", "ack"}
    BY <2>1, PhaseSets
  <2> HIDE DEF n
  <2>3. MessageSaved(n, r)
    BY <2>1, <2>2 DEF MessageSaved
  <2> QED
    BY <1>1, <2>3 DEF n
<1>2. CASE ~(m.event \in Ticketed /\ m.ticket = NULL)
  <2>1. AfterNote(m) = AfterTicket(m)
    BY <1>2 DEF AfterNote
  <2>2. m.event \in Ticketed => r.ticket # NULL
    BY <1>2 DEF MessageSaved
  <2> QED
    BY <2>1, <2>2, SavedAtTask
<1> QED
  BY <1>1, <1>2 DEF AfterNote

LEMMA SavedAtNote ==
  ASSUME NEW m \in Message, NEW r, MessageSaved(m, r), m.contact # NULL, m.pc \in BeforeTicket,
         r.contact # NULL
  PROVE  MessageSaved([m EXCEPT !.pc = AfterPatch(m)], r)
<1>1. CASE AfterPatch(m) = "note"
  <2> DEFINE n == [m EXCEPT !.pc = "note"]
  <2>1. n.pc = "note" /\ n.note = m.note /\ n.task = m.task /\ n.contact = m.contact
        /\ n.event = m.event /\ n.ticket = m.ticket
    BY DEF Message
  <2>2. n.pc \notin PastNote \cup PastTicket \cup {"getTicket", "saveTicket", "begin", "ack"}
    BY <2>1, PhaseSets
  <2> HIDE DEF n
  <2>3. MessageSaved(n, r)
    BY <2>1, <2>2 DEF MessageSaved
  <2> QED
    BY <1>1, <2>3 DEF n
<1>2. CASE ~(m.event \in Noted /\ ~m.note)
  <2>1. AfterPatch(m) = AfterNote(m)
    BY <1>2 DEF AfterPatch
  <2>2. m.event \in Noted => r.note
    BY <1>2 DEF MessageSaved
  <2> QED
    BY <2>1, <2>2, SavedAtTicket
<1> QED
  BY <1>1, <1>2 DEF AfterPatch

-----------------------------------------------------------------------------
(* Work never takes an id off a row.                                       *)
LEMMA WorkGains ==
  ASSUME TypeInv, ProgressInv, NEW w \in Workers, Working(w)
  PROVE  \A e \in Events : Gains(row[e], row'[e]) /\ row'[e].status = row[e].status
<1>0. /\ row \in [Events -> Row] /\ worker[w].event \in Events \cup {NULL}
      /\ worker[w].pc \in HasContact => worker[w].contact # NULL
  BY HeldMessageIsGood DEF TypeInv, TypeOK, GoodMessage
<1>1. CASE UNCHANGED row
  BY <1>1 DEF Gains
<1>2. CASE SaveContact(w)
  BY <1>0, <1>2, PCFacts DEF SaveContact, Gains, MyRow, Row
<1>3. CASE SaveNote(w)
  BY <1>0, <1>3 DEF SaveNote, Gains, MyRow, Row
<1>4. CASE SaveTicket(w)
  <2>1. worker[w].ticket # NULL
    BY <1>4 DEF SaveTicket, At, ProgressInv, MessageSaved
  <2> QED
    BY <1>0, <1>4, <2>1 DEF SaveTicket, Gains, MyRow, Row
<1>5. CASE SaveTask(w)
  BY <1>0, <1>5 DEF SaveTask, Gains, MyRow, Row
<1> QED
  BY <1>1, <1>2, <1>3, <1>4, <1>5 DEF Working, Begin, LookupContact, SearchContact,
     CreateContact, GetContactLog, UpdateContact, CreateNote, PriorTicket, GetTicket,
     CreateTicket, TicketNote, CreateTask, TransientError, PermanentError

(* Every phase leaves its process with nothing unsaved.                    *)
LEMMA WorkSaves ==
  ASSUME TypeInv, ProgressInv, NEW w \in Workers, Working(w)
  PROVE  MessageSaved(worker'[w], row'[MyRow(w)])
<1> DEFINE m == worker[w]
<1> DEFINE r == row[MyRow(w)]
<1>0. /\ row \in [Events -> Row] /\ worker \in [Workers -> Message] /\ m \in Message
      /\ GoodMessage(m, Len(contacts)) /\ m.event \in Events \cup {NULL}
      /\ contacts \in Seq(ContactRecord)
  BY HeldMessageIsGood DEF TypeInv, TypeOK, GoodMessage
<1>1. ~At(w, "poll") /\ m.event \in Events
  BY <1>0 DEF Working, Begin, LookupContact, SearchContact, CreateContact, SaveContact,
     GetContactLog, UpdateContact, CreateNote, SaveNote, PriorTicket, GetTicket, CreateTicket,
     SaveTicket, TicketNote, CreateTask, SaveTask, TransientError, PermanentError, Calls, At,
     GoodMessage
<1>2. MessageSaved(m, r) /\ r \in Row /\ Gains(r, row'[MyRow(w)])
  BY <1>0, <1>1, WorkGains DEF ProgressInv, MyRow
<1>3. MessageSaved(m, row'[MyRow(w)])
  BY <1>2, SavedGains
<1>4. ASSUME NEW pc \in {"nack", "dead"}, Goto(w, pc) PROVE MessageSaved(worker'[w], row'[MyRow(w)])
  BY <1>0, <1>3, <1>4, SavedAfterError DEF Goto
<1>5. ASSUME NEW n, Answered(w, n), MessageSaved(n, row'[MyRow(w)])
      PROVE  MessageSaved(worker'[w], row'[MyRow(w)])
  BY <1>0, <1>4, <1>5 DEF Answered
<1>6. UNCHANGED row => row'[MyRow(w)] = r
  OBVIOUS
<1>7. ASSUME NEW n, worker' = [worker EXCEPT ![w] = n]
      PROVE  worker'[w] = n
  BY <1>0, <1>7
<1>8. CASE TransientError(w) \/ PermanentError(w)
  BY <1>4, <1>8 DEF TransientError, PermanentError
<1>9. ASSUME NEW pc \in NeedsPhone, m.pc \in BeforeTicket, Goto(w, pc), UNCHANGED row
      PROVE  MessageSaved(worker'[w], row'[MyRow(w)])
  <2> DEFINE n == [m EXCEPT !.pc = pc]
  <2>1. n.pc = pc /\ n.note = m.note /\ n.task = m.task /\ n.ticket = m.ticket
    BY <1>0 DEF Message
  <2>2. n.pc \notin HasContact \cup PastTicket \cup PastNote \cup PastPatch \cup LogPhase
                     \cup {"getTicket", "saveTicket", "begin", "ack"}
    BY <2>1, PhaseSets, PCFacts
  <2>3. worker'[w] = n
    BY <1>0, <1>9 DEF Goto
  <2> HIDE DEF n
  <2>4. MessageSaved(n, r)
    BY <1>2, <1>9, <2>1, <2>2 DEF MessageSaved
  <2> QED
    BY <1>6, <1>9, <2>3, <2>4
<1>10. ASSUME NEW pc \in {"saveFound", "saveMade"}, NEW c, c # NULL, m.pc \in BeforeTicket
       PROVE  MessageSaved([m EXCEPT !.contact = c, !.pc = pc], r)
  <2> DEFINE n == [m EXCEPT !.contact = c, !.pc = pc]
  <2>1. n.pc = pc /\ n.note = m.note /\ n.task = m.task /\ n.ticket = m.ticket /\ n.contact = c
    BY <1>0 DEF Message
  <2>2. n.pc \notin PastTicket \cup PastNote \cup PastPatch \cup LogPhase
                     \cup {"getTicket", "saveTicket", "begin", "ack"}
    BY <2>1, PhaseSets
  <2> HIDE DEF n
  <2>3. MessageSaved(n, r)
    BY <1>2, <1>10, <2>1, <2>2 DEF MessageSaved
  <2> QED
    BY <2>3 DEF n
<1>11. ASSUME NEW n, n.pc \in LogPhase, n.note = m.note, n.task = m.task, n.ticket = m.ticket,
              n.contact = m.contact, m.contact # NULL, m.pc \in BeforeTicket,
              row'[MyRow(w)].contact # NULL
       PROVE  MessageSaved(n, row'[MyRow(w)])
  <2>1. n.pc \notin PastTicket \cup PastNote \cup PastPatch
                     \cup {"getTicket", "saveTicket", "begin", "ack"}
    BY <1>11, PhaseSets
  <2> QED
    BY <1>3, <1>11, <2>1 DEF MessageSaved
<1>12. CASE Begin(w)
  <2>1. m.pc = "begin" /\ m.pc \in BeforeTicket /\ UNCHANGED row
    BY <1>12, PhaseSets DEF Begin, At
  <2>2. CASE Goto(w, "dead") \/ Goto(w, "nack") \/ Goto(w, "lookup")
    BY <1>4, <1>9, <2>1, <2>2, PCFacts
  <2>3. CASE Goto(w, "getLog") /\ m.contact # NULL
    <3> DEFINE n == [m EXCEPT !.pc = "getLog"]
    <3>1. n.pc = "getLog" /\ n.note = m.note /\ n.task = m.task /\ n.ticket = m.ticket
          /\ n.contact = m.contact
      BY <1>0 DEF Message
    <3>2. n.pc \in LogPhase /\ row'[MyRow(w)].contact # NULL
      BY <1>2, <2>1, <2>3, <3>1, PhaseSets DEF MessageSaved
    <3>3. worker'[w] = n
      BY <1>0, <2>3 DEF Goto
    <3> HIDE DEF n
    <3> QED
      BY <1>11, <2>1, <2>3, <3>1, <3>2, <3>3
  <2> QED
    BY <1>12, <2>2, <2>3, NextPhases DEF Begin
<1>13. CASE LookupContact(w)
  <2>1. m.pc \in BeforeTicket /\ UNCHANGED row
    BY <1>13, PhaseSets DEF LookupContact, At
  <2>2. CASE Goto(w, "search")
    BY <1>9, <2>1, <2>2, PCFacts
  <2>3. ASSUME NEW f \in Events, row[f].contact # NULL,
               worker' = [worker EXCEPT ![w].contact = row[f].contact, ![w].pc = "saveFound"]
        PROVE  MessageSaved(worker'[w], row'[MyRow(w)])
    <3>1. worker'[w] = [m EXCEPT !.contact = row[f].contact, !.pc = "saveFound"]
      BY <1>0, <2>3
    <3> QED
      BY <1>6, <1>10, <2>1, <2>3, <3>1
  <2> QED
    BY <1>13, <2>2, <2>3 DEF LookupContact
<1>14. CASE SearchContact(w)
  <2>1. m.pc \in BeforeTicket /\ UNCHANGED row
    BY <1>14, PhaseSets DEF SearchContact, At
  <2>2. CASE Goto(w, "create")
    BY <1>9, <2>1, <2>2, PCFacts
  <2>3. ASSUME NEW c \in DOMAIN contacts,
               worker' = [worker EXCEPT ![w].contact = c, ![w].pc = "saveMade"]
        PROVE  MessageSaved(worker'[w], row'[MyRow(w)])
    <3>1. worker'[w] = [m EXCEPT !.contact = c, !.pc = "saveMade"] /\ c # NULL
      BY <1>0, <2>3 DEF NULL
    <3> QED
      BY <1>6, <1>10, <2>1, <3>1
  <2> QED
    BY <1>14, <2>2, <2>3 DEF SearchContact
<1>15. CASE CreateContact(w)
  <2>1. m.pc \in BeforeTicket /\ UNCHANGED row
    BY <1>15, PhaseSets DEF CreateContact, At
  <2>2. Len(contacts) + 1 # NULL
    BY <1>0 DEF NULL
  <2>3. Answered(w, [m EXCEPT !.contact = Len(contacts) + 1, !.pc = "saveMade"])
    BY <1>15 DEF CreateContact
  <2> QED
    BY <1>5, <1>6, <1>10, <2>1, <2>2, <2>3
<1>16. CASE SaveContact(w)
  <2>1. m.pc \in {"saveFound", "saveMade"} /\ m.pc \in BeforeTicket /\ m.contact # NULL
    BY <1>0, <1>16, PhaseSets, PCFacts DEF SaveContact, GoodMessage
  <2>2. row'[MyRow(w)].contact # NULL
    BY <1>0, <1>1, <1>2, <1>16, <2>1 DEF SaveContact, MyRow, Row
  <2>3. PICK pc \in {"getLog", "patch"} : Goto(w, pc)
    BY <1>16 DEF SaveContact
  <2> DEFINE n == [m EXCEPT !.pc = pc]
  <2>4. n.pc = pc /\ n.note = m.note /\ n.task = m.task /\ n.ticket = m.ticket
        /\ n.contact = m.contact
    BY <1>0 DEF Message
  <2>5. n.pc \in LogPhase /\ worker'[w] = n
    BY <1>0, <2>3, <2>4, PhaseSets DEF Goto
  <2> HIDE DEF n
  <2> QED
    BY <1>11, <2>1, <2>2, <2>4, <2>5
<1>17. CASE GetContactLog(w)
  <2> DEFINE n == [m EXCEPT !.log = contacts[m.contact].log, !.pc = "patch"]
  <2>1. m.pc = "getLog" /\ m.pc \in BeforeTicket \cap LogPhase /\ m.pc \in HasContact
        /\ UNCHANGED row
    BY <1>17, PhaseSets DEF GetContactLog, At
  <2>2. m.contact # NULL /\ row'[MyRow(w)].contact # NULL
    BY <1>3, <2>1 DEF MessageSaved
  <2>3. n.pc = "patch" /\ n.note = m.note /\ n.task = m.task /\ n.ticket = m.ticket
        /\ n.contact = m.contact
    BY <1>0 DEF Message
  <2>4. n.pc \in LogPhase /\ worker'[w] = n
    BY <1>0, <1>17, <2>3, PhaseSets DEF GetContactLog
  <2> HIDE DEF n
  <2> QED
    BY <1>11, <2>1, <2>2, <2>3, <2>4
<1>18. CASE UpdateContact(w)
  <2> DEFINE n == [m EXCEPT !.log = <<>>, !.pc = AfterPatch(m)]
  <2> DEFINE k == [m EXCEPT !.pc = AfterPatch(m)]
  <2>1. m.pc \in BeforeTicket \cap LogPhase /\ m.pc \in HasContact /\ UNCHANGED row
    BY <1>18, PhaseSets DEF UpdateContact, At
  <2>2. m.contact # NULL /\ r.contact # NULL
    BY <1>2, <2>1 DEF MessageSaved
  <2>3. MessageSaved(k, r)
    BY <1>0, <1>2, <2>1, <2>2, SavedAtNote
  <2>4. n.pc = k.pc /\ n.note = k.note /\ n.task = k.task /\ n.ticket = k.ticket
        /\ n.contact = k.contact /\ n.event = k.event
    BY <1>0 DEF Message
  <2>5. Answered(w, n)
    BY <1>18 DEF UpdateContact
  <2> HIDE DEF n, k
  <2>6. MessageSaved(n, r)
    BY <2>3, <2>4 DEF MessageSaved
  <2> QED
    BY <1>5, <1>6, <2>1, <2>5, <2>6
<1>19. CASE CreateNote(w) \/ CreateTask(w)
  <2>1. PICK pc \in {"saveNote", "saveTask"} :
          /\ Answered(w, [m EXCEPT !.pc = pc])
          /\ pc = "saveNote" => m.pc = "note"
          /\ pc = "saveTask" => m.pc = "task"
    BY <1>19 DEF CreateNote, CreateTask, At
  <2> DEFINE n == [m EXCEPT !.pc = pc]
  <2>2. n.pc = pc /\ n.note = m.note /\ n.task = m.task /\ n.ticket = m.ticket
        /\ n.contact = m.contact /\ n.event = m.event
    BY <1>0 DEF Message
  <2>3. UNCHANGED row
    BY <1>19 DEF CreateNote, CreateTask
  <2>4. Answered(w, n)
    BY <2>1
  <2> HIDE DEF n
  <2>5. MessageSaved(n, r)
    BY <1>2, <2>1, <2>2, PhaseSets DEF MessageSaved
  <2> QED
    BY <1>5, <1>6, <2>3, <2>4, <2>5
<1>20. CASE SaveNote(w)
  <2>1. m.pc = "saveNote" /\ m.pc \in BeforeTicket /\ m.pc \in PastPatch /\ m.pc \in HasContact
    BY <1>20, PhaseSets DEF SaveNote, At
  <2>2. m.contact # NULL /\ row'[MyRow(w)].contact # NULL
    BY <1>3, <2>1 DEF MessageSaved
  <2>3. row'[MyRow(w)].note
    BY <1>0, <1>1, <1>2, <1>20 DEF SaveNote, MyRow, Row
  <2>4. worker'[w] = [m EXCEPT !.pc = AfterNote(m)]
    BY <1>0, <1>20 DEF SaveNote, Goto
  <2> QED
    BY <1>0, <1>3, <2>1, <2>2, <2>3, <2>4, SavedAtTicket
<1>21. ASSUME m.pc \in PastNote \ PastTicket, NEW n, n.pc \in PastNote \ PastTicket,
              n.note = m.note, n.task = m.task, n.event = m.event, n.contact = m.contact,
              n.pc = "createTicket" \/ n.ticket # NULL
       PROVE  MessageSaved(n, r)
  <2>1. n.pc \notin BeforeTicket \cup {"begin", "ack"}
    BY <1>21, PhaseSets
  <2>2. m.contact # NULL /\ r.contact # NULL /\ (m.event \in Noted => r.note)
    BY <1>2, <1>21, PhaseSets DEF MessageSaved
  <2> QED
    BY <1>2, <1>21, <2>1, <2>2 DEF MessageSaved
<1>22. ASSUME m.pc \in PastNote \ PastTicket, Goto(w, "createTicket"), UNCHANGED row
       PROVE  MessageSaved(worker'[w], row'[MyRow(w)])
  <2> DEFINE n == [m EXCEPT !.pc = "createTicket"]
  <2>1. n.pc = "createTicket" /\ n.note = m.note /\ n.task = m.task /\ n.event = m.event
        /\ n.contact = m.contact
    BY <1>0 DEF Message
  <2>2. worker'[w] = n /\ n.pc \in PastNote \ PastTicket
    BY <1>0, <1>22, <2>1, PhaseSets DEF Goto
  <2> HIDE DEF n
  <2> QED
    BY <1>6, <1>21, <1>22, <2>1, <2>2
<1>23. CASE PriorTicket(w)
  <2>1. m.pc \in PastNote \ PastTicket /\ UNCHANGED row
    BY <1>23, PhaseSets DEF PriorTicket, At
  <2>2. CASE Goto(w, "createTicket")
    BY <1>22, <2>1, <2>2
  <2>3. ASSUME NEW f \in Events, row[f].ticket # NULL,
               worker' = [worker EXCEPT ![w].ticket = row[f].ticket, ![w].pc = "getTicket"]
        PROVE  MessageSaved(worker'[w], row'[MyRow(w)])
    <3> DEFINE n == [m EXCEPT !.ticket = row[f].ticket, !.pc = "getTicket"]
    <3>1. n.pc = "getTicket" /\ n.note = m.note /\ n.task = m.task /\ n.event = m.event
          /\ n.contact = m.contact /\ n.ticket = row[f].ticket
      BY <1>0 DEF Message
    <3>2. worker'[w] = n /\ n.pc \in PastNote \ PastTicket
      BY <1>0, <2>3, <3>1, PhaseSets
    <3> HIDE DEF n
    <3> QED
      BY <1>6, <1>21, <2>1, <2>3, <3>1, <3>2
  <2> QED
    BY <1>23, <2>2, <2>3 DEF PriorTicket
<1>24. CASE GetTicket(w)
  <2>1. m.pc \in PastNote \ PastTicket /\ m.pc = "getTicket" /\ UNCHANGED row
    BY <1>24, PhaseSets DEF GetTicket, At
  <2>2. CASE Goto(w, "createTicket")
    BY <1>22, <2>1, <2>2
  <2>3. CASE worker' = [worker EXCEPT ![w].reused = TRUE, ![w].pc = "saveTicket"]
    <3> DEFINE n == [m EXCEPT !.reused = TRUE, !.pc = "saveTicket"]
    <3>1. n.pc = "saveTicket" /\ n.note = m.note /\ n.task = m.task /\ n.event = m.event
          /\ n.contact = m.contact /\ n.ticket = m.ticket
      BY <1>0 DEF Message
    <3>2. worker'[w] = n /\ n.pc \in PastNote \ PastTicket /\ m.ticket # NULL
      BY <1>0, <1>2, <2>1, <2>3, <3>1, PhaseSets DEF MessageSaved
    <3> HIDE DEF n
    <3> QED
      BY <1>6, <1>21, <2>1, <3>1, <3>2
  <2> QED
    BY <1>24, <2>2, <2>3 DEF GetTicket
<1>25. CASE CreateTicket(w)
  <2>1. m.pc \in PastNote \ PastTicket /\ UNCHANGED row
    BY <1>25, PhaseSets DEF CreateTicket, At
  <2> DEFINE n == [m EXCEPT !.ticket = Len(tickets) + 1, !.pc = "saveTicket"]
  <2>2. n.pc = "saveTicket" /\ n.note = m.note /\ n.task = m.task /\ n.event = m.event
        /\ n.contact = m.contact /\ n.ticket = Len(tickets) + 1
    BY <1>0 DEF Message
  <2>3. n.pc \in PastNote \ PastTicket /\ Answered(w, n)
    BY <1>25, <2>2, PhaseSets DEF CreateTicket
  <2>4. n.ticket # NULL
    BY <2>2 DEF TypeInv, TypeOK, NULL
  <2> HIDE DEF n
  <2> QED
    BY <1>5, <1>6, <1>21, <2>1, <2>2, <2>3, <2>4
<1>26. CASE SaveTicket(w)
  <2> DEFINE s == row'[MyRow(w)]
  <2>1. m.pc = "saveTicket" /\ m.pc \in PastNote /\ m.pc \in PastPatch /\ m.pc \in HasContact
    BY <1>26, PhaseSets DEF SaveTicket, At
  <2>2. m.contact # NULL /\ s.contact # NULL /\ (m.event \in Noted => s.note)
        /\ m.ticket # NULL
    BY <1>3, <2>1 DEF MessageSaved
  <2>3. s.ticket # NULL
    BY <1>0, <1>1, <1>2, <1>26, <2>2 DEF SaveTicket, MyRow, Row
  <2>4. CASE Goto(w, AfterTicket(m))
    <3>1. worker'[w] = [m EXCEPT !.pc = AfterTicket(m)]
      BY <1>0, <2>4 DEF Goto
    <3> QED
      BY <1>0, <1>3, <2>2, <2>3, <3>1, SavedAtTask
  <2>5. CASE Goto(w, "ticketNote")
    <3> DEFINE n == [m EXCEPT !.pc = "ticketNote"]
    <3>1. n.pc = "ticketNote" /\ n.note = m.note /\ n.task = m.task /\ n.event = m.event
          /\ n.contact = m.contact
      BY <1>0 DEF Message
    <3>2. worker'[w] = n
      BY <1>0, <2>5 DEF Goto
    <3> HIDE DEF n
    <3>3. n.pc \notin BeforeTicket \cup {"getTicket", "saveTicket", "begin", "ack"}
      BY <3>1, PhaseSets
    <3> QED
      BY <1>3, <2>2, <2>3, <3>1, <3>2, <3>3 DEF MessageSaved
  <2> QED
    BY <1>26, <2>4, <2>5 DEF SaveTicket
<1>27. CASE TicketNote(w)
  <2>1. m.pc \in PastTicket /\ m.pc \in PastNote /\ m.pc \in PastPatch /\ m.pc \in HasContact
    BY <1>27, PhaseSets DEF TicketNote, At
  <2>2. m.contact # NULL /\ row'[MyRow(w)].contact # NULL
        /\ (m.event \in Noted => row'[MyRow(w)].note)
        /\ (m.event \in Ticketed => row'[MyRow(w)].ticket # NULL)
    BY <1>3, <2>1 DEF MessageSaved
  <2>3. worker'[w] = [m EXCEPT !.pc = AfterTicket(m)]
    BY <1>0, <1>27 DEF TicketNote, Goto
  <2> QED
    BY <1>0, <1>3, <2>2, <2>3, SavedAtTask
<1>28. CASE SaveTask(w)
  <2> DEFINE n == [m EXCEPT !.pc = "ack"]
  <2>1. m.pc = "saveTask"
    BY <1>28 DEF SaveTask, At
  <2>2. row'[MyRow(w)].task
    BY <1>0, <1>1, <1>2, <1>28 DEF SaveTask, MyRow, Row
  <2>3. n.pc = "ack" /\ n.note = m.note /\ n.task = m.task /\ n.event = m.event
        /\ n.contact = m.contact
    BY <1>0 DEF Message
  <2>4. worker'[w] = n
    BY <1>0, <1>28 DEF SaveTask, Goto
  <2> HIDE DEF n
  <2> QED
    BY <1>3, <2>1, <2>2, <2>3, <2>4, PhaseSets DEF MessageSaved
<1> QED
  BY <1>8, <1>12, <1>13, <1>14, <1>15, <1>16, <1>17, <1>18, <1>19, <1>20, <1>23, <1>24, <1>25,
     <1>26, <1>27, <1>28 DEF Working

LEMMA InitProgressInv == Init => ProgressInv
BY DEF Init, Idle, NewRow, ProgressInv, At, DeliveredMeansComplete

(* If rows only gain ids, what was complete or saved stays so.             *)
LEMMA CompleteGains ==
  ASSUME NEW e \in Events, Complete(e), Gains(row[e], row'[e])
  PROVE  Complete(e)'
BY DEF Complete, Gains

LEMMA ProgressKept ==
  ASSUME TypeInv, ProgressInv, NEW w \in Workers,
         \A e \in Events : Gains(row[e], row'[e]),
         ~At(w, "poll"), worker'[w] = worker[w]
  PROVE  MessageSaved(worker'[w], row'[worker'[w].event])
<1>1. MyRow(w) \in Events
  BY HeldMessageIsGood DEF GoodMessage, At, MyRow
<1>2. MessageSaved(worker[w], row[MyRow(w)])
  BY DEF ProgressInv
<1> QED
  BY <1>1, <1>2, SavedGains DEF MyRow

(* A step that starts no work: each process goes on as it was or is idle.  *)
LEMMA IdleStepKeeps ==
  ASSUME TypeInv, ProgressInv,
         \A e \in Events : /\ Gains(row[e], row'[e])
                           /\ row'[e].status = "delivered" =>
                                row[e].status = "delivered" \/ Complete(e),
         \A w \in Workers : worker'[w] = worker[w] \/ worker'[w] = Idle
  PROVE  ProgressInv'
<1>1. ASSUME NEW w \in Workers, worker'[w].pc # "poll"
      PROVE  MessageSaved(worker'[w], row'[worker'[w].event])
  BY <1>1, ProgressKept DEF Idle, At
<1>2. ASSUME NEW e \in Events, row'[e].status = "delivered"
      PROVE  Complete(e)'
  BY <1>2, CompleteGains DEF ProgressInv, DeliveredMeansComplete
<1> QED
  BY <1>1, <1>2 DEF ProgressInv, DeliveredMeansComplete, At, MyRow

LEMMA ProgressInvStep == TypeInv /\ ProgressInv /\ [Next]_vars => ProgressInv'
<1> SUFFICES ASSUME TypeInv, ProgressInv, [Next]_vars PROVE ProgressInv'
  OBVIOUS
<1>0. row \in [Events -> Row] /\ worker \in [Workers -> Message] /\ NULL \notin Events
  BY ConstantsOK DEF TypeInv, TypeOK
<1>1. ASSUME NEW w \in Workers, Working(w) PROVE ProgressInv'
  <2>1. \A e \in Events : Gains(row[e], row'[e]) /\ row'[e].status = row[e].status
    BY <1>1, WorkGains
  <2>2. \A v \in Workers \ {w} : worker'[v] = worker[v]
    BY <1>1, WorkIsLocal
  <2>3. worker'[w].event = MyRow(w)
    BY <1>1, WorkKeepsHolders DEF SameHolders, MyRow
  <2>4. MessageSaved(worker'[w], row'[worker'[w].event])
    BY <1>1, <2>3, WorkSaves
  <2>5. ASSUME NEW v \in Workers, worker'[v].pc # "poll"
        PROVE  MessageSaved(worker'[v], row'[worker'[v].event])
    <3>1. CASE v = w
      BY <2>4, <3>1
    <3>2. CASE v # w
      BY <2>1, <2>2, <2>5, <3>2, ProgressKept DEF At
    <3> QED
      BY <3>1, <3>2
  <2>6. ASSUME NEW e \in Events, row'[e].status = "delivered"
        PROVE  Complete(e)'
    BY <2>1, <2>6, CompleteGains DEF ProgressInv, DeliveredMeansComplete
  <2> QED
    BY <2>5, <2>6 DEF ProgressInv, DeliveredMeansComplete, At, MyRow
<1>2. ASSUME NEW e \in Events, Publish(e) \/ LeaseExpires(e) \/ BackoffElapses(e)
      PROVE  ProgressInv'
  <2>1. UNCHANGED worker
    BY <1>2 DEF Publish, LeaseExpires, BackoffElapses
  <2>2. \A f \in Events : /\ Gains(row[f], row'[f])
                          /\ row'[f].status = "delivered" => row[f].status = "delivered"
    BY <1>0, <1>2 DEF Publish, LeaseExpires, BackoffElapses, Gains, Row
  <2> QED
    BY <2>1, <2>2, IdleStepKeeps
<1>3. ASSUME NEW w \in Workers, NEW e \in Events, Claim(w, e) PROVE ProgressInv'
  <2>1. /\ worker'[w] = Snapshot(e)
        /\ \A v \in Workers \ {w} : worker'[v] = worker[v]
    BY <1>0, <1>3 DEF Claim
  <2>2. \A f \in Events : Gains(row[f], row'[f]) /\ row'[f].status = row[f].status
    BY <1>0, <1>3 DEF Claim, Gains, Row
  <2>3. MessageSaved(Snapshot(e), row[e])
    <3> DEFINE m == Snapshot(e)
    <3>1. m.pc = "begin" /\ m.note = row[e].note /\ m.task = row[e].task
          /\ m.ticket = row[e].ticket /\ m.contact = row[e].contact
      BY DEF Snapshot, Idle
    <3> HIDE DEF m
    <3>2. m.pc \notin HasContact \cup PastPatch \cup LogPhase \cup PastNote \cup PastTicket
                       \cup {"getTicket", "saveTicket", "ack"}
      BY <3>1, PhaseSets
    <3>3. MessageSaved(m, row[e])
      BY <3>1, <3>2 DEF MessageSaved
    <3> QED
      BY <3>3 DEF m
  <2>4. MessageSaved(worker'[w], row'[worker'[w].event])
    BY <2>1, <2>2, <2>3, SavedGains DEF Snapshot, Idle
  <2>5. ASSUME NEW v \in Workers, worker'[v].pc # "poll"
        PROVE  MessageSaved(worker'[v], row'[worker'[v].event])
    <3>1. CASE v = w
      BY <2>4, <3>1
    <3>2. CASE v # w
      BY <2>1, <2>2, <2>5, <3>2, ProgressKept DEF At
    <3> QED
      BY <3>1, <3>2
  <2>6. ASSUME NEW f \in Events, row'[f].status = "delivered"
        PROVE  Complete(f)'
    BY <2>2, <2>6, CompleteGains DEF ProgressInv, DeliveredMeansComplete
  <2> QED
    BY <2>5, <2>6 DEF ProgressInv, DeliveredMeansComplete, At, MyRow
<1>4. ASSUME NEW w \in Workers, Ack(w) \/ Nack(w) \/ DeadLetter(w) PROVE ProgressInv'
  <2>1. \A v \in Workers : worker'[v] = worker[v] \/ worker'[v] = Idle
    BY <1>0, <1>4 DEF Ack, Nack, DeadLetter, Finish
  <2>2. \A e \in Events : Gains(row[e], row'[e])
    BY <1>0, <1>4 DEF Ack, Nack, DeadLetter, Finish, Gains, Row
  <2>3. ASSUME NEW e \in Events, row'[e].status = "delivered"
        PROVE  row[e].status = "delivered" \/ Complete(e)
    <3>1. CASE MyRow(w) = e /\ Ack(w)
      <4>1. MessageSaved(worker[w], row[e]) /\ worker[w].pc = "ack" /\ worker[w].event = e
        BY <3>1 DEF Ack, Finish, At, ProgressInv, MyRow
      <4> QED
        BY <4>1, PhaseSets DEF MessageSaved, Complete
    <3>2. CASE ~(MyRow(w) = e /\ Ack(w))
      BY <1>0, <1>4, <2>3, <3>2 DEF Ack, Nack, DeadLetter, Finish, Row
    <3> QED
      BY <3>1, <3>2
  <2> QED
    BY <2>1, <2>2, <2>3, IdleStepKeeps
<1>5. ASSUME NEW w \in Workers, Abandon(w) PROVE ProgressInv'
  <2>1. UNCHANGED row /\ \A v \in Workers : worker'[v] = worker[v] \/ worker'[v] = Idle
    BY <1>0, <1>5 DEF Abandon
  <2> QED
    BY <2>1, IdleStepKeeps DEF Gains
<1>6. CASE Replay
  <2>1. UNCHANGED worker
    BY <1>6 DEF Replay
  <2>2. \A e \in Events : /\ Gains(row[e], row'[e])
                          /\ row'[e].status = "delivered" => row[e].status = "delivered"
    BY <1>0, <1>6 DEF Replay, Gains, Row
  <2> QED
    BY <2>1, <2>2, IdleStepKeeps
<1>7. CASE UNCHANGED <<row, worker>>
  BY <1>7, IdleStepKeeps DEF Gains
<1>8. ASSUME \/ \E e \in Events : GateOpens(e)
             \/ \E c \in DOMAIN contacts : IndexCatchesUp(c)
             \/ \E t \in DOMAIN tickets : TicketCloses(t)
             \/ UNCHANGED vars
      PROVE  UNCHANGED <<row, worker>>
  BY <1>8 DEF GateOpens, IndexCatchesUp, TicketCloses, vars
<1> QED
  BY <1>1, <1>2, <1>3, <1>4, <1>5, <1>6, <1>7, <1>8 DEF Next, Step, ClaimNext, Working

(* ProgressIsSaved: no retry can lose track of what an earlier attempt, or *)
(* an earlier phase of this one, left in HubSpot and was told of.          *)
THEOREM ProgressNeverLost == Spec => []ProgressIsSaved
<1>1. Init => TypeInv /\ ProgressInv
  BY InitTypeInv, InitProgressInv
<1>2. TypeInv /\ ProgressInv /\ [Next]_vars => TypeInv' /\ ProgressInv'
  BY TypeInvStep, ProgressInvStep
<1>3. TypeInv /\ ProgressInv => ProgressIsSaved
  BY DEF ProgressInv, MessageSaved, ProgressIsSaved, PhasesSaved, MyRow
<1> QED
  BY <1>1, <1>2, <1>3, PTL DEF Spec

(* DeliveredMeansComplete: an acked event has its contact, note, ticket    *)
(* and task, even when two processes worked on it at once.                 *)
THEOREM DeliveredIsComplete == Spec => []DeliveredMeansComplete
<1>1. Init => TypeInv /\ ProgressInv
  BY InitTypeInv, InitProgressInv
<1>2. TypeInv /\ ProgressInv /\ [Next]_vars => TypeInv' /\ ProgressInv'
  BY TypeInvStep, ProgressInvStep
<1>3. ProgressInv => DeliveredMeansComplete
  BY DEF ProgressInv
<1> QED
  BY <1>1, <1>2, <1>3, PTL DEF Spec
=============================================================================
