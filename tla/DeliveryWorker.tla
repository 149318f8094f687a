---------------------------- MODULE DeliveryWorker ----------------------------
(***************************************************************************)
(* The delivery side of the system: worker processes that claim enriched   *)
(* events from the Postgres broker (comm_layer/broker/postgres.py) and     *)
(* drive each one through the phases of process_message                    *)
(* (delivery_worker/main.py) against HubSpot, plus the dead-letter replay. *)
(*                                                                         *)
(* One step is one await of the code: a statement on comm_events or one    *)
(* HTTP call.  The columns of comm_events that delivery reads or writes    *)
(* are row; HubSpot is contacts, tickets and made; worker holds the local  *)
(* variables of each process between two awaits.  delivery_log is a        *)
(* write-only journal and is left out.                                     *)
(***************************************************************************)
EXTENDS Naturals, Sequences, FiniteSets

CONSTANTS
  Events,            \* ids of comm_events rows, numbered in created_at order
  Workers,           \* delivery worker processes
  Phones,            \* normalised caller numbers
  NoPhone,           \* stands for a NULL from_number
  PhoneOf,           \* the from_number of each event
  Block,             \* format_event_block of each event: equal events get equal text
  Noted,             \* events that get a timeline note (HUBSPOT_NOTES_ENABLED)
  Ticketed,          \* events for which should_create_ticket holds
  Tasked,            \* events for which should_create_task holds
  KnownContacts,     \* contacts HubSpot holds before any event is delivered
  MaxAttempts,       \* DELIVERY_MAX_ATTEMPTS
  LeaseOutlivesWork, \* whether process_message always ends within DELIVERY_LEASE_SECONDS
  MaxFaults,         \* bound on crashes and on lost HubSpot responses
  MaxReplays         \* bound on runs of replay_dlq

NULL == 0

ContactRecord == [phone : Phones, log : Seq(Nat), indexed : BOOLEAN]

ASSUME ConstantsOK ==
  /\ Events \subseteq Nat \ {NULL}
  /\ NoPhone \notin Phones
  /\ PhoneOf \in [Events -> Phones \cup {NoPhone}]
  /\ Block \in [Events -> Nat]
  /\ Noted \subseteq Events /\ Ticketed \subseteq Events /\ Tasked \subseteq Events
  /\ KnownContacts \in Seq(ContactRecord)
  /\ MaxAttempts \in Nat /\ MaxFaults \in Nat /\ MaxReplays \in Nat
  /\ LeaseOutlivesWork \in BOOLEAN

VARIABLES
  row,      \* comm_events: delivery_status, next_retry_at, attempt_count, hubspot_*_id
  gate,     \* events whose enrichment (and WhatsApp reply) reached a final status
  worker,   \* the message each process works on and its local variables
  contacts, \* HubSpot contacts, in creation order; a contact's id is its position
  tickets,  \* HubSpot tickets, likewise
  made,     \* how many notes, tasks and in-ticket notes HubSpot holds for each event
  faults, replays

hubspot == <<contacts, tickets, made>>
bounds  == <<faults, replays>>
vars    == <<row, gate, worker, hubspot, bounds>>

(***************************************************************************)
(* Program counters: one per await of claim_next and process_message.      *)
(***************************************************************************)
ContactPhase == {"lookup", "saveFound", "search", "create", "saveMade"}
LogPhase     == {"getLog", "patch"}
NotePhase    == {"note", "saveNote"}
TicketPhase  == {"priorTicket", "getTicket", "createTicket", "saveTicket"}
TaskPhase    == {"task", "saveTask"}
Outcome      == {"ack", "nack", "dead"}

PC == {"poll", "begin", "ticketNote"} \cup ContactPhase \cup LogPhase \cup NotePhase
        \cup TicketPhase \cup TaskPhase \cup Outcome

Row == [status   : {"received", "pending", "failed", "delivered", "dead"},
        retry    : {"none", "lease", "backoff"},
        attempts : Nat,
        contact  : Nat,
        note     : BOOLEAN,
        ticket   : Nat,
        task     : BOOLEAN]

Message == [pc      : PC,
            event   : Events \cup {NULL},
            attempt : Nat,
            contact : Nat,
            note    : BOOLEAN,
            ticket  : Nat,
            task    : BOOLEAN,
            reused  : BOOLEAN,
            log     : Seq(Nat)]

Idle == [pc |-> "poll", event |-> NULL, attempt |-> 0, contact |-> NULL, note |-> FALSE,
         ticket |-> NULL, task |-> FALSE, reused |-> FALSE, log |-> <<>>]

NewRow == [status |-> "received", retry |-> "none", attempts |-> 0, contact |-> NULL,
           note |-> FALSE, ticket |-> NULL, task |-> FALSE]

Init ==
  /\ row = [e \in Events |-> NewRow]
  /\ gate = {}
  /\ worker = [w \in Workers |-> Idle]
  /\ contacts = KnownContacts
  /\ tickets = <<>>
  /\ made = [e \in Events |-> [note |-> 0, task |-> 0, inTicket |-> 0]]
  /\ faults = 0
  /\ replays = 0

At(w, pc)   == worker[w].pc = pc
Goto(w, pc) == worker' = [worker EXCEPT ![w].pc = pc]
Holds(w, e) == worker[w].event = e
MyRow(w)    == worker[w].event

(***************************************************************************)
(* What feeds the queue.  Publish is the webhook's second statement (the   *)
(* first one inserted the row as 'received'); GateOpens stands for the     *)
(* intelligence layer giving the event's enrichment, and for a WhatsApp    *)
(* message its reply, a final status.  The gate is taken to stay open: the *)
(* claims of the intelligence layer pass final rows over.                  *)
(***************************************************************************)
Publish(e) ==
  /\ row[e].status = "received"
  /\ row' = [row EXCEPT ![e].status = "pending"]
  /\ UNCHANGED <<gate, worker, hubspot, bounds>>

GateOpens(e) ==
  /\ e \notin gate
  /\ gate' = gate \cup {e}
  /\ UNCHANGED <<row, worker, hubspot, bounds>>

(***************************************************************************)
(* claim_next: one transaction.  Between the commit and the outcome only   *)
(* next_retry_at keeps other processes away from the row.                  *)
(***************************************************************************)
Claimable_NoLease(e) ==   \* a mutant: the claim forgets next_retry_at
  row[e].status \in {"pending", "failed"} /\ e \in gate

Claimable_AnyStatus(e) == \* a mutant: the claim forgets delivery_status
  row[e].status # "received" /\ row[e].retry = "none" /\ e \in gate

Claimable_PendingOnly(e) == \* a mutant: a failed row is never claimed again
  row[e].status = "pending" /\ row[e].retry = "none" /\ e \in gate

Claimable(e) ==
  /\ row[e].status \in {"pending", "failed"}
  /\ row[e].retry = "none"
  /\ e \in gate

Snapshot_NoNote(e) ==     \* a mutant: hubspot_note_id is missing from the SELECT
  [Idle EXCEPT !.pc = "begin", !.event = e, !.attempt = row[e].attempts + 1,
               !.contact = row[e].contact, !.ticket = row[e].ticket, !.task = row[e].task]

Snapshot(e) ==
  [Idle EXCEPT !.pc = "begin", !.event = e, !.attempt = row[e].attempts + 1,
               !.contact = row[e].contact, !.note = row[e].note,
               !.ticket = row[e].ticket, !.task = row[e].task]

Claim(w, e) ==
  /\ At(w, "poll")
  /\ Claimable(e)
  /\ \A f \in Events : Claimable(f) => e <= f
  /\ row' = [row EXCEPT ![e].attempts = @ + 1, ![e].retry = "lease"]
  /\ worker' = [worker EXCEPT ![w] = Snapshot(e)]
  /\ UNCHANGED <<gate, hubspot, bounds>>

(***************************************************************************)
(* next_retry_at passes.  A row whose lease has run out looks exactly like *)
(* one whose backoff has.                                                  *)
(***************************************************************************)
LeaseExpires(e) ==
  /\ row[e].retry = "lease"
  /\ LeaseOutlivesWork => \A w \in Workers : ~Holds(w, e)
  /\ row' = [row EXCEPT ![e].retry = "none"]
  /\ UNCHANGED <<gate, worker, hubspot, bounds>>

BackoffElapses(e) ==
  /\ row[e].retry = "backoff"
  /\ row' = [row EXCEPT ![e].retry = "none"]
  /\ UNCHANGED <<gate, worker, hubspot, bounds>>

(***************************************************************************)
(* The phases of process_message.                                          *)
(***************************************************************************)
AfterTicket(m) == IF m.event \in Tasked /\ ~m.task THEN "task" ELSE "ack"
AfterNote(m)   == IF m.event \in Ticketed /\ m.ticket = NULL THEN "priorTicket" ELSE AfterTicket(m)
AfterPatch_NoteIsLast(m) ==  \* a mutant: a message with no note to write is done
  IF m.event \in Noted /\ ~m.note THEN "note" ELSE "ack"

AfterPatch(m)  == IF m.event \in Noted /\ ~m.note THEN "note" ELSE AfterNote(m)

FirstPhase_AnyCaller(m) ==   \* a mutant: a NULL from_number is not noticed
  IF m.contact # NULL THEN "getLog" ELSE "lookup"

FirstPhase_SkipLog(m) ==     \* a mutant: a known contact is taken to be logged already
  IF m.contact # NULL THEN AfterPatch(m)
  ELSE IF PhoneOf[m.event] = NoPhone THEN "dead" ELSE "lookup"

FirstPhase(m) ==
  IF m.contact # NULL THEN "getLog"
  ELSE IF PhoneOf[m.event] = NoPhone THEN "dead" ELSE "lookup"

Begin_OneMore(w) ==          \* a mutant: one attempt beyond the budget
  /\ At(w, "begin")
  /\ \/ worker[w].attempt > MaxAttempts + 1 /\ Goto(w, "dead")
     \/ worker[w].attempt <= MaxAttempts + 1 /\ Goto(w, "nack")
     \/ worker[w].attempt <= MaxAttempts + 1 /\ Goto(w, FirstPhase(worker[w]))
  /\ UNCHANGED <<row, gate, hubspot, bounds>>

Begin(w) ==
  /\ At(w, "begin")
  /\ \/ worker[w].attempt > MaxAttempts /\ Goto(w, "dead")
     \/ worker[w].attempt <= MaxAttempts /\ Goto(w, "nack")   \* no rate-limit token
     \/ worker[w].attempt <= MaxAttempts /\ Goto(w, FirstPhase(worker[w]))
  /\ UNCHANGED <<row, gate, hubspot, bounds>>

(* A HubSpot call that answers 408, 425, 429 or 5xx, or that never reaches *)
(* HubSpot, did nothing there and is retried later.                        *)
Calls == {"search", "create", "getLog", "patch", "note", "getTicket", "createTicket", "task"}

TransientError(w) ==
  /\ worker[w].pc \in Calls
  /\ Goto(w, "nack")
  /\ UNCHANGED <<row, gate, hubspot, bounds>>

(* Any other 4xx answer is final. *)
PermanentError(w) ==
  /\ worker[w].pc \in Calls
  /\ Goto(w, "dead")
  /\ UNCHANGED <<row, gate, hubspot, bounds>>

(* HubSpot carried the call out: the worker reads the answer and goes on   *)
(* as m, or the connection breaks first and the worker sees a network      *)
(* error that it cannot tell from a call that never arrived.               *)
Answered(w, m) ==
  \/ worker' = [worker EXCEPT ![w] = m] /\ UNCHANGED faults
  \/ faults < MaxFaults /\ faults' = faults + 1 /\ Goto(w, "nack")

LookupContact_None(w) ==     \* a mutant: the caller's other rows are not asked
  At(w, "lookup") /\ Goto(w, "search") /\ UNCHANGED <<row, gate, hubspot, bounds>>

LookupContact(w) ==
  /\ At(w, "lookup")
  /\ LET mine  == PhoneOf[MyRow(w)]
         known == {f \in Events : PhoneOf[f] = mine /\ row[f].contact # NULL}
     IN \/ /\ known = {}
           /\ Goto(w, "search")
        \/ \E f \in known :   \* ORDER BY updated_at is left open
             worker' = [worker EXCEPT ![w].contact = row[f].contact, ![w].pc = "saveFound"]
  /\ UNCHANGED <<row, gate, hubspot, bounds>>

SearchContact_Any(w) ==      \* a mutant: the search does not filter on the phone
  /\ At(w, "search")
  /\ LET found == {c \in DOMAIN contacts : contacts[c].indexed}
     IN \/ found = {} /\ Goto(w, "create")
        \/ \E c \in found :
             worker' = [worker EXCEPT ![w].contact = c, ![w].pc = "saveMade"]
  /\ UNCHANGED <<row, gate, hubspot, bounds>>

(* find_or_create_contact: the search index lags, so a contact may exist   *)
(* and not be found.  The log the search returns is dropped: line 468      *)
(* resets existing_log before it is used.                                  *)
SearchContact(w) ==
  /\ At(w, "search")
  /\ LET found == {c \in DOMAIN contacts :
                     contacts[c].phone = PhoneOf[MyRow(w)] /\ contacts[c].indexed}
     IN \/ found = {} /\ Goto(w, "create")
        \/ \E c \in found :
             worker' = [worker EXCEPT ![w].contact = c, ![w].pc = "saveMade"]
  /\ UNCHANGED <<row, gate, hubspot, bounds>>

CreateContact(w) ==
  /\ At(w, "create")
  /\ contacts' = Append(contacts,
                        [phone |-> PhoneOf[MyRow(w)], log |-> <<>>, indexed |-> FALSE])
  /\ Answered(w, [worker[w] EXCEPT !.contact = Len(contacts) + 1, !.pc = "saveMade"])
  /\ UNCHANGED <<row, gate, tickets, made, replays>>

SaveContact(w) ==
  /\ worker[w].pc \in {"saveFound", "saveMade"}
  /\ row' = [row EXCEPT ![MyRow(w)].contact = worker[w].contact]
  /\ Goto(w, IF At(w, "saveFound") THEN "getLog" ELSE "patch")
  /\ UNCHANGED <<gate, hubspot, bounds>>

GetContactLog_Empty(w) ==    \* a mutant: a log that is not on the row reads as empty
  /\ At(w, "getLog")
  /\ Goto(w, "patch")
  /\ UNCHANGED <<row, gate, hubspot, bounds>>

GetContactLog(w) ==
  /\ At(w, "getLog")
  /\ worker' = [worker EXCEPT ![w].log = contacts[worker[w].contact].log, ![w].pc = "patch"]
  /\ UNCHANGED <<row, gate, hubspot, bounds>>

(* The ai_comm_log that build_hubspot_properties sends. *)
Prepended(log, e) ==
  IF log # <<>> /\ Head(log) = Block[e] THEN log ELSE <<Block[e]>> \o log

UpdateContact(w) ==
  /\ At(w, "patch")
  /\ contacts' = [contacts EXCEPT ![worker[w].contact].log = Prepended(worker[w].log, MyRow(w))]
  /\ Answered(w, [worker[w] EXCEPT !.log = <<>>, !.pc = AfterPatch(worker[w])])
  /\ UNCHANGED <<row, gate, tickets, made, replays>>

CreateNote_Unsaved(w) ==     \* a mutant: the note's id is not written back
  /\ At(w, "note")
  /\ made' = [made EXCEPT ![MyRow(w)].note = @ + 1]
  /\ Answered(w, [worker[w] EXCEPT !.pc = AfterNote(worker[w])])
  /\ UNCHANGED <<row, gate, contacts, tickets, replays>>

CreateNote(w) ==
  /\ At(w, "note")
  /\ made' = [made EXCEPT ![MyRow(w)].note = @ + 1]
  /\ Answered(w, [worker[w] EXCEPT !.pc = "saveNote"])
  /\ UNCHANGED <<row, gate, contacts, tickets, replays>>

SaveNote(w) ==
  /\ At(w, "saveNote")
  /\ row' = [row EXCEPT ![MyRow(w)].note = TRUE]
  /\ Goto(w, AfterNote(worker[w]))
  /\ UNCHANGED <<gate, hubspot, bounds>>

(* Phase 4.  worker.ticket is NULL here; it first holds the caller's most  *)
(* recent ticket, then the one the event ends up with.                     *)
PriorTicket(w) ==
  /\ At(w, "priorTicket")
  /\ LET prior == {f \in Events : PhoneOf[f] = PhoneOf[MyRow(w)] /\ row[f].ticket # NULL}
     IN \/ prior = {} /\ Goto(w, "createTicket")
        \/ \E f \in prior :   \* ORDER BY updated_at is left open
             worker' = [worker EXCEPT ![w].ticket = row[f].ticket, ![w].pc = "getTicket"]
  /\ UNCHANGED <<row, gate, hubspot, bounds>>

GetTicket(w) ==
  /\ At(w, "getTicket")
  /\ IF tickets[worker[w].ticket].open
     THEN worker' = [worker EXCEPT ![w].reused = TRUE, ![w].pc = "saveTicket"]
     ELSE Goto(w, "createTicket")
  /\ UNCHANGED <<row, gate, hubspot, bounds>>

CreateTicket(w) ==
  /\ At(w, "createTicket")
  /\ tickets' = Append(tickets, [event |-> MyRow(w), open |-> TRUE])
  /\ Answered(w, [worker[w] EXCEPT !.ticket = Len(tickets) + 1, !.pc = "saveTicket"])
  /\ UNCHANGED <<row, gate, contacts, made, replays>>

SaveTicket_NewOnly(w) ==  \* a mutant: a reused ticket's id is not saved
  /\ At(w, "saveTicket")
  /\ row' = IF worker[w].reused THEN row ELSE [row EXCEPT ![MyRow(w)].ticket = worker[w].ticket]
  /\ Goto(w, IF worker[w].reused THEN "ticketNote" ELSE AfterTicket(worker[w]))
  /\ UNCHANGED <<gate, hubspot, bounds>>

SaveTicket(w) ==
  /\ At(w, "saveTicket")
  /\ row' = [row EXCEPT ![MyRow(w)].ticket = worker[w].ticket]
  /\ Goto(w, IF worker[w].reused THEN "ticketNote" ELSE AfterTicket(worker[w]))
  /\ UNCHANGED <<gate, hubspot, bounds>>

(* add_note_to_ticket: best effort, any error is swallowed. *)
TicketNote(w) ==
  /\ At(w, "ticketNote")
  /\ \/ made' = [made EXCEPT ![MyRow(w)].inTicket = @ + 1]
     \/ UNCHANGED made
  /\ Goto(w, AfterTicket(worker[w]))
  /\ UNCHANGED <<row, gate, contacts, tickets, bounds>>

CreateTask(w) ==
  /\ At(w, "task")
  /\ made' = [made EXCEPT ![MyRow(w)].task = @ + 1]
  /\ Answered(w, [worker[w] EXCEPT !.pc = "saveTask"])
  /\ UNCHANGED <<row, gate, contacts, tickets, replays>>

SaveTask(w) ==
  /\ At(w, "saveTask")
  /\ row' = [row EXCEPT ![MyRow(w)].task = TRUE]
  /\ Goto(w, "ack")
  /\ UNCHANGED <<gate, hubspot, bounds>>

(***************************************************************************)
(* The broker's outcomes.  Each is an UPDATE ... WHERE id = $1 that asks   *)
(* neither who holds the row nor what status it has by now.                *)
(***************************************************************************)
Finish(w, pc, st, until) ==
  /\ At(w, pc)
  /\ row' = [row EXCEPT ![MyRow(w)].status = st, ![MyRow(w)].retry = until]
  /\ worker' = [worker EXCEPT ![w] = Idle]
  /\ UNCHANGED <<gate, hubspot, bounds>>

Ack(w)        == Finish(w, "ack", "delivered", "none")
Nack(w)       == Finish(w, "nack", "failed", "backoff")
DeadLetter(w) == Finish(w, "dead", "dead", "none")

(* The process dies and is restarted, or an exception that process_message *)
(* does not map reaches run_worker: the message is dropped where it stood. *)
Abandon(w) ==
  /\ ~At(w, "poll")
  /\ faults < MaxFaults
  /\ faults' = faults + 1
  /\ worker' = [worker EXCEPT ![w] = Idle]
  /\ UNCHANGED <<row, gate, hubspot, replays>>

(* replay_dead_letters: every dead row starts over with a fresh budget. *)
Replay_Failed ==             \* a mutant: failed rows are replayed as well
  /\ replays < MaxReplays
  /\ \E e \in Events : row[e].status \in {"dead", "failed"}
  /\ row' = [e \in Events |-> IF row[e].status \in {"dead", "failed"}
               THEN [row[e] EXCEPT !.status = "pending", !.attempts = 0, !.retry = "none"]
               ELSE row[e]]
  /\ replays' = replays + 1
  /\ UNCHANGED <<gate, worker, hubspot, faults>>

Replay ==
  /\ replays < MaxReplays
  /\ \E e \in Events : row[e].status = "dead"
  /\ row' = [e \in Events |-> IF row[e].status = "dead"
               THEN [row[e] EXCEPT !.status = "pending", !.attempts = 0, !.retry = "none"]
               ELSE row[e]]
  /\ replays' = replays + 1
  /\ UNCHANGED <<gate, worker, hubspot, faults>>

(* HubSpot on its own: the search index catches up, a rep closes a ticket. *)
IndexCatchesUp(c) ==
  /\ ~contacts[c].indexed
  /\ contacts' = [contacts EXCEPT ![c].indexed = TRUE]
  /\ UNCHANGED <<row, gate, worker, tickets, made, bounds>>

TicketCloses(t) ==
  /\ tickets[t].open
  /\ tickets' = [tickets EXCEPT ![t].open = FALSE]
  /\ UNCHANGED <<row, gate, worker, contacts, made, bounds>>

-----------------------------------------------------------------------------
ClaimNext(w) == \E e \in Events : Claim(w, e)

Step(w) ==
  \/ ClaimNext(w) \/ Begin(w)
  \/ LookupContact(w) \/ SearchContact(w) \/ CreateContact(w) \/ SaveContact(w)
  \/ GetContactLog(w) \/ UpdateContact(w) \/ CreateNote(w) \/ SaveNote(w)
  \/ PriorTicket(w) \/ GetTicket(w) \/ CreateTicket(w) \/ SaveTicket(w) \/ TicketNote(w)
  \/ CreateTask(w) \/ SaveTask(w)
  \/ TransientError(w) \/ PermanentError(w)
  \/ Ack(w) \/ Nack(w) \/ DeadLetter(w)

Next ==
  \/ \E e \in Events : Publish(e) \/ GateOpens(e) \/ LeaseExpires(e) \/ BackoffElapses(e)
  \/ \E w \in Workers : Step(w) \/ Abandon(w)
  \/ \E c \in DOMAIN contacts : IndexCatchesUp(c)
  \/ \E t \in DOMAIN tickets : TicketCloses(t)
  \/ Replay

Spec == Init /\ [][Next]_vars

(* Processes that run keep polling and finish the calls they make (each    *)
(* has a 10 s timeout), and next_retry_at is always passed in the end.     *)
Fairness ==
  /\ \A w \in Workers : WF_vars(Step(w))
  /\ \A e \in Events : WF_vars(LeaseExpires(e)) /\ WF_vars(BackoffElapses(e))

FairSpec == Spec /\ Fairness

-----------------------------------------------------------------------------
(***************************************************************************)
(* Properties.                                                             *)
(***************************************************************************)
Image(s) == {s[i] : i \in DOMAIN s}

(* Every variable stays in its domain: ids point at records that exist,    *)
(* and a process holds a message exactly when it is not polling.           *)
TypeOK ==
  /\ row \in [Events -> Row]
  /\ gate \subseteq Events
  /\ worker \in [Workers -> Message]
  /\ contacts \in Seq(ContactRecord)
  /\ tickets \in Seq([event : Events, open : BOOLEAN])
  /\ made \in [Events -> [note : Nat, task : Nat, inTicket : Nat]]
  /\ faults \in Nat /\ replays \in Nat
  /\ \A w \in Workers : At(w, "poll") <=> Holds(w, NULL)

(* The promise of the claim: no two processes work on one event at a time. *)
(* It rests on the lease alone, so it needs the lease to outlive the work. *)
OneHolder ==
  \A v, w \in Workers : v # w /\ ~At(v, "poll") => ~Holds(w, MyRow(v))

(* While a message is being processed its row stays leased and open: the   *)
(* outcome it is about to get was not given by anybody else.               *)
HeldRowIsLeased ==
  \A w \in Workers : ~At(w, "poll") =>
    /\ row[MyRow(w)].retry = "lease"
    /\ row[MyRow(w)].status \in {"pending", "failed"}

(* Delivered is final: no late nack or dead-letter, no replay and no       *)
(* second claim takes an event out of it.                                  *)
DeliveredStays ==
  [][\A e \in Events : row[e].status = "delivered" => row'[e] = row[e]]_vars

(* An event is acked only when its contact, note, ticket and task are all  *)
(* saved on its row, whatever crashes, retries and replays came before.    *)
Complete(e) ==
  /\ row[e].contact # NULL
  /\ e \in Noted => row[e].note
  /\ e \in Ticketed => row[e].ticket # NULL
  /\ e \in Tasked => row[e].task

DeliveredMeansComplete ==
  \A e \in Events : row[e].status = "delivered" => Complete(e)

(* What makes a retry safe at every point: the ids a message claims to     *)
(* have are saved on its row, and so is whatever an earlier phase of the   *)
(* attempt produced, even when other processes work on the same row.       *)
PastTicket == {"ticketNote", "ack"} \cup TaskPhase
PastNote   == PastTicket \cup TicketPhase
PastPatch  == PastNote \cup NotePhase
BeforeTicket == {"begin"} \cup ContactPhase \cup LogPhase \cup NotePhase
HasContact == PastPatch \cup LogPhase \cup {"saveFound", "saveMade"}

PhasesSaved(w) ==
  LET m == worker[w]
      r == row[m.event]
  IN /\ m.note => r.note
     /\ m.task => r.task
     /\ m.pc \in BeforeTicket /\ m.ticket # NULL => r.ticket # NULL
     /\ m.pc \in HasContact => m.contact # NULL
     /\ m.pc \in PastPatch \cup LogPhase => r.contact # NULL
     /\ m.pc \in PastNote /\ m.event \in Noted => r.note
     /\ m.pc \in {"getTicket", "saveTicket"} => m.ticket # NULL
     /\ m.pc \in PastTicket /\ m.event \in Ticketed => r.ticket # NULL
     /\ m.pc = "ack" /\ m.event \in Tasked => r.task

ProgressIsSaved == \A w \in Workers : ~At(w, "poll") => PhasesSaved(w)

(* Retries create nothing again: a note, task or ticket is created for an  *)
(* event only while its row has no id for it, and a saved id is kept.      *)
NothingRecreated ==
  [][\A e \in Events :
       /\ made'[e].note > made[e].note => ~row[e].note
       /\ made'[e].task > made[e].task => ~row[e].task
       /\ Len(tickets') > Len(tickets) /\ tickets'[Len(tickets')].event = e
            => row[e].ticket = NULL
       /\ row[e].ticket # NULL => row'[e].ticket = row[e].ticket
       /\ row[e].contact # NULL => row'[e].contact = row[e].contact]_vars

(* The reused ticket's id is saved before the note goes into the ticket,   *)
(* so even a crash or a lost answer never repeats that note.               *)
InTicketNoteOnce == \A e \in Events : made[e].inTicket <= 1

(* An event only ever lands on records of its own caller.                  *)
RightCaller ==
  \A e \in Events :
    /\ row[e].contact # NULL => contacts[row[e].contact].phone = PhoneOf[e]
    /\ row[e].ticket # NULL => PhoneOf[tickets[row[e].ticket].event] = PhoneOf[e]

(* What build_hubspot_properties says of its guard, and process_message of *)
(* its PATCH, which it calls idempotent: a retry does not stack another    *)
(* copy of the event's entry.  (Blocks of different events differ here.)   *)
LoggedOnce ==
  \A c \in DOMAIN contacts : \A i, j \in DOMAIN contacts[c].log :
    contacts[c].log[i] = contacts[c].log[j] => i = j

(* README "Reliability": one contact per caller, one note, task and ticket *)
(* per event, and a caller gets a further ticket only once an earlier one  *)
(* has been closed.                                                        *)
OneRecordEach ==
  /\ \A c, d \in DOMAIN contacts : contacts[c].phone = contacts[d].phone => c = d
  /\ \A e \in Events : made[e].note <= 1 /\ made[e].task <= 1
  /\ \A s, t \in DOMAIN tickets :
       /\ tickets[s].event = tickets[t].event => s = t
       /\ s < t /\ PhoneOf[tickets[s].event] = PhoneOf[tickets[t].event] =>
            \E u \in DOMAIN tickets :
              /\ u < t /\ ~tickets[u].open
              /\ PhoneOf[tickets[u].event] = PhoneOf[tickets[t].event]

(* What that claim comes to when calls are lost: every note, task or ticket *)
(* an event has beyond the first is paid for by a crash or a lost answer of *)
(* its own, so n faults leave at most n duplicates, of all kinds together. *)
Extra(n)      == IF n = 0 THEN 0 ELSE n - 1
TicketsFor(e) == {t \in DOMAIN tickets : tickets[t].event = e}

DuplicatesArePaidFor ==
  \A e \in Events :
    Extra(made[e].note) + Extra(made[e].task) + Extra(Cardinality(TicketsFor(e))) <= faults

(* What a contact's log once held stays in it.                             *)
HistoryKept ==
  [][\A c \in DOMAIN contacts : Image(contacts[c].log) \subseteq Image(contacts'[c].log)]_vars

(* A delivered event can be read in its contact's log.                     *)
DeliveredIsLogged ==
  \A e \in Events : row[e].status = "delivered" =>
    Block[e] \in Image(contacts[row[e].contact].log)

(* Every event that becomes deliverable ends delivered or dead-lettered.   *)
Settles ==
  \A e \in Events :
    (row[e].status \in {"pending", "failed"} /\ e \in gate)
      ~> row[e].status \in {"delivered", "dead"}
=============================================================================
