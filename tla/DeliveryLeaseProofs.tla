------------------------- MODULE DeliveryLeaseProofs --------------------------
(***************************************************************************)
(* What the lease buys: as long as it outlives the work done under it, an  *)
(* event has one holder, its row stays leased and open while it is held,   *)
(* a delivered event is never touched again, and the workers implement the *)
(* abstract queue of the broker, DeliveryQueue.  Where a lease may run out *)
(* under the work, a single worker process still keeps some of it.         *)
(***************************************************************************)
EXTENDS DeliveryProofs

Settled == {"received", "delivered", "dead"}

(* Either condition keeps two processes off one event: the lease is long   *)
(* enough, or there is one process, which claims only when its hands are   *)
(* empty and so never takes over the event it is itself working on.        *)
OneAtATime == LeaseOutlivesWork \/ \A v, w \in Workers : v = w

(* The inductive invariant.  Its last part is what makes the others        *)
(* inductive: a row that waits for nobody carries no lease, so a replayed  *)
(* or freshly published row is held by nobody, and no timer touches a      *)
(* delivered one.                                                          *)
HolderLeases ==
  \A w \in Workers : \A e \in Events : Holds(w, e) =>
    /\ row[e].status \in {"pending", "failed"}
    /\ LeaseOutlivesWork => row[e].retry = "lease"

NoTwoHold ==
  \A v, w \in Workers : \A e \in Events : Holds(v, e) /\ Holds(w, e) => v = w

SettledIsQuiet ==
  \A e \in Events : row[e].status \in Settled => row[e].retry = "none"

LeaseInv == HolderLeases /\ NoTwoHold /\ SettledIsQuiet

LEMMA LeaseInvMeans ==
  ASSUME TypeInv, LeaseInv
  PROVE  OneHolder /\ (LeaseOutlivesWork => HeldRowIsLeased)
<1>1. \A w \in Workers : ~At(w, "poll") => MyRow(w) \in Events /\ Holds(w, MyRow(w))
  BY HeldMessageIsGood DEF GoodMessage, At, MyRow, Holds
<1>2. OneHolder
  BY <1>1 DEF LeaseInv, NoTwoHold, OneHolder
<1>3. LeaseOutlivesWork => HeldRowIsLeased
  BY <1>1 DEF LeaseInv, HolderLeases, HeldRowIsLeased
<1> QED
  BY <1>2, <1>3

LEMMA InitLeaseInv == Init => LeaseInv
<1> SUFFICES ASSUME Init PROVE LeaseInv
  OBVIOUS
<1>1. \A w \in Workers : worker[w].event = NULL
  BY DEF Init, Idle
<1>2. \A e \in Events : e # NULL /\ row[e].retry = "none"
  BY ConstantsOK DEF Init, NewRow
<1> QED
  BY <1>1, <1>2 DEF LeaseInv, HolderLeases, NoTwoHold, SettledIsQuiet, Holds

LEMMA QuietStep ==
  ASSUME LeaseInv, SameHolders, SameQueue
  PROVE  LeaseInv'
BY DEF LeaseInv, HolderLeases, NoTwoHold, SettledIsQuiet, Holds, SameHolders, SameQueue

-----------------------------------------------------------------------------
LEMMA LeaseInvStep == OneAtATime /\ TypeInv /\ LeaseInv /\ [Next]_vars => LeaseInv'
<1> SUFFICES ASSUME OneAtATime, TypeInv, LeaseInv, [Next]_vars PROVE LeaseInv'
  OBVIOUS
<1>0. row \in [Events -> Row] /\ worker \in [Workers -> Message] /\ NULL \notin Events
  BY ConstantsOK DEF TypeInv, TypeOK
<1>1. ASSUME NEW w \in Workers, Working(w) PROVE LeaseInv'
  BY <1>1, WorkKeepsHolders, WorkKeepsQueue, QuietStep
<1>2. ASSUME NEW e \in Events, Publish(e) \/ LeaseExpires(e) \/ BackoffElapses(e)
      PROVE  LeaseInv'
  <2>1. LeaseOutlivesWork => \A w \in Workers : ~Holds(w, e)
    BY <1>2 DEF Publish, LeaseExpires, BackoffElapses, LeaseInv, HolderLeases
  <2>2. UNCHANGED worker
    BY <1>2 DEF Publish, LeaseExpires, BackoffElapses
  <2>3. /\ row'[e].retry = "none"
        /\ \A w \in Workers : Holds(w, e) => row'[e].status = row[e].status
        /\ \A f \in Events \ {e} : row'[f] = row[f]
    <3>1. CASE Publish(e)
      <4>1. row[e].retry = "none" /\ \A w \in Workers : ~Holds(w, e)
        BY <3>1 DEF Publish, LeaseInv, HolderLeases, SettledIsQuiet, Settled
      <4> QED
        BY <1>0, <3>1, <4>1 DEF Publish, Row
    <3>2. CASE LeaseExpires(e) \/ BackoffElapses(e)
      BY <1>0, <3>2 DEF LeaseExpires, BackoffElapses, Row
    <3> QED
      BY <1>2, <3>1, <3>2
  <2> QED
    BY <2>1, <2>2, <2>3 DEF LeaseInv, HolderLeases, NoTwoHold, SettledIsQuiet, Holds
<1>3. ASSUME NEW w \in Workers, NEW e \in Events, Claim(w, e) PROVE LeaseInv'
  <2>1. \A v \in Workers : ~Holds(v, e)
    <3>1. CASE LeaseOutlivesWork
      BY <1>3, <3>1 DEF Claim, Claimable, LeaseInv, HolderLeases
    <3>2. CASE \A v, u \in Workers : v = u
      <4>1. ~Holds(w, e)
        BY <1>0, <1>3, HeldMessageIsGood DEF Claim, At, GoodMessage, Holds
      <4> QED
        BY <3>2, <4>1
    <3> QED
      BY <3>1, <3>2 DEF OneAtATime
  <2>2. /\ worker'[w].event = e
        /\ \A v \in Workers \ {w} : worker'[v] = worker[v]
    BY <1>0, <1>3 DEF Claim, Snapshot, Idle
  <2>3. /\ row'[e].retry = "lease" /\ row'[e].status \in {"pending", "failed"}
        /\ \A f \in Events \ {e} : row'[f] = row[f]
    BY <1>0, <1>3 DEF Claim, Claimable, Row
  <2>4. HolderLeases' /\ NoTwoHold'
    BY <2>1, <2>2, <2>3 DEF LeaseInv, HolderLeases, NoTwoHold, Holds
  <2>5. SettledIsQuiet'
    BY <2>3 DEF LeaseInv, SettledIsQuiet, Settled
  <2> QED
    BY <2>4, <2>5 DEF LeaseInv
<1>4. ASSUME NEW w \in Workers, Ack(w) \/ Nack(w) \/ DeadLetter(w) PROVE LeaseInv'
  <2> DEFINE e == worker[w].event
  <2>0. e \in Events
    BY <1>4, HeldMessageIsGood DEF Ack, Nack, DeadLetter, Finish, At, GoodMessage
  <2>1. \A v \in Workers : v # w => ~Holds(v, e)
    BY <2>0 DEF LeaseInv, NoTwoHold, Holds
  <2>2. /\ worker'[w].event = NULL
        /\ \A v \in Workers \ {w} : worker'[v] = worker[v]
    BY <1>0, <1>4 DEF Ack, Nack, DeadLetter, Finish, Idle
  <2>3. /\ row'[e].status \in Settled => row'[e].retry = "none"
        /\ \A f \in Events \ {e} : row'[f] = row[f]
    BY <1>0, <1>4, <2>0 DEF Ack, Nack, DeadLetter, Finish, Row, MyRow, Settled
  <2>4. HolderLeases' /\ NoTwoHold'
    BY <1>0, <2>0, <2>1, <2>2, <2>3 DEF LeaseInv, HolderLeases, NoTwoHold, Holds
  <2>5. SettledIsQuiet'
    BY <2>0, <2>3 DEF LeaseInv, SettledIsQuiet
  <2> QED
    BY <2>4, <2>5 DEF LeaseInv
<1>5. ASSUME NEW w \in Workers, Abandon(w) PROVE LeaseInv'
  <2>1. /\ worker'[w].event = NULL /\ UNCHANGED row
        /\ \A v \in Workers \ {w} : worker'[v] = worker[v]
    BY <1>0, <1>5 DEF Abandon, Idle
  <2> QED
    BY <1>0, <2>1 DEF LeaseInv, HolderLeases, NoTwoHold, SettledIsQuiet, Holds
<1>6. CASE Replay
  <2>1. ASSUME NEW e \in Events
        PROVE  /\ row[e].status = "dead" => /\ row'[e].retry = "none"
                                            /\ \A w \in Workers : ~Holds(w, e)
               /\ row[e].status # "dead" => row'[e] = row[e]
    BY <1>0, <1>6 DEF Replay, Row, LeaseInv, HolderLeases
  <2>2. UNCHANGED worker
    BY <1>6 DEF Replay
  <2> QED
    BY <2>1, <2>2 DEF LeaseInv, HolderLeases, NoTwoHold, SettledIsQuiet, Holds
<1>7. CASE UNCHANGED <<row, worker>>
  BY <1>7, QuietStep DEF SameHolders, SameQueue
<1>8. ASSUME \/ \E e \in Events : GateOpens(e)
             \/ \E c \in DOMAIN contacts : IndexCatchesUp(c)
             \/ \E t \in DOMAIN tickets : TicketCloses(t)
             \/ UNCHANGED vars
      PROVE  UNCHANGED <<row, worker>>
  BY <1>8 DEF GateOpens, IndexCatchesUp, TicketCloses, vars
<1> QED
  BY <1>1, <1>2, <1>3, <1>4, <1>5, <1>6, <1>7, <1>8 DEF Next, Step, ClaimNext, Working

(* OneHolder: no two processes ever work on one event at the same time.    *)
(* Claims keep each other out through next_retry_at alone, so this is a    *)
(* theorem only if the lease outlives the work or nobody competes for it.  *)
THEOREM ExclusiveClaim ==
  ASSUME OneAtATime
  PROVE  Spec => []OneHolder
<1>1. Init => TypeInv /\ LeaseInv
  BY InitTypeInv, InitLeaseInv
<1>2. TypeInv /\ LeaseInv /\ [Next]_vars => TypeInv' /\ LeaseInv'
  BY TypeInvStep, LeaseInvStep
<1>3. TypeInv /\ LeaseInv => OneHolder
  BY LeaseInvMeans
<1> QED
  BY <1>1, <1>2, <1>3, PTL DEF Spec

(* HeldRowIsLeased: nobody else settles or releases a row while a process  *)
(* holds its message.                                                      *)
THEOREM HolderKeepsItsRow ==
  ASSUME LeaseOutlivesWork
  PROVE  Spec => []HeldRowIsLeased
<1>1. Init => TypeInv /\ LeaseInv
  BY InitTypeInv, InitLeaseInv
<1>2. TypeInv /\ LeaseInv /\ [Next]_vars => TypeInv' /\ LeaseInv'
  BY TypeInvStep, LeaseInvStep DEF OneAtATime
<1>3. TypeInv /\ LeaseInv => HeldRowIsLeased
  BY LeaseInvMeans
<1> QED
  BY <1>1, <1>2, <1>3, PTL DEF Spec

(* DeliveredStays: a delivered row is final.  Nobody holds it, so no late  *)
(* write, nack or dead-letter reaches it; it carries no timer; and neither *)
(* a claim nor a replay takes it.  One process that overruns its lease     *)
(* cannot undo a delivery either.                                          *)
LEMMA DeliveredRowKept ==
  ASSUME TypeInv, LeaseInv, [Next]_vars, NEW e \in Events, row[e].status = "delivered"
  PROVE  row'[e] = row[e]
<1>0. row \in [Events -> Row] /\ row[e].retry = "none" /\ (\A w \in Workers : ~Holds(w, e))
  BY DEF TypeInv, TypeOK, LeaseInv, HolderLeases, SettledIsQuiet, Settled
<1>1. ASSUME NEW w \in Workers, Working(w) PROVE row'[e] = row[e]
  BY <1>0, <1>1, WorkKeepsQueue
<1>2. ASSUME NEW f \in Events, Publish(f) \/ LeaseExpires(f) \/ BackoffElapses(f)
      PROVE  row'[e] = row[e]
  BY <1>0, <1>2 DEF Publish, LeaseExpires, BackoffElapses
<1>3. ASSUME NEW w \in Workers, NEW f \in Events, Claim(w, f) PROVE row'[e] = row[e]
  BY <1>0, <1>3 DEF Claim, Claimable
<1>4. ASSUME NEW w \in Workers, Ack(w) \/ Nack(w) \/ DeadLetter(w) PROVE row'[e] = row[e]
  BY <1>0, <1>4 DEF Ack, Nack, DeadLetter, Finish, MyRow, Holds
<1>5. CASE Replay
  BY <1>0, <1>5 DEF Replay
<1>6. ASSUME \/ \E f \in Events : GateOpens(f)
             \/ \E w \in Workers : Abandon(w)
             \/ \E c \in DOMAIN contacts : IndexCatchesUp(c)
             \/ \E t \in DOMAIN tickets : TicketCloses(t)
             \/ UNCHANGED vars
      PROVE  row'[e] = row[e]
  BY <1>6 DEF GateOpens, Abandon, IndexCatchesUp, TicketCloses, vars
<1> QED
  BY <1>1, <1>2, <1>3, <1>4, <1>5, <1>6 DEF Next, Step, ClaimNext, Working

THEOREM DeliveredIsFinal ==
  ASSUME OneAtATime
  PROVE  Spec => DeliveredStays
<1>1. Init => TypeInv /\ LeaseInv
  BY InitTypeInv, InitLeaseInv
<1>2. TypeInv /\ LeaseInv /\ [Next]_vars => TypeInv' /\ LeaseInv'
  BY TypeInvStep, LeaseInvStep
<1>3. TypeInv /\ LeaseInv /\ [Next]_vars
        => [\A e \in Events : row[e].status = "delivered" => row'[e] = row[e]]_vars
  BY DeliveredRowKept
<1> QED
  BY <1>1, <1>2, <1>3, PTL DEF Spec, DeliveredStays

-----------------------------------------------------------------------------
(* Toward the abstract queue.  What a worker remembers of its attempt is   *)
(* what the row says, and beyond the first guard the attempt is within the *)
(* budget.                                                                 *)
Unguarded == {"begin", "nack", "dead"}

InBudget(w) ==
  /\ worker[w].attempt = row[worker[w].event].attempts
  /\ worker[w].pc \notin Unguarded => worker[w].attempt <= MaxAttempts

BudgetInv == \A w \in Workers : worker[w].pc # "poll" => InBudget(w)

LEMMA WorkKeepsAttempts ==
  ASSUME TypeInv, NEW w \in Workers, Working(w)
  PROVE  /\ worker'[w].attempt = worker[w].attempt
         /\ \A e \in Events : row'[e].attempts = row[e].attempts
         /\ worker'[w].pc \in Unguarded
            \/ worker[w].pc \notin Unguarded \cup {"poll"}
            \/ worker[w].attempt <= MaxAttempts
<1>0. worker \in [Workers -> Message] /\ row \in [Events -> Row]
  BY DEF TypeInv, TypeOK
<1>1. \A e \in Events : row'[e].attempts = row[e].attempts
  <2>1. CASE UNCHANGED row BY <2>1
  <2>2. CASE SaveContact(w) BY <1>0, <2>2 DEF SaveContact, Row
  <2>3. CASE SaveNote(w) BY <1>0, <2>3 DEF SaveNote, Row
  <2>4. CASE SaveTicket(w) BY <1>0, <2>4 DEF SaveTicket, Row
  <2>5. CASE SaveTask(w) BY <1>0, <2>5 DEF SaveTask, Row
  <2> QED
    BY <2>1, <2>2, <2>3, <2>4, <2>5 DEF Working, Begin, LookupContact, SearchContact,
       CreateContact, GetContactLog, UpdateContact, CreateNote, PriorTicket, GetTicket,
       CreateTicket, TicketNote, CreateTask, TransientError, PermanentError
<1>2. CASE Begin(w)
  <2>1. PICK pc \in {"dead", "nack", FirstPhase(worker[w])} :
          Goto(w, pc) /\ (pc \notin {"dead", "nack"} => worker[w].attempt <= MaxAttempts)
    BY <1>2 DEF Begin
  <2> QED BY <1>0, <1>1, <2>1 DEF Goto, Message, Unguarded
<1>3. CASE ~Begin(w)
  <2>1. worker[w].pc \notin Unguarded \cup {"poll"}
    BY <1>3 DEF Working, At, Unguarded, LookupContact, SearchContact, CreateContact, SaveContact,
       GetContactLog, UpdateContact, CreateNote, SaveNote, PriorTicket, GetTicket, CreateTicket,
       SaveTicket, TicketNote, CreateTask, SaveTask, TransientError, PermanentError, Calls
  <2>2. worker'[w].attempt = worker[w].attempt
    <3>1. ASSUME NEW m, m.attempt = worker[w].attempt, worker' = [worker EXCEPT ![w] = m]
          PROVE  worker'[w].attempt = worker[w].attempt
      BY <1>0, <3>1
    <3>2. ASSUME NEW pc, Goto(w, pc) PROVE worker'[w].attempt = worker[w].attempt
      BY <1>0, <3>2 DEF Goto, Message
    <3>3. ASSUME NEW m, m.attempt = worker[w].attempt, Answered(w, m)
          PROVE  worker'[w].attempt = worker[w].attempt
      BY <3>1, <3>2, <3>3 DEF Answered
    <3>4. CASE CreateContact(w)
      <4> DEFINE m == [worker[w] EXCEPT !.contact = Len(contacts) + 1, !.pc = "saveMade"]
      <4>1. Answered(w, m) BY <3>4 DEF CreateContact
      <4>2. m.attempt = worker[w].attempt BY <1>0 DEF Message
      <4> QED BY <3>3, <4>1, <4>2
    <3>5. CASE UpdateContact(w)
      <4> DEFINE m == [worker[w] EXCEPT !.log = <<>>, !.pc = AfterPatch(worker[w])]
      <4>1. Answered(w, m) BY <3>5 DEF UpdateContact
      <4>2. m.attempt = worker[w].attempt BY <1>0 DEF Message
      <4> QED BY <3>3, <4>1, <4>2
    <3>6. CASE CreateNote(w) \/ CreateTask(w)
      <4>1. PICK pc \in {"saveNote", "saveTask"} : Answered(w, [worker[w] EXCEPT !.pc = pc])
        BY <3>6 DEF CreateNote, CreateTask
      <4>2. [worker[w] EXCEPT !.pc = pc].attempt = worker[w].attempt BY <1>0 DEF Message
      <4> QED BY <3>3, <4>1, <4>2
    <3>7. CASE CreateTicket(w)
      <4> DEFINE m == [worker[w] EXCEPT !.ticket = Len(tickets) + 1, !.pc = "saveTicket"]
      <4>1. Answered(w, m) BY <3>7 DEF CreateTicket
      <4>2. m.attempt = worker[w].attempt BY <1>0 DEF Message
      <4> QED BY <3>3, <4>1, <4>2
    <3>8. CASE LookupContact(w) \/ SearchContact(w) \/ PriorTicket(w)
      <4>1. CASE \E pc : Goto(w, pc) BY <3>2, <4>1
      <4>2. CASE \/ \E a, b : worker' = [worker EXCEPT ![w].contact = a, ![w].pc = b]
                 \/ \E a, b : worker' = [worker EXCEPT ![w].ticket = a, ![w].pc = b]
        BY <1>0, <4>2 DEF Message
      <4> QED BY <3>8, <4>1, <4>2 DEF LookupContact, SearchContact, PriorTicket
    <3>9. CASE GetContactLog(w) BY <1>0, <3>9 DEF GetContactLog, Message
    <3>10. CASE GetTicket(w)
      <4>1. CASE Goto(w, "createTicket") BY <3>2, <4>1
      <4>2. CASE worker' = [worker EXCEPT ![w].reused = TRUE, ![w].pc = "saveTicket"]
        BY <1>0, <4>2 DEF Message
      <4> QED BY <3>10, <4>1, <4>2 DEF GetTicket
    <3>11. CASE SaveContact(w) \/ SaveNote(w) \/ SaveTicket(w) \/ TicketNote(w) \/ SaveTask(w)
                \/ TransientError(w) \/ PermanentError(w)
      BY <3>2, <3>11 DEF SaveContact, SaveNote, SaveTicket, TicketNote, SaveTask, TransientError,
         PermanentError
    <3> QED BY <1>3, <3>4, <3>5, <3>6, <3>7, <3>8, <3>9, <3>10, <3>11 DEF Working
  <2> QED BY <1>0, <1>1, <2>1, <2>2
<1> QED BY <1>2, <1>3

LEMMA BudgetStep ==
  LeaseOutlivesWork /\ TypeInv /\ LeaseInv /\ BudgetInv /\ [Next]_vars => BudgetInv'
<1> SUFFICES ASSUME LeaseOutlivesWork, TypeInv, LeaseInv, BudgetInv, [Next]_vars
             PROVE  BudgetInv'
  OBVIOUS
<1>0. /\ worker \in [Workers -> Message] /\ row \in [Events -> Row]
      /\ \A w \in Workers : worker[w].pc # "poll" => worker[w].event \in Events /\ Holds(w, worker[w].event)
  BY HeldMessageIsGood DEF TypeInv, TypeOK, GoodMessage, Holds
<1>1. ASSUME NEW w \in Workers, Working(w) PROVE BudgetInv'
  <2>1. worker[w].pc # "poll"
    BY <1>1 DEF Working, At, Begin, LookupContact, SearchContact, CreateContact, SaveContact,
       GetContactLog, UpdateContact, CreateNote, SaveNote, PriorTicket, GetTicket, CreateTicket,
       SaveTicket, TicketNote, CreateTask, SaveTask, TransientError, PermanentError, Calls
  <2>2. InBudget(w)'
    BY <1>0, <1>1, <2>1, WorkKeepsAttempts, WorkKeepsHolders DEF BudgetInv, InBudget, SameHolders
  <2>3. ASSUME NEW v \in Workers \ {w}, worker'[v].pc # "poll" PROVE InBudget(v)'
    BY <1>0, <1>1, <2>3, WorkKeepsAttempts, WorkIsLocal DEF BudgetInv, InBudget
  <2> QED BY <2>2, <2>3 DEF BudgetInv
<1>2. ASSUME UNCHANGED worker, \A w \in Workers : worker[w].pc # "poll" =>
                row'[worker[w].event].attempts = row[worker[w].event].attempts
      PROVE  BudgetInv'
  BY <1>2 DEF BudgetInv, InBudget
<1>3. ASSUME NEW e \in Events, Publish(e) \/ LeaseExpires(e) \/ BackoffElapses(e) PROVE BudgetInv'
  <2>1. \A f \in Events : row'[f].attempts = row[f].attempts
    BY <1>0, <1>3 DEF Publish, LeaseExpires, BackoffElapses, Row
  <2> QED BY <1>0, <1>2, <1>3, <2>1 DEF Publish, LeaseExpires, BackoffElapses
<1>4. ASSUME NEW w \in Workers, NEW e \in Events, Claim(w, e) PROVE BudgetInv'
  <2>1. /\ worker'[w].event = e /\ worker'[w].attempt = row[e].attempts + 1
        /\ worker'[w].pc = "begin" /\ \A v \in Workers \ {w} : worker'[v] = worker[v]
    BY <1>0, <1>4 DEF Claim, Snapshot, Idle
  <2>2. /\ row'[e].attempts = row[e].attempts + 1
        /\ \A f \in Events \ {e} : row'[f] = row[f]
    BY <1>0, <1>4 DEF Claim, Row
  <2>3. \A v \in Workers : ~Holds(v, e)
    BY <1>4 DEF Claim, Claimable, LeaseInv, HolderLeases
  <2> QED BY <1>0, <2>1, <2>2, <2>3 DEF BudgetInv, InBudget, Unguarded, Holds
<1>5. ASSUME NEW w \in Workers, worker' = [worker EXCEPT ![w] = Idle],
             \A e \in Events : row'[e].attempts = row[e].attempts
      PROVE  BudgetInv'
  <2>1. worker'[w].pc = "poll" /\ \A v \in Workers \ {w} : worker'[v] = worker[v]
    BY <1>0, <1>5 DEF Idle
  <2> QED BY <1>0, <1>5, <2>1 DEF BudgetInv, InBudget
<1>6. ASSUME NEW w \in Workers, Ack(w) \/ Nack(w) \/ DeadLetter(w) \/ Abandon(w) PROVE BudgetInv'
  <2>1. \A e \in Events : row'[e].attempts = row[e].attempts
    BY <1>0, <1>6 DEF Ack, Nack, DeadLetter, Finish, Abandon, Row
  <2> QED BY <1>5, <1>6, <2>1 DEF Ack, Nack, DeadLetter, Finish, Abandon
<1>7. CASE Replay
  <2>1. \A w \in Workers : worker[w].pc # "poll" => row[worker[w].event].status # "dead"
    BY <1>0 DEF LeaseInv, HolderLeases
  <2>2. \A w \in Workers : worker[w].pc # "poll" => row'[worker[w].event] = row[worker[w].event]
    BY <1>0, <1>7, <2>1 DEF Replay
  <2> QED BY <1>2, <1>7, <2>2 DEF Replay
<1>8. ASSUME \/ \E e \in Events : GateOpens(e)
             \/ \E c \in DOMAIN contacts : IndexCatchesUp(c)
             \/ \E t \in DOMAIN tickets : TicketCloses(t)
             \/ UNCHANGED vars
      PROVE  BudgetInv'
  BY <1>2, <1>8 DEF GateOpens, IndexCatchesUp, TicketCloses, vars
<1> QED
  BY <1>1, <1>3, <1>4, <1>6, <1>7, <1>8 DEF Next, Step, ClaimNext, Working

-----------------------------------------------------------------------------
(* Where an event is, by who holds it.                                     *)
LEMMA HeldState ==
  ASSUME TypeInv, LeaseInv, NEW w \in Workers, NEW e \in Events, Holds(w, e)
  PROVE  QueueState(e) = "held"
BY DEF LeaseInv, HolderLeases, QueueState

LEMMA FreeState ==
  ASSUME NEW e \in Events, \A w \in Workers : ~Holds(w, e)
  PROVE  /\ row[e].status = "received"  => QueueState(e) = "unpublished"
         /\ row[e].status = "delivered" => QueueState(e) = "delivered"
         /\ row[e].status = "dead"      => QueueState(e) = "dead"
         /\ row[e].status \in {"pending", "failed"} =>
              QueueState(e) = IF row[e].retry = "none" THEN "ready" ELSE "waiting"
BY DEF QueueState

LEMMA FreeStateNext ==
  ASSUME NEW e \in Events, \A w \in Workers : ~Holds(w, e)'
  PROVE  /\ row'[e].status = "delivered" => QueueState(e)' = "delivered"
         /\ row'[e].status = "dead"      => QueueState(e)' = "dead"
         /\ row'[e].status \in {"pending", "failed"} =>
              QueueState(e)' = IF row'[e].retry = "none" THEN "ready" ELSE "waiting"
BY DEF QueueState

LEMMA SameState ==
  ASSUME NEW e \in Events, row'[e].status = row[e].status, row'[e].retry = row[e].retry,
         \A w \in Workers : Holds(w, e)' <=> Holds(w, e)
  PROVE  QueueState(e)' = QueueState(e)
BY DEF QueueState

(* The abstract functions, changed at one event and at one worker.         *)
LEMMA OneMoves ==
  ASSUME NEW e \in Events, NEW st, QueueState(e)' = st,
         \A f \in Events \ {e} : QueueState(f)' = QueueState(f)
  PROVE  [f \in Events |-> QueueState(f)]' = [[f \in Events |-> QueueState(f)] EXCEPT ![e] = st]
OBVIOUS

LEMMA SameAttempts ==
  ASSUME \A e \in Events : row'[e].attempts = row[e].attempts
  PROVE  [e \in Events |-> row[e].attempts]' = [e \in Events |-> row[e].attempts]
OBVIOUS

-----------------------------------------------------------------------------
LEMMA QueueStep ==
  ASSUME LeaseOutlivesWork, TypeInv, LeaseInv, BudgetInv, [Next]_vars
  PROVE  [Queue!Next]_(Queue!vars)
<1>0. /\ worker \in [Workers -> Message] /\ row \in [Events -> Row] /\ NULL \notin Events
      /\ \A w \in Workers : worker[w].event \in Events \cup {NULL}
      /\ \A w \in Workers : worker[w].pc = "poll" <=> worker[w].event = NULL
  BY ConstantsOK, HeldMessageIsGood DEF TypeInv, TypeOK, GoodMessage
<1>1. ASSUME SameHolders, SameQueue, \A e \in Events : row'[e].attempts = row[e].attempts
      PROVE  UNCHANGED Queue!vars
  <2>1. \A e \in Events : QueueState(e)' = QueueState(e)
    BY <1>1, SameState DEF SameHolders, SameQueue, Holds
  <2>2. [e \in Events |-> QueueState(e)]' = [e \in Events |-> QueueState(e)]
    BY <2>1
  <2>3. [w \in Workers |-> worker[w].event]' = [w \in Workers |-> worker[w].event]
    BY <1>1 DEF SameHolders
  <2> QED BY <1>1, <2>2, <2>3, SameAttempts DEF Queue!vars
<1>2. ASSUME NEW w \in Workers, Working(w) PROVE UNCHANGED Queue!vars
  BY <1>1, <1>2, WorkKeepsHolders, WorkKeepsQueue, WorkKeepsAttempts
<1>3. ASSUME \/ \E e \in Events : GateOpens(e)
             \/ \E c \in DOMAIN contacts : IndexCatchesUp(c)
             \/ \E t \in DOMAIN tickets : TicketCloses(t)
             \/ UNCHANGED vars
      PROVE  UNCHANGED Queue!vars
  <2>1. UNCHANGED <<row, worker>>
    BY <1>3 DEF GateOpens, IndexCatchesUp, TicketCloses, vars
  <2> QED BY <1>1, <2>1 DEF SameHolders, SameQueue
(* A row nobody holds becomes ready. *)
<1>4. ASSUME NEW e \in Events, Publish(e) \/ LeaseExpires(e) \/ BackoffElapses(e)
      PROVE  Queue!Publish(e) \/ Queue!Wake(e)
  <2>1. \A w \in Workers : ~Holds(w, e)
    BY <1>4 DEF Publish, LeaseExpires, BackoffElapses, LeaseInv, HolderLeases
  <2>2. worker' = worker /\ \A w \in Workers, f \in Events : Holds(w, f)' <=> Holds(w, f)
    BY <1>4 DEF Publish, LeaseExpires, BackoffElapses, Holds
  <2>3. /\ row'[e].retry = "none" /\ row'[e].status \in {"pending", "failed"}
        /\ \A f \in Events \ {e} : row'[f] = row[f]
        /\ \A f \in Events : row'[f].attempts = row[f].attempts
    BY <1>0, <1>4 DEF Publish, LeaseExpires, BackoffElapses, LeaseInv, SettledIsQuiet, Settled, Row
  <2>4. QueueState(e)' = "ready" /\ \A f \in Events \ {e} : QueueState(f)' = QueueState(f)
    BY <2>1, <2>2, <2>3, FreeStateNext, SameState
  <2>5. QueueState(e) \in {"unpublished", "waiting"}
        /\ (QueueState(e) = "unpublished" <=> Publish(e))
    BY <1>0, <1>4, <2>1, FreeState DEF Publish, LeaseExpires, BackoffElapses, LeaseInv,
       SettledIsQuiet, Settled, Row
  <2>6. [f \in Events |-> QueueState(f)]' = [[f \in Events |-> QueueState(f)] EXCEPT ![e] = "ready"]
    BY <2>4, OneMoves
  <2>7. [w \in Workers |-> worker[w].event]' = [w \in Workers |-> worker[w].event]
    BY <2>2
  <2> QED BY <2>3, <2>5, <2>6, <2>7, SameAttempts DEF Queue!Publish, Queue!Wake
<1>5. ASSUME NEW w \in Workers, NEW e \in Events, Claim(w, e) PROVE Queue!ClaimNext(w, e)
  <2>1. \A v \in Workers : ~Holds(v, e)
    BY <1>5 DEF Claim, Claimable, LeaseInv, HolderLeases
  <2>2. worker'[w].event = e /\ \A v \in Workers \ {w} : worker'[v] = worker[v]
    BY <1>0, <1>5 DEF Claim, Snapshot, Idle
  <2>3. /\ row'[e].attempts = row[e].attempts + 1 /\ row'[e].status \in {"pending", "failed"}
        /\ \A f \in Events \ {e} : row'[f] = row[f]
    BY <1>0, <1>5 DEF Claim, Claimable, Row
  <2>4. worker[w].event = NULL BY <1>0, <1>5 DEF Claim, At
  <2>5. \A v \in Workers : \A f \in Events \ {e} : Holds(v, f)' <=> Holds(v, f)
    BY <1>0, <2>2, <2>4 DEF Holds
  <2>6. QueueState(e)' = "held" BY <2>2, <2>3 DEF QueueState, Holds
  <2>7. \A f \in Events \ {e} : QueueState(f)' = QueueState(f) BY <2>3, <2>5, SameState
  <2>8. QueueState(e) = "ready" BY <1>5, <2>1, FreeState DEF Claim, Claimable
  <2>9. [f \in Events |-> QueueState(f)]' = [[f \in Events |-> QueueState(f)] EXCEPT ![e] = "held"]
    BY <2>6, <2>7, OneMoves
  <2>10. [v \in Workers |-> worker[v].event]' = [[v \in Workers |-> worker[v].event] EXCEPT ![w] = e]
    BY <2>2
  <2>11. [f \in Events |-> row[f].attempts]'
           = [[f \in Events |-> row[f].attempts] EXCEPT ![e] = @ + 1]
    BY <2>3
  <2> QED BY <2>4, <2>8, <2>9, <2>10, <2>11 DEF Queue!ClaimNext
(* A held event is let go in one of four ways. *)
<1>6. ASSUME NEW w \in Workers, NEW e \in Events, NEW to, Holds(w, e),
             worker' = [worker EXCEPT ![w] = Idle],
             \A f \in Events \ {e} : row'[f] = row[f], row'[e].attempts = row[e].attempts,
             (\A v \in Workers : ~Holds(v, e)') => QueueState(e)' = to
      PROVE  Queue!Settle(w, e, to)
  <2>1. worker'[w].event = NULL /\ \A v \in Workers \ {w} : worker'[v] = worker[v]
    BY <1>0, <1>6 DEF Idle
  <2>2. \A v \in Workers : ~Holds(v, e)'
    BY <1>0, <1>6, <2>1 DEF LeaseInv, NoTwoHold, Holds
  <2>3. \A v \in Workers : \A f \in Events \ {e} : Holds(v, f)' <=> Holds(v, f)
    BY <1>0, <1>6, <2>1 DEF Holds
  <2>4. \A f \in Events \ {e} : QueueState(f)' = QueueState(f) BY <1>6, <2>3, SameState
  <2>5. QueueState(e) = "held" /\ worker[w].event = e BY <1>6, HeldState DEF Holds
  <2>6. [f \in Events |-> QueueState(f)]' = [[f \in Events |-> QueueState(f)] EXCEPT ![e] = to]
    BY <1>6, <2>2, <2>4, OneMoves
  <2>7. [v \in Workers |-> worker[v].event]'
          = [[v \in Workers |-> worker[v].event] EXCEPT ![w] = NULL]
    BY <2>1
  <2>8. [f \in Events |-> row[f].attempts]' = [f \in Events |-> row[f].attempts]
    BY <1>6
  <2> QED BY <2>5, <2>6, <2>7, <2>8 DEF Queue!Settle
<1>9. ASSUME NEW w \in Workers, Ack(w) \/ Nack(w) \/ DeadLetter(w) \/ Abandon(w)
      PROVE  \E e \in Events : Queue!Ack(w, e) \/ Queue!GiveBack(w, e) \/ Queue!DeadLetter(w, e)
  <2>1. PICK e \in Events : Holds(w, e) /\ worker[w].event = e /\ worker[w].pc # "poll"
    BY <1>0, <1>9 DEF Ack, Nack, DeadLetter, Finish, Abandon, At, Holds
  <2>2. worker' = [worker EXCEPT ![w] = Idle]
    BY <1>9 DEF Ack, Nack, DeadLetter, Finish, Abandon
  <2>3. /\ \A f \in Events \ {e} : row'[f] = row[f]
        /\ row'[e].attempts = row[e].attempts
    BY <1>0, <1>9, <2>1 DEF Ack, Nack, DeadLetter, Finish, Abandon, MyRow, Row
  <2>4. ASSUME NEW to, (\A v \in Workers : ~Holds(v, e)') => QueueState(e)' = to
        PROVE  Queue!Settle(w, e, to)
    BY <1>6, <2>1, <2>2, <2>3, <2>4
  <2>5. CASE Ack(w)
    <3>1. row'[e].status = "delivered" BY <1>0, <2>1, <2>5 DEF Ack, Finish, MyRow, Row
    <3>2. row[e].attempts <= MaxAttempts
      BY <2>1, <2>5 DEF BudgetInv, InBudget, Unguarded, Ack, Finish, At
    <3>3. Queue!Settle(w, e, "delivered") BY <2>4, <3>1, FreeStateNext
    <3> QED BY <3>2, <3>3 DEF Queue!Ack
  <2>6. CASE DeadLetter(w)
    <3>1. row'[e].status = "dead" BY <1>0, <2>1, <2>6 DEF DeadLetter, Finish, MyRow, Row
    <3>2. Queue!Settle(w, e, "dead") BY <2>4, <3>1, FreeStateNext
    <3> QED BY <3>2 DEF Queue!DeadLetter
  <2>7. CASE Nack(w) \/ Abandon(w)
    <3>1. row'[e].status \in {"pending", "failed"} /\ row'[e].retry # "none"
      <4>1. CASE Nack(w) BY <1>0, <2>1, <4>1 DEF Nack, Finish, MyRow, Row
      <4>2. CASE Abandon(w) BY <2>1, <4>2 DEF Abandon, LeaseInv, HolderLeases
      <4> QED BY <2>7, <4>1, <4>2
    <3>2. Queue!Settle(w, e, "waiting") BY <2>4, <3>1, FreeStateNext
    <3> QED BY <3>2 DEF Queue!GiveBack
  <2> QED BY <1>9, <2>5, <2>6, <2>7
<1>7. ASSUME Replay PROVE Queue!Replay
  <2>1. worker' = worker BY <1>7 DEF Replay
  <2>2. \A e \in Events : QueueState(e) = "dead" <=> row[e].status = "dead"
    BY <1>0 DEF QueueState, Row
  <2>3. ASSUME NEW e \in Events
        PROVE  /\ QueueState(e)' = IF QueueState(e) = "dead" THEN "ready" ELSE QueueState(e)
               /\ row'[e].attempts = IF QueueState(e) = "dead" THEN 0 ELSE row[e].attempts
    <3>1. CASE row[e].status = "dead"
      <4>1. row'[e].status = "pending" /\ row'[e].retry = "none" /\ row'[e].attempts = 0
        BY <1>0, <1>7, <3>1 DEF Replay, Row
      <4>2. \A w \in Workers : ~Holds(w, e)'
        BY <2>1, <3>1 DEF LeaseInv, HolderLeases, Holds
      <4> QED BY <2>2, <3>1, <4>1, <4>2, FreeStateNext
    <3>2. CASE row[e].status # "dead"
      <4>1. row'[e] = row[e] BY <1>7, <3>2 DEF Replay
      <4>2. QueueState(e)' = QueueState(e) BY <2>1, <4>1, SameState DEF Holds
      <4> QED BY <2>2, <3>2, <4>1, <4>2
    <3> QED BY <3>1, <3>2
  <2>4. [e \in Events |-> QueueState(e)]'
          = [e \in Events |-> IF QueueState(e) = "dead" THEN "ready" ELSE QueueState(e)]
    BY <2>3
  <2>5. [e \in Events |-> row[e].attempts]'
          = [e \in Events |-> IF QueueState(e) = "dead" THEN 0 ELSE row[e].attempts]
    BY <2>3
  <2>6. \E e \in Events : QueueState(e) = "dead" BY <1>7, <2>2 DEF Replay
  <2>7. [w \in Workers |-> worker[w].event]' = [w \in Workers |-> worker[w].event] BY <2>1
  <2> QED BY <2>4, <2>5, <2>6, <2>7 DEF Queue!Replay
<1>8. ASSUME NEW w \in Workers, Step(w)
      PROVE  (\E e \in Events : Claim(w, e)) \/ Working(w) \/ Ack(w) \/ Nack(w) \/ DeadLetter(w)
  BY <1>8 DEF Step, ClaimNext, Working
<1> QED
  BY <1>2, <1>3, <1>4, <1>5, <1>7, <1>8, <1>9 DEF Next, Queue!Next

LEMMA QueueInit == Init => Queue!Init /\ BudgetInv
<1> SUFFICES ASSUME Init PROVE Queue!Init /\ BudgetInv
  OBVIOUS
<1>1. \A e \in Events : row[e].status = "received" /\ row[e].attempts = 0
  BY DEF Init, NewRow
<1>2. \A w \in Workers : worker[w].event = NULL /\ worker[w].pc = "poll"
  BY DEF Init, Idle
<1>3. \A e \in Events : QueueState(e) = "unpublished" BY <1>1 DEF QueueState
<1> QED BY <1>1, <1>2, <1>3 DEF Queue!Init, BudgetInv

(* ImplementsQueue: the workers are a queue as the Broker interface        *)
(* promises it.  Each event is in one pair of hands, delivered for good,   *)
(* given back when its worker disappears, and delivered within its budget, *)
(* if a lease outlives the work done under it.                             *)
THEOREM WorkersImplementQueue ==
  ASSUME LeaseOutlivesWork
  PROVE  Spec => ImplementsQueue
<1>1. Init => TypeInv /\ LeaseInv /\ BudgetInv /\ Queue!Init
  BY InitTypeInv, InitLeaseInv, QueueInit
<1>2. TypeInv /\ LeaseInv /\ BudgetInv /\ [Next]_vars => TypeInv' /\ LeaseInv' /\ BudgetInv'
  BY TypeInvStep, LeaseInvStep, BudgetStep DEF OneAtATime
<1>3. TypeInv /\ LeaseInv /\ BudgetInv /\ [Next]_vars => [Queue!Next]_(Queue!vars)
  BY QueueStep
<1> QED
  BY <1>1, <1>2, <1>3, PTL DEF Spec, ImplementsQueue, Queue!Spec
=============================================================================
