# TLA+ models of the Twilio–HubSpot communication pipeline

This directory holds TLA+ modules of the system under `src/`, configurations
that check them with TLC on small instances, and theorems about them that TLAPS
checks for every instance. Paths below are relative to `src/`.

## The system

Twilio posts webhooks; the communication layer stores each as a row of
`comm_events`. An intelligence layer enriches the row, answers WhatsApp
messages and embeds the text. A delivery worker writes the result to HubSpot.
There is no message broker besides Postgres: every queue is a table, every claim
is a transaction of `SELECT … FOR UPDATE SKIP LOCKED` and an `UPDATE` that sets a
lease, and every lease is a timestamp. All processes share that database and
nothing else.

| component | state | operations | talks to |
|---|---|---|---|
| ingest (`comm_layer/webhooks`) | a new `comm_events` row | insert under an idempotency key, publish; a recording looks its call up | Twilio, broker |
| broker (`comm_layer/broker/postgres.py`) | `delivery_status`, `attempt_count`, `next_retry_at` | publish, claim_next, ack, nack, dead_letter | every process |
| enrichment (`intelligence_layer/consumer.py`, `enrichment.py`, `transcription.py`) | `enrichments.status`, `transcripts` | claim, transcribe, extract, record | OpenAI, Twilio recordings |
| reply consumer (`intelligence_layer/whatsapp_reply.py`) | `whatsapp_replies.status`, `resolved` | sweep, claim, screen, generate, two-phase send | OpenAI, Twilio |
| embedding (`intelligence_layer/embedding.py`) | `enrichments.embedding_status` | claim, embed | OpenAI |
| delivery worker (`delivery_worker`) | `comm_events.hubspot_*_id`; local message | five phases per message | broker, HubSpot |
| replay (`delivery_worker/replay.py`) | dead rows | back to pending with a fresh budget | dashboard, command line |
| kill switch (`comm_layer/db.py`) | `app_settings.ai_enabled` | read, toggle | reply, enrichment and embedding consumers |
| outbound and rate limiter (`comm_layer/outbound.py`, `rate_limiter.py`) | a token bucket per process | consume, window check, send | Twilio, delivery |

What is hard, and therefore what the properties are about:

* a lease is the only exclusion after the claim has committed, and the final
  writes (`ack`, `nack`, `dead_letter`, `_update_reply`, `_update_enrichment`) do
  not look at it; the embedding claim has no lease at all;
* every HubSpot or Twilio call can succeed while its answer is lost, and a
  process can die between that call and the `UPDATE` that remembers it;
* HubSpot's search index lags behind what was just created;
* the message a worker acts on is a snapshot taken at the claim;
* `delivery` waits for enrichment and reply, so whatever does not reach a
  final status there is never delivered.

What makes each component correct: **broker** – one holder at a time, delivered
is final, the budget is exact, everything settles; **delivery** – one record of
each kind on the right contact, nothing saved is made again, the log of a contact
only grows; **reply** – a customer is texted at most once, the row says what
happened, a deferral is never lost, no message is left unanswered; **ingest** – what
Twilio was told is taken is stored, once, under the right business and with the
data of its own call, and is published once; **enrichment, embedding** – a final result is not overwritten and nothing
stays in progress. The full list of hazards with their lines is in `PROJECT.json`.

## The modules

### `DeliveryWorker` – broker, delivery worker, replay

One step is one `await`: a statement on `comm_events` or one HTTP call.
`row[e]` has the columns delivery uses (`status`, `retry` for `next_retry_at`,
`attempts`, `contact`, `note`, `ticket`, `task` for the `hubspot_*_id`);
`worker[w]` has the position `pc` in `process_message` and its local variables;
`contacts`, `tickets` and `made` are HubSpot. `next_retry_at` is one of `none`
(passed or NULL), `lease` and `backoff`: the code cannot tell the last two apart
and the model lets both pass.

| code | action |
|---|---|
| `publish`; final status of enrichment and reply | `Publish`, `GateOpens` |
| `claim_next` (one transaction) | `Claim` |
| guards and budget, client-side rate limit | `Begin` |
| phase 1a contact | `LookupContact`, `SearchContact`, `CreateContact`, `SaveContact` |
| phases 1b and 2, the log | `GetContactLog`, `UpdateContact` |
| phase 3, note | `CreateNote`, `SaveNote` |
| phase 4, ticket | `PriorTicket`, `GetTicket`, `CreateTicket`, `SaveTicket`, `TicketNote` |
| phase 5, task | `CreateTask`, `SaveTask` |
| 408/425/429/5xx, other 4xx | `TransientError`, `PermanentError` |
| `ack`, `nack`, `dead_letter` | `Ack`, `Nack`, `DeadLetter` |
| crash or an unmapped exception | `Abandon` |
| `replay_dead_letters` | `Replay` |
| HubSpot's index, a rep closing a ticket | `IndexCatchesUp`, `TicketCloses` |

An answer lost after HubSpot did the work is the second alternative of
`Answered`: it costs one of `MaxFaults`, as a crash does. Log entries are numbers:
equal numbers are equal text blocks. Formatting, `delivery_log` and structured
logging are left out.

`DeliveryQueue` is the abstract specification: what `comm_layer/broker/base.py`
promises, with no lease and no HubSpot. `DeliveryRefinement` maps the rows to it
(a row is *held* while a worker has its message, *ready* or *waiting* by
`next_retry_at` otherwise) and states `ImplementsQueue`. `MCDelivery` gives the
instances.

### `WhatsAppReply` – reply consumer with `send_whatsapp`

`reply[e]` is the row of `whatsapp_replies` (status, `resolved`, and whether
`updated_at` is within the lease), `worker[w]` a process with one worker coroutine
(the default concurrency), `texted[e]` what reached the customer's phone, as the
`resolved` flags of the accepted messages. `Scan` and `Claim` are the two
statements of `claim_next`: the scan sees a snapshot in which a row may have been
claimed meanwhile, and the condition of the upsert decides. `Start` is the
sweep, `ReadSwitch`, `Screen`, `Generate` are `handle_reply`, `FlipToSending`,
`CheckWindow`, `CallTwilio` and `Record…` are `_send_and_record`. Any `await` may
raise (`Raises`): before it had an effect (`Fault`), or, for an `UPDATE`, after it was
committed (the second case of `AnsweredTo`). Inside the `try` of `_send_and_record`
that leads to `RecordRefused`, elsewhere in `handle_reply` to `RecordCrashed`, and both
overwrite the row whatever it says by then. `MCReply` gives the instances.

### `Enrichment` – enrichment, transcription, embedding

Both consumers work on the same rows of `enrichments`. `row[e]` has its `status`
(`none` while there is no row), whether `updated_at` is within the lease, and
`embedding_status`; `transcripts[e]` are the rows of `transcripts`, each as whether
it has text; `embeddings[e]` counts vectors. `enricher[w]` and `embedder[v]` are
coroutines: position, event, and whether the event in hand carries a transcript.

| code | action |
|---|---|
| `_worker`, `claim_next` (`consumer.py`) | `CheckSwitch`, `Scan`, `Claim` |
| `transcribe_recording_for_event` | `ReadSwitch`, `Whisper`, `SaveTranscript`, `SaveRaises` |
| `enrich_event` | `FirstStep` and `Content`, `CallGpt`, `Complete`, `Fail`, `Skip` |
| `_update_enrichment` | `UpdateEnrichment` |
| `_embedding_worker`, `claim_next_for_embedding` | `EmbedSwitch`, `EmbedClaim` |
| `embed_event` | `Embed`, `Store`, `MarkFailed` |
| crash, or an exception that reaches the poll loop | `Abandon`, `EmbedAbandon` |
| `updated_at` leaves the lease; dashboard switch | `LeaseExpires`, `ToggleSwitch` |

`claim_next` is two steps, because its scan reads a snapshot: `Scan` may choose
a row another coroutine is about to claim, and the upsert in `Claim` looks again.
The embedding claim locks the very row whose condition it tests, so it is one
step. Whatever goes wrong in a transcription is absorbed there and skips the
event (`Whisper`, `SaveRaises`). The calls to OpenAI are one step each, retries
included, with their outcomes. `heard[e]` counts the transcriptions of an event that
OpenAI has made, those whose answer was lost to a crash or an exception included.
`MCEnrichment` gives the instances.

### `Ingest` – webhooks, status callbacks, recordings, with the delivery queue

`stored[k]` is the row of `comm_events` under the idempotency key `k` (a SID, a
type, a status), `handler[s]` a request handler with its position, its hook and
the event it builds, `acked[h]` whether Twilio has seen a 200 for the hook.
`delivery_status` is `state` of `DeliveryQueue`, which the module takes in by
`INSTANCE … WITH Events <- Keys, MaxAttempts <- 1`: `Publish` overwrites the status
as the code does, without a look at it, and the workers claim and settle as the
abstract queue lets them. That ingest with all its repeats is a user of the queue is
thus a property (`QueueSpec`) and not an assumption. `LookUp` is `resolve_source`, which
compares the number as it is given; each route passes its own, and only the two
WhatsApp routes strip the `whatsapp:` prefix first. `SourceIsOurs` compares the row
with the form Twilio sent (`SourceOf`), where the prefix never matters.

| code | action |
|---|---|
| the seven routes up to their first `await`, with `resolve_source` | `Receive`, `Handle` |
| `lookup_call_context` | `LookupCall` |
| `INSERT … ON CONFLICT DO NOTHING` | `Insert` |
| `SELECT` of the original id | `SelectOriginal` |
| `publish` | `Publish` |
| the 200 | `Answer` |
| an `await` that raises, an answer Twilio does not wait for | `Abandon` |
| the process dies | `Crash` |
| `claim_next` and what follows | `WorkerStep` |

Twilio is in the guard of `Receive`: a hook is posted until it is acked, also while
an earlier attempt is in progress, and `After` names the hooks that Twilio sends
only when others are answered. `MCIngest` gives the instances.

### Proof modules

| module | about |
|---|---|
| `DeliveryProofs` | types of `DeliveryWorker`; what working on a message leaves alone |
| `DeliveryLeaseProofs` | what the lease buys, the refinement of `DeliveryQueue` included |
| `DeliveryProgressProofs` | what the saved ids buy |
| `DeliveryRecordProofs` | which HubSpot records an event touches, and how often |
| `DeliveryCallerProofs` | what a caller finds in HubSpot: log, contact, tickets |
| `WhatsAppReplyProofs` | the reply consumer |
| `EnrichmentProofs` | enrichment, transcription, embedding |
| `IngestProofs` | ingest, and that it is a user of `DeliveryQueue` |

## The runs

| run | instance | shows |
|---|---|---|
| `single` | 3 events (two of Alice, one with a task, and one with no number), Bob known; 1 worker, budget 2, HubSpot errors, no crash | one record each (a further ticket only after one was closed), on the right caller; delivered events are in the log, the log only grows; every deliverable event settles |
| `pair` | 2 events of Alice, 2 workers, budget 1, one fault, one replay, leases outlive work | one holder, held rows stay leased, delivered is final, nothing saved is recreated, one in-ticket note, a fault for every duplicate; the workers implement `DeliveryQueue` |
| `zombie` | 1 event with all phases, 2 workers, budget 2, one fault, leases run out under a slow worker | progress is saved and delivered events are complete even when two workers go through the phases of one row, each with the ids its claim has seen |
| `reply_safe` | 2 messages, 2 processes, 2 faults, leases outlive work, switch toggles freely | at most one text, rows tell the truth, the gate stays open, a deferral the customer received is on the row that opens the delivery gate while nothing fails, every message gets its turn |
| `enrich_work` | 3 events (a recording, a text, an empty text), 2 coroutines of each kind, one fault, leases outlive work, switch toggles freely | results stay, transcripts come first, one per recording, a second call to Whisper costs a fault, one vector per completed event, every event ends |
| `ingest` | 11 hooks of 6 routes, 2 handlers, 1 delivery worker, one fault | what is answered is stored; recordings join their own calls; every row has the source of its webhook; an event is queued once; every hook gets its 200, every published event leaves the queue, and without a fault every stored one reaches a worker |
| `history` | a contact HubSpot knows, with a log | **violated**: the PATCH drops the old log (`main.py:468`) |
| `stacked` | 2 events of Alice, 1 worker, a nack, no crash | **violated**: a retry stacks a second copy of an entry whose place on top another event took (`transform.py:131`) |
| `reply_double` | lease shorter than the work, no crash | **violated**: a customer is texted twice |
| `reply_stuck` | one process, rate limit | **violated**: a reply stays `sending` |
| `embed_stuck` | one event, one fault | **violated**: a vector's row stays `processing` |
| `stranded` | one text message, one fault | **violated**: the retry is answered as a duplicate and the event is never published |

A violation is a disagreement between the code and a sentence of its
documentation; `PROJECT.json` quotes both.

**Bounds.** Two events of one caller are what the reuse of contacts and tickets,
the log and the claim order need; the third, with no number, covers recordings
without a caller. Two workers give every pairwise race; no guard counts workers.
A budget of 2 covers a retry and its end. In `pair` it is 1, since the replay
there gives every event a second life; `zombie` has no replay and a budget of 2, so that the
second claim of a row goes through the phases, with the ids the first has saved by then. `pair` has no tasks (with one it does not
end in five minutes); `single` and `zombie` have them, and the theorems hold for all kinds. One fault in delivery and two in
replies hit every step, because a fault may strike at any of them;
`MaxReplays = 1` covers the replay of a half-delivered event. In `single` the
settings `MaxFaults = 0` and one worker are those under which *one record each*
can hold at all: README.md:261 promises "exactly one contact, one note, one ticket"
whatever is retried, but a note HubSpot made while its answer was lost, or whose worker died
before `_persist_note_id`, is made again. `DuplicatesArePaidFor` in `pair` reaches that case and shows
that a fault costs no more than one duplicate. In `enrich_work`
the three events are the three ways through `enrich_event`, and one fault is a
crash, an absorbed exception or a lost UPDATE at any step of either consumer. In `ingest`
the hooks are a WhatsApp message, receipts of an outgoing WhatsApp and text
message, two inbound calls and the end of one, an outbound call announced at
`/webhooks/voice` and its end, and three recordings: one that follows its call, a failed one that may overtake its call, and one of a caller
who did not speak; the order among the
rest only bounds how many are on their way at once. Two handlers give
a post and its repeat, or a recording and its call, at the same time; the one
fault strikes at any step. A text message (`stranded`) runs through the same code as a
WhatsApp message. Where
`CHECK_DEADLOCK FALSE` is set the delivery system really ends: all events are
delivered or dead. Symmetry permutes workers only, and is not used where a
liveness property is checked.

**Fairness.** `FairSpec` of `DeliveryWorker` has weak fairness on each worker's
next step (the poll loop never stops and every call has a timeout) and on the
passing of `next_retry_at` (clocks advance). There is none on `Publish`,
`GateOpens`, crashes or replays, so `Settles` speaks of published events whose
gate is open. `FairSpec` of `WhatsAppReply` is the same, and a process that is
down is started again: README.md:92 expects each process to crash and restart, but nothing in the
repository restarts one, so this stands for an operator. Nothing makes the switch toggle.
`FairSpec` of `Enrichment` adds the same for the embedding coroutines. `EnrichmentEnds`
and `EmbeddingEnds` have the premise `<>[]aiEnabled`: while the switch is off nothing
is claimed, as documented, and one that is toggled for ever may be off at every poll.
None needs strong fairness: with one worker a claimable event of the lowest
number is claimed at the next poll, and in the two consumers crashes are
bounded by `MaxFaults`. `FairSpec` of `Ingest` has weak fairness on Twilio's posts
(it sends again what was not answered), on each handler (a request ends) and on
the workers; faults are bounded, so a retry meets no fault in the end.

## What is proved

All theorems hold for every set of events and workers, every assignment of
numbers and flags, and every bound, under `ConstantsOK` alone unless said.
Several assume `OneAtATime`, which each proof module defines: `LeaseOutlivesWork`, or one
worker. That a lease outlives the work is the documented design (`comm_layer/config.py:104` and
`:116` ask for leases well above the processing time), but nothing in the code enforces it: `reply_double` shows
what it means. One worker claims only when its hands are empty, so a lease that runs out under its own
work is claimed by nobody meanwhile; this is how `make worker` starts delivery and what
`WHATSAPP_REPLY_CONCURRENCY = 1` (the default) makes of the reply consumer.

* `DeliveryProofs!TypeCorrect`: `TypeOK` of `DeliveryWorker`, including that a
  process has a message exactly when it is not polling. The invariant adds that ids a
  message or a row carries point at existing HubSpot records; without it the
  step that appends to the log of `contacts[worker[w].contact]` cannot be typed.
* `DeliveryLeaseProofs`: `ExclusiveClaim` and `DeliveredIsFinal`, **assuming
  `OneAtATime`**, and `HolderKeepsItsRow`, **assuming `LeaseOutlivesWork`**. None is inductive alone:
  a claim keeps holders apart because a held row is leased, and the outcome of
  one worker leaves another's row alone because holders are apart. The
  inductive invariant is the two together with the type invariant. With several workers and
  without the assumption they fail: `reply_double` shows it for the same kind of lease in the
  reply consumer, and `zombie` checks what remains true of delivery.
* `DeliveryProgressProofs`: `ProgressNeverLost` and `DeliveredIsComplete`,
  **without** the lease assumption. Ids on a row are never cleared by any step, so
  what a message knows from its snapshot, or produced in an earlier phase,
  stays on the row whoever else works on it; `ack` is reached only past every
  phase.
* `DeliveryRecordProofs`: `RecordsOfTheCaller` **without** the lease assumption. Its
  invariant `CallerInv` says of messages what the property says of rows, because an
  id gets on a row by way of a message, and that HubSpot never gives a record to
  another caller. `RetriesCreateNothingAgain` and `OneNoteInTicket` **assume
  `OneAtATime`**. `RecordInv` says that a message is up to date: until a phase is
  reached it has exactly the row's id for it, and inside the phase the row has none.
  That is inductive only while nobody else writes the row, which is what
  `LeaseInv` adds; and with `ProgressInv` a process about to write the in-ticket
  note has saved the ticket, so no later attempt comes that way again.
* `DeliveryLeaseProofs!WorkersImplementQueue`, **assuming
  `LeaseOutlivesWork`**: initial states map to initial states, and every step is, for each event, a
  step of `DeliveryQueue` or a stutter. On top of `LeaseInv` it needs
  `BudgetInv`: a worker's attempt number is the row's, and past the first guard it is
  within the budget, so whoever acks does so within it.
* `DeliveryCallerProofs`. The HubSpot log is read, extended and written back, so what it
  promises depends on who else works for the caller, and the lease, which is per event, does not
  settle that. `SoleEventIsLoggedOnce` is what
  remains of the idempotent PATCH that `stacked` refutes: while every caller has a single event
  (`SoleEvents`, and `KnownLogsOnce` of the logs HubSpot starts with) no entry is stacked
  whatever is lost, retried or replayed and whoever works on the row. `OnceInv` says that logs, those in the
  hands of workers included, are without repetition and hold an event's own entry on
  top or not at all, which is where the guard looks. `EveryDuplicateIsPaidFor` **assumes
  `OneAtATime`** and says what is left of *one note, one ticket* when calls are lost: an
  event's duplicates, of all kinds together, are at most the faults so far. `PaidInv` counts a
  record as one too many unless its id is saved or about to be, since the next attempt will make
  another; a step adds to that count only for the kind whose phase a fault has struck. The remaining theorems are about
  behaviours with `[]OneCallerAtATime` (no two processes hold events with the same
  number, a missing number counting as one), which is what the single worker of
  `make worker` gives, and what events that come far enough apart give to any number of
  workers; no lease is assumed. `DeliveredCanBeRead`: `LogInv` says that a
  process about to PATCH carries the contact's log as it still stands, unless no other event of the
  caller has a contact yet, and that past its PATCH an event is in the log.
  `NothingDropsOut`: `HistoryInv` adds that only a contact some row points to has a log, so the
  process that starts from an empty log (the search drops the one it finds) patches an empty one;
  `CallersUnlogged` excludes callers with a log this system did not write, which is
  the case that `history` refutes. `OneRecordOfEach` also assumes `MaxFaults = 0` and
  `KnownContactsFound` (HubSpot's search sees the contacts that were there before, one
  per number): both are needed, the first because a lost answer makes a second record (above). Its invariants are
  `ContactInv` (a contact that the search would miss is on a row of its caller, or in the hands
  of the one process that works for the caller), `TicketInv` (every ticket is on its event's row
  or about to be, and a process that means to create one found a closed one or none) and
  `PaidInv` again. `OneWorkerKeepsTheLog` and `OneWorkerOneRecord` state the corollaries for one
  worker.
* `WhatsAppReplyProofs`: `TypeCorrect` and `BoundaryHolds` without a lease
  assumption: from the flip on, and once a text is out, the row is `sending` or final,
  and no claim takes such a row. `NeverTwice`, `RowsTellTheTruth` and
  `GateNeverCloses` **assume `OneAtATime`**; the invariant `SendInv` says that a row
  somebody works on is in flight (fresh, if leases outlive the work) or was ended by that very process,
  whose UPDATE was committed and raised, that it has one worker, and ties the worker's position to
  the row's status and to what has been texted (nothing before `twilio`, exactly
  the worker's flag at `recordSent`). `reply_double` shows what happens with two processes and without
  the assumption, and `TextsAreBounded` that it does not get worse: a customer is texted at most once
  per process, because the first text closes the row to claims (`SharedInv`: the texts sent and
  the processes that may still send one are together no more than the processes). `DeferralsKept`, under the same assumption, adds `DeferralInv`: while no
  fault has happened, whatever step is left after a deferral went out writes
  `resolved = FALSE` with the final status, on every branch.
* `EnrichmentProofs`: `TypeCorrect`, `TranscriptFirst`, `EmbeddedExactlyOnce` without
  a lease assumption. `SavedInv` says that a coroutine that knows a transcript, or
  has a recording at `gpt` or `complete`, has it in the table, and tables only grow; `EmbedInv`
  that a row under an embedding coroutine is `processing`, has that one coroutine
  and no vector, so the missing unique key does no harm. `EmbeddedAreCompleted`,
  `ResultIsFinal`, `NeverTranscribedTwice` and `HeardAgainCostsAFault` **assume `OneAtATime`**, of the enrichment
  coroutines (three by default, so here it is the lease that counts): by
  `LeaseInv` a claimed row is `processing`, fresh if leases outlive the work, and has one coroutine, so its
  last UPDATE finds no final status; by `OnceInv` a coroutine on its way to Whisper
  works on a recording without text, which its scan may have read earlier but
  which nobody else could change. The table can promise one saved text, not one paid transcription:
  a crash between the answer and the `INSERT` costs another (transcription.py:6-7). `BillInv` says
  that it costs no more: a row that may be claimed has had no more transcriptions than there were faults,
  since every way out of a claim but a fault ends in a final status.

* `IngestProofs`, under `ConstantsOK` and `FormsOK` (Twilio's SIDs are unique,
  messages come in and receipts are for what went out, only the WhatsApp routes see prefixed numbers, and
  the other side of a conversation is not one of our numbers): `TypeCorrect`,
  `NothingIsLost`, `ImplementsQueue`, `RecordingsJoin`, `SourcesAreOurs`. `StoreInv` says that a handler
  that is about to publish or to answer has its event stored, which gives `NothingIsLost`.
  `PublishInv` says that only the handler whose `INSERT` made the row comes to
  `publish`, that there is one such handler, and that the event is unpublished until
  then; without it the blind `UPDATE` of `publish` would not refine the queue. `ContextInv`
  carries the numbers and the source of the event a handler holds, and, for a
  recording, that it was taken from its own call or from nowhere. An outbound call that
  connects at `/webhooks/voice` (CONTRACT.md:74) is looked up under its destination and stored as inbound
  (`voice.py:62-70`): `SourceOf` says that it belongs to no business, as the code has it, and the run has one.

**Only model-checked:** `Settles`, `AnswerComes`, `EnrichmentEnds`, `EveryHookAnswered`,
`QueueDrains` and `ReachesWorker`: liveness under fairness is out of the prover's reach.
Every other property of a passing run is a theorem.

## What is not modelled

* The token bucket (`rate_limiter.py`): it refills by the clock, of which the models
  have none. An empty bucket is an outcome any delivery (`Begin`) or reply
  (`CheckWindow`) may meet.
* The signature check and the parsing of forms: `Ingest` starts from a form that passed
  them. The correlation id of an event is its key; `voice_status` draws a fresh one
  although `status.py:253-258` speaks of one id per call, and nothing but the logs
  reads it.
* The queues are separate modules. `Ingest` sees delivery through `DeliveryQueue`, and
  delivery sees the two consumers through
  `GateOpens`; the scans of the enrichment and reply consumers may also skip a
  `comm_events` row the other one has locked for the length of a claim, which
  only delays it to the next poll.
* Time: leases and back-offs end at some point, not after some number of
  seconds; so neither the back-off schedule nor `Retry-After` is checked.
* Nothing is checked about the residual race of two workers on one caller's log, which the code
  documents as accepted (`transform.py`, `build_hubspot_properties`): the run that checks the log has one worker,
  and the theorems say which condition makes the log safe.
* `ORDER BY updated_at DESC` in the two lookups by number: the model may take any row of
  the caller. `OneRecordEach` therefore only promises that a further ticket needs an
  earlier closed one, where README.md:236 means the latest.
* The order of answers to one person, which README.md:376 and `whatsapp_reply.py:313-314` are concerned
  with: the messages of the reply model are of different people.
* `GateOpens` does not close again. The claims of the intelligence layer pass
  final rows over, so only one of several workers that outlives its lease could reopen one
  (`GateNeverCloses`, `ResultIsFinal`).
* Whether a text is a deferral when the output guard has replaced it: its fallback is sent with the flag of the
  text it replaces (`whatsapp_reply.py:285-295`), and the model's flag is that one.
* Several worker coroutines in one reply process
  (`WHATSAPP_REPLY_CONCURRENCY > 1`): like several processes, except that they
  crash together and sweep once.
* Search, dashboard views, contracts, configuration, scripts, the Azure stub:
  no state of their own.

## The plan

Done: `DeliveryWorker` with its abstract queue, `WhatsAppReply`, `Enrichment`,
`Ingest` on top of that queue, the refinements, and a theorem for every safety property of the
passing runs. What is left, in this order:

1. The follow-up task: reply, sweep and the delivery worker's task phase
   together, and the order of answers to one person. `DeferralKept` is its first half.
2. The gate: `GateOpens` replaced by the steps of the two consumers, so that *what is
   stored is delivered* is one property from the webhook to HubSpot.
3. What holds of enrichment when several coroutines outlive their leases, stated and proved
   like `TextsAreBounded`: how many transcripts a stale claim can cost.
4. `TokenBucket` under concurrent callers, and the operators of `transform.py`.
