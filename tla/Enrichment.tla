------------------------------ MODULE Enrichment ------------------------------
(***************************************************************************)
(* The enrichment consumer (intelligence_layer/consumer.py, enrichment.py, *)
(* transcription.py) and the embedding consumer (embedding.py), which work *)
(* on the same rows of the table enrichments.                              *)
(*                                                                         *)
(* One step is one await: a transaction, a status UPDATE, a call to OpenAI *)
(* with its retries, or the download and transcription of a recording.     *)
(* enricher and embedder are the coroutines of both consumers, in one      *)
(* process or in several.                                                  *)
(***************************************************************************)
EXTENDS Naturals, Sequences

CONSTANTS
  Events,            \* ids of the events to enrich, numbered in created_at order
  Recordings,        \* those of type recording.ready
  NoText,            \* texts with an empty body
  Enrichers,         \* worker coroutines of the enrichment consumer
  Embedders,         \* worker coroutines of the embedding consumer
  LeaseOutlivesWork, \* whether enrich_event always ends within ENRICHMENT_LEASE_SECONDS
  MaxFaults          \* bound on crashes and on awaits that raise

NULL == 0

ASSUME ConstantsOK ==
  /\ Events \subseteq Nat \ {NULL}
  /\ Recordings \subseteq Events /\ NoText \subseteq Events \ Recordings
  /\ LeaseOutlivesWork \in BOOLEAN
  /\ MaxFaults \in Nat

VARIABLES
  row,         \* enrichments: status, whether updated_at is within the lease, embedding_status
  transcripts, \* for each event its transcripts, oldest first: whether each one has text
  embeddings,  \* how many embeddings each event has
  enricher,    \* the event each enrichment coroutine works on and whether it knows its transcript
  embedder,    \* the event each embedding coroutine works on
  heard,       \* how often OpenAI has transcribed each event, as it bills them
  aiEnabled,   \* app_settings.ai_enabled
  faults

tables == <<row, transcripts, embeddings, heard>>   \* what outlives a coroutine
vars   == <<tables, enricher, embedder, aiEnabled, faults>>

Final       == {"completed", "failed", "skipped"}
Row         == [status    : {"none", "processing"} \cup Final,
                fresh     : BOOLEAN,
                embedding : {"pending", "processing", "completed", "failed"}]
EnricherPC  == {"poll", "scan", "claim", "switch", "whisper", "saveText", "saveSilence",
                "gpt", "complete", "fail", "skip"}
EmbedderPC  == {"poll", "claim", "embed", "store", "markFailed"}
Enricher    == [pc : EnricherPC, event : Events \cup {NULL}, text : BOOLEAN]
Embedder    == [pc : EmbedderPC, event : Events \cup {NULL}]

Idle  == [pc |-> "poll", event |-> NULL, text |-> FALSE]
Empty == [pc |-> "poll", event |-> NULL]

Init ==
  /\ row = [e \in Events |-> [status |-> "none", fresh |-> FALSE, embedding |-> "pending"]]
  /\ transcripts = [e \in Events |-> <<>>]
  /\ embeddings = [e \in Events |-> 0]
  /\ heard = [e \in Events |-> 0]
  /\ enricher = [w \in Enrichers |-> Idle]
  /\ embedder = [v \in Embedders |-> Empty]
  /\ aiEnabled \in BOOLEAN
  /\ faults = 0

At(w, pc)    == enricher[w].pc = pc
Goto(w, pc)  == enricher' = [enricher EXCEPT ![w].pc = pc]
Back(w)      == enricher' = [enricher EXCEPT ![w] = Idle]
MyEvent(w)   == enricher[w].event

(***************************************************************************)
(* consumer.py: the poll loop and its claim.  The scan reads a snapshot    *)
(* and skips rows another claim has locked; the upsert looks again.        *)
(***************************************************************************)
CheckSwitch(w) ==
  /\ At(w, "poll") /\ aiEnabled
  /\ Goto(w, "scan")
  /\ UNCHANGED <<tables, embedder, aiEnabled, faults>>

Claimable_New(e) ==       \* a mutant: a stale row is never claimed again
  row[e].status = "none"

Claimable_AnyStale(e) ==  \* a mutant: every row past the lease is claimed again
  row[e].status = "none" \/ ~row[e].fresh

Claimable(e) == row[e].status = "none" \/ (row[e].status = "processing" /\ ~row[e].fresh)

HasTranscript(e) ==       \* the latest one counts
  transcripts[e] # <<>> /\ transcripts[e][Len(transcripts[e])]

Locked(e) == \E v \in Enrichers : At(v, "claim") /\ MyEvent(v) = e

Scan_NoTranscript(w) ==   \* a mutant: transcripts are not joined
  /\ At(w, "scan")
  /\ \/ (\A e \in Events : Claimable(e) => Locked(e)) /\ Back(w)
     \/ \E e \in Events :
          /\ Claimable(e)
          /\ \A f \in Events : Claimable(f) /\ f < e => Locked(f)
          /\ enricher' = [enricher EXCEPT ![w] = [pc |-> "claim", event |-> e, text |-> FALSE]]
  /\ UNCHANGED <<tables, embedder, aiEnabled, faults>>

Scan_NoneIsClaimed(w) ==  \* a mutant: an empty result is not noticed
  /\ At(w, "scan") /\ Goto(w, "claim")
  /\ UNCHANGED <<tables, embedder, aiEnabled, faults>>

Scan(w) ==
  /\ At(w, "scan")
  /\ \/ (\A e \in Events : Claimable(e) => Locked(e)) /\ Back(w)
     \/ \E e \in Events :
          /\ Claimable(e)
          /\ \A f \in Events : Claimable(f) /\ f < e => Locked(f)
          /\ enricher' = [enricher EXCEPT ![w] =
                            [pc |-> "claim", event |-> e, text |-> HasTranscript(e)]]
  /\ UNCHANGED <<tables, embedder, aiEnabled, faults>>

(* What enrich_event does first with the event it is given. *)
Content(m) == IF m.event \in Recordings THEN m.text ELSE m.event \notin NoText
FirstStep(m) ==
  IF m.event \in Recordings /\ ~m.text THEN "switch"
  ELSE IF Content(m) THEN "gpt" ELSE "skip"

Claim(w) ==
  /\ At(w, "claim")
  /\ IF Claimable(MyEvent(w))
     THEN /\ row' = [row EXCEPT ![MyEvent(w)].status = "processing", ![MyEvent(w)].fresh = TRUE]
          /\ Goto(w, FirstStep(enricher[w]))
     ELSE Back(w) /\ UNCHANGED row
  /\ UNCHANGED <<transcripts, embeddings, heard, embedder, aiEnabled, faults>>

LeaseExpires(e) ==
  /\ row[e].fresh
  /\ LeaseOutlivesWork => \A w \in Enrichers : MyEvent(w) # e
  /\ row' = [row EXCEPT ![e].fresh = FALSE]
  /\ UNCHANGED <<transcripts, embeddings, heard, enricher, embedder, aiEnabled, faults>>

(***************************************************************************)
(* transcribe_recording_for_event: whatever goes wrong in it, the event    *)
(* has no content then and is skipped.                                     *)
(***************************************************************************)
ReadSwitch(w) ==
  /\ At(w, "switch")
  /\ Goto(w, IF aiEnabled THEN "whisper" ELSE "skip")
  /\ UNCHANGED <<tables, embedder, aiEnabled, faults>>

Hears(w) == heard' = [heard EXCEPT ![MyEvent(w)] = @ + 1]

Whisper_Unsaved(w) ==     \* a mutant: the transcript is used before it is saved
  /\ At(w, "whisper")
  /\ Hears(w)
  /\ \E pc \in {"gpt", "skip"} : Goto(w, pc)
  /\ UNCHANGED <<row, transcripts, embeddings, embedder, aiEnabled, faults>>

Whisper_Raises(w) ==      \* a mutant: a call that fails is not absorbed, the claim runs out
  /\ At(w, "whisper")
  /\ \/ Hears(w) /\ \E pc \in {"saveText", "saveSilence"} : Goto(w, pc)
     \/ (Hears(w) \/ UNCHANGED heard) /\ Back(w)
  /\ UNCHANGED <<row, transcripts, embeddings, embedder, aiEnabled, faults>>

(* A download or a call that fails may have been billed or not. *)
Whisper(w) ==
  /\ At(w, "whisper")
  /\ \/ Hears(w) /\ \E pc \in {"saveText", "saveSilence"} : Goto(w, pc)
     \/ (Hears(w) \/ UNCHANGED heard) /\ Goto(w, "skip")
  /\ UNCHANGED <<row, transcripts, embeddings, embedder, aiEnabled, faults>>

Saving(w) == enricher[w].pc \in {"saveText", "saveSilence"}

AddTranscript(w) ==
  transcripts' = [transcripts EXCEPT ![MyEvent(w)] = Append(@, At(w, "saveText"))]

(* ON CONFLICT DO NOTHING has no constraint to conflict with. *)
SaveTranscript(w) ==
  /\ Saving(w)
  /\ AddTranscript(w)
  /\ IF At(w, "saveText")
     THEN enricher' = [enricher EXCEPT ![w].text = TRUE, ![w].pc = "gpt"]
     ELSE Goto(w, "skip")
  /\ UNCHANGED <<row, embeddings, heard, embedder, aiEnabled, faults>>

(* The INSERT raises, carried out or not. *)
SaveRaises(w) ==
  /\ Saving(w)
  /\ faults < MaxFaults
  /\ faults' = faults + 1
  /\ AddTranscript(w) \/ UNCHANGED transcripts
  /\ Goto(w, "skip")
  /\ UNCHANGED <<row, embeddings, heard, embedder, aiEnabled>>

CallGpt(w) ==
  /\ At(w, "gpt")
  /\ Goto(w, "complete") \/ Goto(w, "fail")
  /\ UNCHANGED <<tables, embedder, aiEnabled, faults>>

(* _update_enrichment: no condition on who works on the row or its status. *)
UpdateEnrichment(w, pc, st) ==
  /\ At(w, pc)
  /\ row' = [row EXCEPT ![MyEvent(w)].status = st, ![MyEvent(w)].fresh = FALSE]
  /\ Back(w)
  /\ UNCHANGED <<transcripts, embeddings, heard, embedder, aiEnabled, faults>>

Complete(w) == UpdateEnrichment(w, "complete", "completed")
Fail(w)     == UpdateEnrichment(w, "fail", "failed")
Skip(w)     == UpdateEnrichment(w, "skip", "skipped")

(* The process dies, or an await raises and _worker polls on; a call to    *)
(* OpenAI that is under way is answered or not.                            *)
Abandon(w) ==
  /\ ~At(w, "poll")
  /\ faults < MaxFaults
  /\ faults' = faults + 1
  /\ (At(w, "whisper") /\ Hears(w)) \/ UNCHANGED heard
  /\ Back(w)
  /\ UNCHANGED <<row, transcripts, embeddings, embedder, aiEnabled>>

(***************************************************************************)
(* embedding.py: a claim without a lease, one call, one transaction.       *)
(***************************************************************************)
EmbedAt(v, pc)   == embedder[v].pc = pc
EmbedGoto(v, pc) == embedder' = [embedder EXCEPT ![v].pc = pc]
EmbedBack(v)     == embedder' = [embedder EXCEPT ![v] = Empty]

EmbedSwitch(v) ==
  /\ EmbedAt(v, "poll") /\ aiEnabled
  /\ EmbedGoto(v, "claim")
  /\ UNCHANGED <<tables, enricher, aiEnabled, faults>>

EmbedClaim_NoMark(v) ==    \* a mutant: the claim leaves the row pending
  /\ EmbedAt(v, "claim")
  /\ \E e \in Events :
       /\ row[e].status = "completed" /\ row[e].embedding = "pending"
       /\ embedder' = [embedder EXCEPT ![v] = [pc |-> "embed", event |-> e]]
  /\ UNCHANGED <<tables, enricher, aiEnabled, faults>>

EmbedClaim_AnyStatus(v) == \* a mutant: the enrichment's status is not asked
  /\ EmbedAt(v, "claim")
  /\ \E e \in Events :
       /\ row[e].status # "none" /\ row[e].embedding = "pending"
       /\ row' = [row EXCEPT ![e].embedding = "processing"]
       /\ embedder' = [embedder EXCEPT ![v] = [pc |-> "embed", event |-> e]]
  /\ UNCHANGED <<transcripts, embeddings, heard, enricher, aiEnabled, faults>>

(* The lock is on the enrichments row itself, so scan and mark are one step. *)
EmbedClaim(v) ==
  /\ EmbedAt(v, "claim")
  /\ LET ready == {e \in Events : row[e].status = "completed" /\ row[e].embedding = "pending"}
     IN \/ ready = {} /\ EmbedBack(v) /\ UNCHANGED row
        \/ \E e \in ready :   \* ORDER BY enrichments.created_at is left open
             /\ row' = [row EXCEPT ![e].embedding = "processing"]
             /\ embedder' = [embedder EXCEPT ![v] = [pc |-> "embed", event |-> e]]
  /\ UNCHANGED <<transcripts, embeddings, heard, enricher, aiEnabled, faults>>

Embed(v) ==
  /\ EmbedAt(v, "embed")
  /\ EmbedGoto(v, "store") \/ EmbedGoto(v, "markFailed")
  /\ UNCHANGED <<tables, enricher, aiEnabled, faults>>

Store(v) ==
  /\ EmbedAt(v, "store")
  /\ embeddings' = [embeddings EXCEPT ![embedder[v].event] = @ + 1]
  /\ row' = [row EXCEPT ![embedder[v].event].embedding = "completed"]
  /\ EmbedBack(v)
  /\ UNCHANGED <<transcripts, heard, enricher, aiEnabled, faults>>

MarkFailed(v) ==
  /\ EmbedAt(v, "markFailed")
  /\ row' = [row EXCEPT ![embedder[v].event].embedding = "failed"]
  /\ EmbedBack(v)
  /\ UNCHANGED <<transcripts, embeddings, heard, enricher, aiEnabled, faults>>

EmbedAbandon(v) ==
  /\ ~EmbedAt(v, "poll")
  /\ faults < MaxFaults
  /\ faults' = faults + 1
  /\ EmbedBack(v)
  /\ UNCHANGED <<tables, enricher, aiEnabled>>

ToggleSwitch ==
  /\ aiEnabled' = ~aiEnabled
  /\ UNCHANGED <<tables, enricher, embedder, faults>>

-----------------------------------------------------------------------------
EnricherStep(w) ==
  \/ CheckSwitch(w) \/ Scan(w) \/ Claim(w)
  \/ ReadSwitch(w) \/ Whisper(w) \/ SaveTranscript(w) \/ CallGpt(w)
  \/ Complete(w) \/ Fail(w) \/ Skip(w)

EmbedderStep(v) ==
  EmbedSwitch(v) \/ EmbedClaim(v) \/ Embed(v) \/ Store(v) \/ MarkFailed(v)

Next ==
  \/ \E w \in Enrichers : EnricherStep(w) \/ SaveRaises(w) \/ Abandon(w)
  \/ \E v \in Embedders : EmbedderStep(v) \/ EmbedAbandon(v)
  \/ \E e \in Events : LeaseExpires(e)
  \/ ToggleSwitch

Spec == Init /\ [][Next]_vars

(* The poll loops go on, every call ends, and leases run out. *)
FairSpec ==
  /\ Spec
  /\ \A w \in Enrichers : WF_vars(EnricherStep(w))
  /\ \A v \in Embedders : WF_vars(EmbedderStep(v))
  /\ \A e \in Events : WF_vars(LeaseExpires(e))

-----------------------------------------------------------------------------
(***************************************************************************)
(* Properties.                                                             *)
(***************************************************************************)

(* Every variable stays in its domain, a coroutine has an event exactly    *)
(* between its claim and its last UPDATE, and only rows in progress have a *)
(* lease.                                                                  *)
TypeOK ==
  /\ row \in [Events -> Row]
  /\ transcripts \in [Events -> Seq(BOOLEAN)]
  /\ embeddings \in [Events -> Nat]
  /\ heard \in [Events -> Nat]
  /\ enricher \in [Enrichers -> Enricher]
  /\ embedder \in [Embedders -> Embedder]
  /\ aiEnabled \in BOOLEAN
  /\ faults \in 0 .. MaxFaults
  /\ \A w \in Enrichers : enricher[w].pc \in {"poll", "scan"} <=> MyEvent(w) = NULL
  /\ \A v \in Embedders : embedder[v].pc \in {"poll", "claim"} <=> embedder[v].event = NULL
  /\ \A e \in Events : row[e].fresh => row[e].status = "processing"

(* The delivery gate and the dashboard read a result once it is there: no  *)
(* late coroutine or second claim replaces a final status by another.      *)
ResultStays ==
  [][\A e \in Events : row[e].status \in Final => row'[e].status = row[e].status]_vars

(* A completed enrichment of a call is never ahead of its transcript: what *)
(* GPT-4o was shown is in the table.                                       *)
CompletedHasTranscript ==
  \A e \in Recordings :
    row[e].status = "completed" => \E i \in DOMAIN transcripts[e] : transcripts[e][i]

(* A recording has at most one saved transcript with text, although the    *)
(* table has no unique key for ON CONFLICT DO NOTHING to refer to: whoever *)
(* claims it after a crash either finds the text or knows there is none.   *)
TranscribedOnce ==
  \A e \in Recordings : \A i, j \in DOMAIN transcripts[e] :
    transcripts[e][i] /\ transcripts[e][j] => i = j

(* OpenAI is only paid a second time for a recording that a crash or a     *)
(* raising await has left unfinished: what ended without a fault, a        *)
(* silent recording or a failed call too, is not re-claimed and            *)
(* re-transcribed.                                                         *)
HeardAgainOnlyAfterFault ==
  \A e \in Events : heard[e] <= 1 + faults

(* One vector per event, and embedding_status says whether it is there,    *)
(* although the table embeddings has no unique key.                        *)
EmbeddedOnce ==
  \A e \in Events : embeddings[e] = IF row[e].embedding = "completed" THEN 1 ELSE 0

(* Search only finds events whose enrichment is completed and stays so.    *)
EmbeddedIsCompleted ==
  \A e \in Events : row[e].embedding # "pending" => row[e].status = "completed"

(* Unless the switch is turned off again and again, every event gets a     *)
(* final status, and with it its turn in the delivery worker.              *)
EnrichmentEnds ==
  <>[]aiEnabled => \A e \in Events : <>(row[e].status \in Final)

(* embed_event: "we never end up with [...] a stuck 'processing' status".  *)
EmbeddingEnds ==
  <>[]aiEnabled =>
    \A e \in Events : row[e].embedding = "processing" ~> row[e].embedding \in {"completed", "failed"}
=============================================================================
