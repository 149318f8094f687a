--------------------------- MODULE EnrichmentProofs ---------------------------
(***************************************************************************)
(* TLAPS proofs about the enrichment and the embedding consumer, for every *)
(* set of events and coroutines.  Type correctness, the transcript behind  *)
(* a completed call and the single embedding hold as they are; that a      *)
(* result stays, that what is embedded is completed, that a recording has  *)
(* one transcript and that OpenAI is paid again only after a fault hold    *)
(* when a lease outlives the work done under it, or when one coroutine     *)
(* does all of it.                                                         *)
(***************************************************************************)
EXTENDS Enrichment, TLAPS

Working(w) == enricher[w].pc \notin {"poll", "scan", "claim"}
Holding(v) == embedder[v].pc \in {"embed", "store", "markFailed"}

(* What the moves of a coroutine do, for use in every proof below. *)
LEMMA GotoMoves ==
  ASSUME TypeOK, NEW w \in Enrichers, NEW pc \in EnricherPC, Goto(w, pc),
         pc \in {"poll", "scan"} <=> enricher[w].pc \in {"poll", "scan"}
  PROVE  /\ enricher' \in [Enrichers -> Enricher]
         /\ \A x \in Enrichers : enricher'[x].pc \in {"poll", "scan"} <=> enricher'[x].event = NULL
         /\ enricher'[w].pc = pc /\ enricher'[w].event = enricher[w].event
         /\ enricher'[w].text = enricher[w].text
         /\ \A x \in Enrichers \ {w} : enricher'[x] = enricher[x]
  BY DEF TypeOK, MyEvent, Goto, Enricher

LEMMA BackMoves ==
  ASSUME TypeOK, NEW w \in Enrichers, Back(w)
  PROVE  /\ enricher' \in [Enrichers -> Enricher]
         /\ \A x \in Enrichers : enricher'[x].pc \in {"poll", "scan"} <=> enricher'[x].event = NULL
         /\ enricher'[w].pc = "poll" /\ enricher'[w].event = NULL /\ enricher'[w].text = FALSE
         /\ \A x \in Enrichers \ {w} : enricher'[x] = enricher[x]
<1>1. Idle \in Enricher /\ Idle.pc = "poll" /\ Idle.event = NULL /\ Idle.text = FALSE
  BY DEF Idle, Enricher, EnricherPC
<1> QED BY <1>1 DEF TypeOK, MyEvent, Back

LEMMA EmbedGotoMoves ==
  ASSUME TypeOK, NEW v \in Embedders, NEW pc \in EmbedderPC, EmbedGoto(v, pc),
         pc \in {"poll", "claim"} <=> embedder[v].pc \in {"poll", "claim"}
  PROVE  /\ embedder' \in [Embedders -> Embedder]
         /\ \A x \in Embedders : embedder'[x].pc \in {"poll", "claim"} <=> embedder'[x].event = NULL
         /\ embedder'[v].pc = pc /\ embedder'[v].event = embedder[v].event
         /\ \A x \in Embedders \ {v} : embedder'[x] = embedder[x]
  BY DEF TypeOK, EmbedGoto, Embedder

LEMMA EmbedBackMoves ==
  ASSUME TypeOK, NEW v \in Embedders, EmbedBack(v)
  PROVE  /\ embedder' \in [Embedders -> Embedder]
         /\ \A x \in Embedders : embedder'[x].pc \in {"poll", "claim"} <=> embedder'[x].event = NULL
         /\ embedder'[v].pc = "poll" /\ embedder'[v].event = NULL
         /\ \A x \in Embedders \ {v} : embedder'[x] = embedder[x]
<1>1. Empty \in Embedder /\ Empty.pc = "poll" /\ Empty.event = NULL
  BY DEF Empty, Embedder, EmbedderPC
<1> QED BY <1>1 DEF TypeOK, EmbedBack

LEMMA HasEvent ==
  ASSUME TypeOK
  PROVE  /\ \A w \in Enrichers : enricher[w].pc \notin {"poll", "scan"} => enricher[w].event \in Events
         /\ \A v \in Embedders : Holding(v) => embedder[v].event \in Events
<1>1. ASSUME NEW w \in Enrichers, enricher[w].pc \notin {"poll", "scan"}
      PROVE  enricher[w].event \in Events
  BY <1>1 DEF TypeOK, Enricher, MyEvent
<1>2. ASSUME NEW v \in Embedders, Holding(v) PROVE embedder[v].event \in Events
  BY <1>2 DEF TypeOK, Embedder, Holding
<1> QED BY <1>1, <1>2

(* The scan of the claim and the claim of the embedding pick up an event.  *)
LEMMA ScanMoves ==
  ASSUME TypeOK, NEW w \in Enrichers, Scan(w)
  PROVE  /\ enricher' \in [Enrichers -> Enricher]
         /\ \A x \in Enrichers : enricher'[x].pc \in {"poll", "scan"} <=> enricher'[x].event = NULL
         /\ \A x \in Enrichers \ {w} : enricher'[x] = enricher[x]
         /\ \/ enricher'[w].pc = "poll" /\ enricher'[w].text = FALSE
            \/ /\ enricher'[w].pc = "claim" /\ enricher'[w].event \in Events
               /\ enricher'[w].text = HasTranscript(enricher'[w].event)
<1>1. CASE Back(w) BY <1>1, BackMoves
<1>2. ASSUME NEW e \in Events,
             enricher' = [enricher EXCEPT ![w] = [pc |-> "claim", event |-> e, text |-> HasTranscript(e)]]
      PROVE  /\ enricher' \in [Enrichers -> Enricher]
             /\ \A x \in Enrichers : enricher'[x].pc \in {"poll", "scan"} <=> enricher'[x].event = NULL
             /\ \A x \in Enrichers \ {w} : enricher'[x] = enricher[x]
             /\ enricher'[w].pc = "claim" /\ enricher'[w].event = e
             /\ enricher'[w].text = HasTranscript(e)
  <2>1. e # NULL BY ConstantsOK DEF ConstantsOK
  <2>2. HasTranscript(e) \in BOOLEAN
    <3>1. transcripts[e] \in Seq(BOOLEAN) BY DEF TypeOK
    <3>2. CASE transcripts[e] = <<>> BY <3>2 DEF HasTranscript
    <3>3. CASE transcripts[e] # <<>>
      <4>1. transcripts[e][Len(transcripts[e])] \in BOOLEAN BY <3>1, <3>3
      <4> QED BY <3>3, <4>1 DEF HasTranscript
    <3> QED BY <3>2, <3>3
  <2> DEFINE b == HasTranscript(e)
             m == [pc |-> "claim", event |-> e, text |-> b]
  <2>3. enricher' = [enricher EXCEPT ![w] = m] BY <1>2
  <2>4. b \in BOOLEAN BY <2>2
  <2> HIDE DEF b
  <2>5. m \in Enricher /\ m.pc = "claim" /\ m.event = e /\ m.text = b
    BY <2>4 DEF Enricher, EnricherPC
  <2> HIDE DEF m
  <2>6. enricher'[w] = m /\ \A x \in Enrichers \ {w} : enricher'[x] = enricher[x]
    BY <2>3 DEF TypeOK
  <2>7. enricher' \in [Enrichers -> Enricher] BY <2>3, <2>5 DEF TypeOK
  <2>8. \A x \in Enrichers : enricher'[x].pc \in {"poll", "scan"} <=> enricher'[x].event = NULL
    BY <2>1, <2>5, <2>6 DEF TypeOK, MyEvent
  <2>9. enricher'[w].text = HasTranscript(e) BY <2>5, <2>6 DEF b
  <2> QED BY <2>5, <2>6, <2>7, <2>8, <2>9
<1> QED BY <1>1, <1>2 DEF Scan

LEMMA EmbedClaimMoves ==
  ASSUME TypeOK, NEW v \in Embedders, NEW e \in Events,
         embedder' = [embedder EXCEPT ![v] = [pc |-> "embed", event |-> e]]
  PROVE  /\ embedder' \in [Embedders -> Embedder]
         /\ \A x \in Embedders : embedder'[x].pc \in {"poll", "claim"} <=> embedder'[x].event = NULL
         /\ embedder'[v].pc = "embed" /\ embedder'[v].event = e
         /\ \A x \in Embedders \ {v} : embedder'[x] = embedder[x]
<1> DEFINE m == [pc |-> "embed", event |-> e]
<1>1. m \in Embedder /\ m.pc = "embed" /\ m.event = e BY DEF Embedder, EmbedderPC
<1>2. e # NULL BY ConstantsOK DEF ConstantsOK
<1> HIDE DEF m
<1>3. embedder' = [embedder EXCEPT ![v] = m] BY DEF m
<1> QED BY <1>1, <1>2, <1>3 DEF TypeOK

(* What a claim or a status UPDATE does to the row of one event. *)
LEMMA RowMoves ==
  ASSUME TypeOK, NEW e \in Events, NEW st \in {"processing"} \cup Final, NEW f \in BOOLEAN,
         row' = [row EXCEPT ![e].status = st, ![e].fresh = f], f => st = "processing"
  PROVE  /\ row' \in [Events -> Row]
         /\ \A g \in Events : row'[g].fresh => row'[g].status = "processing"
         /\ row'[e].status = st /\ row'[e].fresh = f /\ row'[e].embedding = row[e].embedding
         /\ \A g \in Events \ {e} : row'[g] = row[g]
  BY DEF TypeOK, Row, Final

LEMMA EmbeddingMoves ==
  ASSUME TypeOK, NEW e \in Events, NEW st \in {"processing", "completed", "failed"},
         row' = [row EXCEPT ![e].embedding = st]
  PROVE  /\ row' \in [Events -> Row]
         /\ \A g \in Events : row'[g].status = row[g].status /\ row'[g].fresh = row[g].fresh
         /\ row'[e].embedding = st
         /\ \A g \in Events \ {e} : row'[g] = row[g]
  BY DEF TypeOK, Row

LEMMA ExpiryMoves ==
  ASSUME TypeOK, NEW e \in Events, row' = [row EXCEPT ![e].fresh = FALSE]
  PROVE  /\ row' \in [Events -> Row]
         /\ \A g \in Events : row'[g].status = row[g].status /\ row'[g].embedding = row[g].embedding
         /\ \A g \in Events : row'[g].fresh => row[g].fresh
         /\ \A g \in Events \ {e} : row'[g] = row[g]
  BY DEF TypeOK, Row

LEMMA TranscriptMoves ==
  ASSUME TypeOK, NEW w \in Enrichers, Saving(w), AddTranscript(w)
  PROVE  /\ MyEvent(w) \in Events
         /\ transcripts' \in [Events -> Seq(BOOLEAN)]
         /\ transcripts'[MyEvent(w)] = Append(transcripts[MyEvent(w)], At(w, "saveText"))
         /\ \A g \in Events \ {MyEvent(w)} : transcripts'[g] = transcripts[g]
<1>1. MyEvent(w) \in Events BY HasEvent DEF Saving, MyEvent
<1>2. At(w, "saveText") \in BOOLEAN BY DEF At
<1> DEFINE b == At(w, "saveText")
           e == MyEvent(w)
<1>3. transcripts' = [transcripts EXCEPT ![e] = Append(transcripts[e], b)] BY DEF AddTranscript
<1>4. b \in BOOLEAN /\ e \in Events BY <1>1, <1>2
<1> HIDE DEF b, e
<1>5. transcripts \in [Events -> Seq(BOOLEAN)] BY DEF TypeOK
<1>6. Append(transcripts[e], b) \in Seq(BOOLEAN) BY <1>4, <1>5
<1>7. /\ transcripts' \in [Events -> Seq(BOOLEAN)]
      /\ transcripts'[e] = Append(transcripts[e], b)
      /\ \A g \in Events \ {e} : transcripts'[g] = transcripts[g]
  BY <1>3, <1>4, <1>5, <1>6
<1> QED BY <1>4, <1>7 DEF b, e

LEMMA WhisperMoves ==
  ASSUME TypeOK, NEW w \in Enrichers, Whisper(w)
  PROVE  /\ UNCHANGED <<row, transcripts, embeddings, embedder, aiEnabled, faults>>
         /\ enricher[w].pc = "whisper" /\ enricher[w].event \in Events
         /\ \E pc \in {"saveText", "saveSilence", "skip"} : Goto(w, pc)
         /\ Hears(w) \/ UNCHANGED heard
<1>1. enricher[w].pc = "whisper" BY DEF Whisper, At
<1>2. enricher[w].event \in Events BY <1>1, HasEvent
<1> QED BY <1>1, <1>2 DEF Whisper

LEMMA HearsMoves ==
  ASSUME TypeOK, NEW w \in Enrichers, Hears(w), enricher[w].event \in Events
  PROVE  /\ heard' \in [Events -> Nat]
         /\ heard'[enricher[w].event] = heard[enricher[w].event] + 1
         /\ \A g \in Events \ {enricher[w].event} : heard'[g] = heard[g]
<1>1. heard' = [heard EXCEPT ![enricher[w].event] = heard[enricher[w].event] + 1]
  BY DEF Hears, MyEvent
<1>2. heard \in [Events -> Nat] BY DEF TypeOK
<1> QED BY <1>1, <1>2

(***************************************************************************)
(* Type correctness.                                                       *)
(***************************************************************************)
LEMMA TypeInit == Init => TypeOK
<1> SUFFICES ASSUME Init PROVE TypeOK
  OBVIOUS
<1>1. Idle \in Enricher /\ Idle.pc = "poll" /\ Idle.event = NULL BY DEF Idle, Enricher, EnricherPC
<1>2. Empty \in Embedder /\ Empty.pc = "poll" /\ Empty.event = NULL BY DEF Empty, Embedder, EmbedderPC
<1>3. row \in [Events -> Row] /\ \A e \in Events : ~row[e].fresh BY DEF Init, Row
<1>4. /\ transcripts \in [Events -> Seq(BOOLEAN)] /\ embeddings \in [Events -> Nat]
      /\ heard \in [Events -> Nat]
  BY DEF Init
<1>5. faults \in 0 .. MaxFaults BY ConstantsOK DEF Init, ConstantsOK
<1> QED BY <1>1, <1>2, <1>3, <1>4, <1>5 DEF Init, TypeOK, MyEvent

LEMMA TypeStep == TypeOK /\ [Next]_vars => TypeOK'
<1> SUFFICES ASSUME TypeOK, [Next]_vars PROVE TypeOK'
  OBVIOUS
<1> USE DEF MyEvent
<1>1. ASSUME NEW w \in Enrichers, CheckSwitch(w) \/ ReadSwitch(w) \/ Whisper(w) \/ CallGpt(w)
      PROVE  TypeOK'
  <2>1. PICK pc \in EnricherPC : Goto(w, pc) /\ (pc \in {"poll", "scan"} <=> enricher[w].pc \in {"poll", "scan"})
    BY <1>1 DEF CheckSwitch, ReadSwitch, Whisper, CallGpt, At, EnricherPC
  <2>2. UNCHANGED <<row, transcripts, embeddings, embedder, faults>> /\ aiEnabled' = aiEnabled
    BY <1>1, WhisperMoves DEF CheckSwitch, ReadSwitch, CallGpt, tables
  <2>3. heard' \in [Events -> Nat]
    BY <1>1, WhisperMoves, HearsMoves DEF CheckSwitch, ReadSwitch, CallGpt, tables, TypeOK
  <2> QED BY <2>1, <2>2, <2>3, GotoMoves DEF TypeOK
<1>2. ASSUME NEW w \in Enrichers, Scan(w) PROVE TypeOK'
  BY <1>2, ScanMoves DEF Scan, TypeOK, tables
<1>3. ASSUME NEW w \in Enrichers, Claim(w) PROVE TypeOK'
  <2>0. enricher[w].pc = "claim" /\ enricher[w].event \in Events BY <1>3, HasEvent DEF Claim, At
  <2>1. FirstStep(enricher[w]) \in EnricherPC \ {"poll", "scan"} BY DEF FirstStep, EnricherPC
  <2>2. CASE Claimable(MyEvent(w))
    <3>1. Goto(w, FirstStep(enricher[w])) BY <1>3, <2>2 DEF Claim
    <3>2. row' = [row EXCEPT ![MyEvent(w)].status = "processing", ![MyEvent(w)].fresh = TRUE]
      BY <1>3, <2>2 DEF Claim
    <3>3. row' \in [Events -> Row] /\ \A e \in Events : row'[e].fresh => row'[e].status = "processing"
      BY <2>0, <3>2, RowMoves
    <3>4. /\ enricher' \in [Enrichers -> Enricher]
          /\ \A x \in Enrichers : enricher'[x].pc \in {"poll", "scan"} <=> enricher'[x].event = NULL
      BY <2>0, <2>1, <3>1, GotoMoves
    <3> QED BY <1>3, <3>3, <3>4 DEF Claim, TypeOK
  <2>3. CASE ~Claimable(MyEvent(w))
    <3>1. Back(w) /\ UNCHANGED row BY <1>3, <2>3 DEF Claim
    <3> QED BY <1>3, <3>1, BackMoves DEF Claim, TypeOK
  <2> QED BY <2>2, <2>3
<1>4. ASSUME NEW w \in Enrichers, SaveTranscript(w) PROVE TypeOK'
  <2>1. transcripts' \in [Events -> Seq(BOOLEAN)] BY <1>4, TranscriptMoves DEF SaveTranscript
  <2>2. /\ enricher' \in [Enrichers -> Enricher]
        /\ \A x \in Enrichers : enricher'[x].pc \in {"poll", "scan"} <=> enricher'[x].event = NULL
    <3>1. CASE At(w, "saveText")
      <4>1. enricher' = [enricher EXCEPT ![w].text = TRUE, ![w].pc = "gpt"]
        BY <1>4, <3>1 DEF SaveTranscript
      <4> QED BY <3>1, <4>1 DEF TypeOK, At, Enricher, EnricherPC
    <3>2. CASE ~At(w, "saveText")
      <4>1. Goto(w, "skip") /\ enricher[w].pc = "saveSilence"
        BY <1>4, <3>2 DEF SaveTranscript, Saving, At
      <4> QED BY <4>1, GotoMoves DEF EnricherPC
    <3> QED BY <3>1, <3>2
  <2> QED BY <1>4, <2>1, <2>2 DEF SaveTranscript, TypeOK
<1>5. ASSUME NEW w \in Enrichers, SaveRaises(w) PROVE TypeOK'
  <2>1. transcripts' \in [Events -> Seq(BOOLEAN)]
    BY <1>5, TranscriptMoves DEF SaveRaises, TypeOK
  <2>2. Goto(w, "skip") /\ enricher[w].pc \notin {"poll", "scan"} BY <1>5 DEF SaveRaises, Saving
  <2>3. /\ enricher' \in [Enrichers -> Enricher]
        /\ \A x \in Enrichers : enricher'[x].pc \in {"poll", "scan"} <=> enricher'[x].event = NULL
    BY <2>2, GotoMoves DEF EnricherPC
  <2>4. faults' \in 0 .. MaxFaults BY <1>5, ConstantsOK DEF SaveRaises, TypeOK, ConstantsOK
  <2> QED BY <1>5, <2>1, <2>3, <2>4 DEF SaveRaises, TypeOK
<1>6. ASSUME NEW w \in Enrichers, Complete(w) \/ Fail(w) \/ Skip(w) PROVE TypeOK'
  <2>1. PICK pc \in {"complete", "fail", "skip"}, st \in Final : UpdateEnrichment(w, pc, st)
    BY <1>6 DEF Complete, Fail, Skip, Final
  <2>2. enricher[w].event \in Events BY <2>1, HasEvent DEF UpdateEnrichment, At
  <2>3. row' \in [Events -> Row] /\ \A e \in Events : row'[e].fresh => row'[e].status = "processing"
    BY <2>1, <2>2, RowMoves DEF UpdateEnrichment
  <2> QED BY <2>1, <2>3, BackMoves DEF UpdateEnrichment, TypeOK
<1>7. ASSUME NEW w \in Enrichers, Abandon(w) PROVE TypeOK'
  <2>1. faults' \in 0 .. MaxFaults BY <1>7, ConstantsOK DEF Abandon, TypeOK, ConstantsOK
  <2>2. heard' \in [Events -> Nat] BY <1>7, HasEvent, HearsMoves DEF Abandon, At, TypeOK
  <2> QED BY <1>7, <2>1, <2>2, BackMoves DEF Abandon, TypeOK
<1>8. ASSUME NEW v \in Embedders, EmbedSwitch(v) \/ Embed(v) PROVE TypeOK'
  <2>1. PICK pc \in EmbedderPC : EmbedGoto(v, pc) /\ (pc \in {"poll", "claim"} <=> embedder[v].pc \in {"poll", "claim"})
    BY <1>8 DEF EmbedSwitch, Embed, EmbedAt, EmbedderPC
  <2>2. UNCHANGED <<tables, enricher, faults>> /\ aiEnabled' = aiEnabled BY <1>8 DEF EmbedSwitch, Embed
  <2> QED BY <2>1, <2>2, EmbedGotoMoves DEF TypeOK, tables
<1>9. ASSUME NEW v \in Embedders, EmbedClaim(v) PROVE TypeOK'
  <2>1. CASE EmbedBack(v) /\ UNCHANGED row
    BY <1>9, <2>1, EmbedBackMoves DEF EmbedClaim, TypeOK
  <2>2. ASSUME NEW e \in Events, row' = [row EXCEPT ![e].embedding = "processing"],
               embedder' = [embedder EXCEPT ![v] = [pc |-> "embed", event |-> e]]
        PROVE  TypeOK'
    <3>1. row' \in [Events -> Row] /\ \A g \in Events : row'[g].status = row[g].status /\ row'[g].fresh = row[g].fresh
      BY <2>2, EmbeddingMoves
    <3>2. \A g \in Events : row'[g].fresh => row'[g].status = "processing" BY <3>1 DEF TypeOK
    <3>3. /\ embedder' \in [Embedders -> Embedder]
          /\ \A x \in Embedders : embedder'[x].pc \in {"poll", "claim"} <=> embedder'[x].event = NULL
      BY <2>2, EmbedClaimMoves
    <3>4. UNCHANGED <<transcripts, embeddings, heard, enricher, aiEnabled, faults>> BY <1>9 DEF EmbedClaim
    <3> QED BY <3>1, <3>2, <3>3, <3>4 DEF TypeOK
  <2> QED BY <1>9, <2>1, <2>2 DEF EmbedClaim
<1>10. ASSUME NEW v \in Embedders, Store(v) \/ MarkFailed(v) PROVE TypeOK'
  <2>1. embedder[v].event \in Events BY <1>10, HasEvent DEF Store, MarkFailed, EmbedAt, Holding
  <2>2. PICK st \in {"completed", "failed"} : row' = [row EXCEPT ![embedder[v].event].embedding = st]
    BY <1>10 DEF Store, MarkFailed
  <2>3. row' \in [Events -> Row] /\ \A g \in Events : row'[g].status = row[g].status /\ row'[g].fresh = row[g].fresh
    BY <2>1, <2>2, EmbeddingMoves
  <2>4. embeddings' \in [Events -> Nat]
    <3>1. CASE Store(v)
      <4>1. embeddings[embedder[v].event] + 1 \in Nat BY <2>1 DEF TypeOK
      <4> QED BY <2>1, <3>1, <4>1 DEF Store, TypeOK
    <3>2. CASE MarkFailed(v) BY <3>2 DEF MarkFailed, TypeOK
    <3> QED BY <1>10, <3>1, <3>2
  <2>5. EmbedBack(v) /\ UNCHANGED <<transcripts, heard, enricher, aiEnabled, faults>>
    BY <1>10 DEF Store, MarkFailed
  <2>6. \A g \in Events : row'[g].fresh => row'[g].status = "processing" BY <2>3 DEF TypeOK
  <2> QED BY <2>3, <2>4, <2>5, <2>6, EmbedBackMoves DEF TypeOK
<1>11. ASSUME NEW v \in Embedders, EmbedAbandon(v) PROVE TypeOK'
  <2>1. faults' \in 0 .. MaxFaults BY <1>11, ConstantsOK DEF EmbedAbandon, TypeOK, ConstantsOK
  <2> QED BY <1>11, <2>1, EmbedBackMoves DEF EmbedAbandon, TypeOK, tables
<1>12. ASSUME NEW e \in Events, LeaseExpires(e) PROVE TypeOK'
  BY <1>12, ExpiryMoves DEF LeaseExpires, TypeOK
<1>13. CASE ToggleSwitch BY <1>13 DEF ToggleSwitch, TypeOK, tables
<1>14. CASE UNCHANGED vars BY <1>14 DEF vars, TypeOK, tables
<1> QED BY <1>1, <1>2, <1>3, <1>4, <1>5, <1>6, <1>7, <1>8, <1>9, <1>10, <1>11, <1>12, <1>13, <1>14
        DEF Next, EnricherStep, EmbedderStep

(* Type correctness of both consumers, whatever the leases do. *)
THEOREM TypeCorrect == Spec => []TypeOK
<1> QED BY TypeInit, TypeStep, PTL DEF Spec

-----------------------------------------------------------------------------
(***************************************************************************)
(* The transcript behind a completed call.  A coroutine that goes on to    *)
(* GPT-4o with a recording has saved its transcript or read it in the      *)
(* scan, and transcripts are only ever added.                              *)
(***************************************************************************)
HasText(e) == \E i \in DOMAIN transcripts[e] : transcripts[e][i]

KnowsText(w) == enricher[w].text \/ enricher[w].pc \in {"gpt", "complete"}

SavedInv ==
  /\ \A e \in Recordings : row[e].status = "completed" => HasText(e)
  /\ \A w \in Enrichers : enricher[w].event \in Recordings /\ KnowsText(w) => HasText(enricher[w].event)

LEMMA AppendKeepsText ==
  ASSUME TypeOK, NEW w \in Enrichers, Saving(w), AddTranscript(w)
  PROVE  /\ \A e \in Events : HasText(e) => HasText(e)'
         /\ \A e \in Events : e = MyEvent(w) /\ At(w, "saveText") => HasText(e)'
<1> DEFINE e == MyEvent(w)
           b == At(w, "saveText")
<1>1. /\ e \in Events /\ transcripts' \in [Events -> Seq(BOOLEAN)]
      /\ transcripts'[e] = Append(transcripts[e], b)
      /\ \A g \in Events \ {e} : transcripts'[g] = transcripts[g]
  BY TranscriptMoves
<1>2. transcripts[e] \in Seq(BOOLEAN) BY <1>1 DEF TypeOK
<1>3. b \in BOOLEAN BY DEF At
<1> HIDE DEF e, b
<1> DEFINE n == Len(transcripts[e])
<1>6. /\ n \in Nat /\ DOMAIN transcripts[e] = 1 .. n /\ DOMAIN transcripts'[e] = 1 .. (n + 1)
      /\ \A i \in 1 .. n : transcripts'[e][i] = transcripts[e][i]
      /\ transcripts'[e][n + 1] = b
  BY <1>1, <1>2, <1>3
<1>7. \A g \in Events : HasText(g) => \E i \in DOMAIN transcripts'[g] : transcripts'[g][i]
  <2>1. ASSUME HasText(e) PROVE \E i \in DOMAIN transcripts'[e] : transcripts'[e][i]
    <3>1. PICK i \in 1 .. n : transcripts[e][i] BY <1>6, <2>1 DEF HasText
    <3>2. i \in 1 .. (n + 1) BY <1>6
    <3> QED BY <1>6, <3>1, <3>2
  <2>2. \A g \in Events \ {e} : HasText(g) => \E i \in DOMAIN transcripts'[g] : transcripts'[g][i]
    BY <1>1 DEF HasText
  <2> QED BY <2>1, <2>2
<1>8. b => \E i \in DOMAIN transcripts'[e] : transcripts'[e][i]
  <2>1. n + 1 \in 1 .. (n + 1) BY <1>6
  <2> QED BY <1>6, <2>1
<1> QED BY <1>7, <1>8 DEF HasText, e, b

(* A coroutine that moves, or stops, without an effect on the tables. *)
LEMMA SavedMove ==
  ASSUME TypeOK, SavedInv, NEW w \in Enrichers, row' = row, transcripts' = transcripts,
         \A x \in Enrichers \ {w} : enricher'[x] = enricher[x],
         enricher'[w].event \in Recordings /\ (enricher'[w].text \/ enricher'[w].pc \in {"gpt", "complete"})
           => HasText(enricher'[w].event)
  PROVE  SavedInv'
  BY DEF SavedInv, HasText, KnowsText

(* A step that leaves the enrichment coroutines and the results alone.     *)
LEMMA SavedElsewhere ==
  ASSUME TypeOK, SavedInv, enricher' = enricher, transcripts' = transcripts,
         \A e \in Events : row'[e].status = row[e].status
  PROVE  SavedInv'
  BY ConstantsOK DEF SavedInv, HasText, KnowsText, ConstantsOK

LEMMA SavedStep == TypeOK /\ SavedInv /\ [Next]_vars => SavedInv'
<1> SUFFICES ASSUME TypeOK, SavedInv, [Next]_vars PROVE SavedInv'
  OBVIOUS
<1> USE DEF MyEvent
<1>0. Recordings \subseteq Events /\ NULL \notin Events BY ConstantsOK DEF ConstantsOK
<1>1. ASSUME NEW w \in Enrichers, CheckSwitch(w) \/ ReadSwitch(w) \/ Whisper(w) \/ CallGpt(w)
      PROVE  SavedInv'
  <2>1. PICK pc \in EnricherPC :
          /\ Goto(w, pc)
          /\ pc \in {"poll", "scan"} <=> enricher[w].pc \in {"poll", "scan"}
          /\ pc \in {"gpt", "complete"} => enricher[w].pc = "gpt"
    BY <1>1 DEF CheckSwitch, ReadSwitch, Whisper, CallGpt, At, EnricherPC
  <2>2. row' = row /\ transcripts' = transcripts
    BY <1>1, WhisperMoves DEF CheckSwitch, ReadSwitch, CallGpt, tables
  <2>3. /\ enricher'[w].pc = pc /\ enricher'[w].event = enricher[w].event
        /\ enricher'[w].text = enricher[w].text
        /\ \A x \in Enrichers \ {w} : enricher'[x] = enricher[x]
    BY <2>1, GotoMoves
  <2> QED BY <2>1, <2>2, <2>3, SavedMove DEF SavedInv, KnowsText
<1>2. ASSUME NEW w \in Enrichers, Scan(w) PROVE SavedInv'
  <2>1. row' = row /\ transcripts' = transcripts BY <1>2 DEF Scan, tables
  <2>2. \A e \in Events : HasTranscript(e) => HasText(e)
    <3>1. ASSUME NEW e \in Events, HasTranscript(e) PROVE HasText(e)
      <4>1. transcripts[e] \in Seq(BOOLEAN) /\ transcripts[e] # <<>> BY <3>1 DEF TypeOK, HasTranscript
      <4>2. Len(transcripts[e]) \in DOMAIN transcripts[e] BY <4>1
      <4> QED BY <3>1, <4>2 DEF HasTranscript, HasText
    <3> QED BY <3>1
  <2> QED BY <1>2, <2>1, <2>2, ScanMoves, SavedMove
<1>3. ASSUME NEW w \in Enrichers, Claim(w) PROVE SavedInv'
  <2>0. /\ enricher[w].pc = "claim" /\ enricher[w].event \in Events /\ transcripts' = transcripts
    BY <1>3, HasEvent DEF Claim, At
  <2>1. CASE Claimable(MyEvent(w))
    <3> DEFINE pc == FirstStep(enricher[w])
    <3>1. /\ pc \in EnricherPC \ {"poll", "scan", "complete"}
          /\ enricher[w].event \in Recordings /\ pc = "gpt" => enricher[w].text
      BY DEF FirstStep, Content, EnricherPC
    <3>2. /\ Goto(w, pc)
          /\ row' = [row EXCEPT ![enricher[w].event].status = "processing", ![enricher[w].event].fresh = TRUE]
      BY <1>3, <2>1 DEF Claim
    <3> HIDE DEF pc
    <3>3. /\ enricher'[w].pc = pc /\ enricher'[w].event = enricher[w].event
          /\ enricher'[w].text = enricher[w].text
          /\ \A x \in Enrichers \ {w} : enricher'[x] = enricher[x]
      BY <2>0, <3>1, <3>2, GotoMoves
    <3>4. \A e \in Events : row'[e].status = "completed" => row[e].status = "completed"
      BY <2>0, <3>2, RowMoves
    <3> QED BY <1>0, <2>0, <3>1, <3>3, <3>4 DEF SavedInv, KnowsText, HasText
  <2>2. CASE ~Claimable(MyEvent(w))
    <3>1. Back(w) /\ row' = row BY <1>3, <2>2 DEF Claim
    <3> QED BY <1>0, <2>0, <3>1, BackMoves, SavedMove
  <2> QED BY <2>1, <2>2
<1>4. ASSUME NEW w \in Enrichers, SaveTranscript(w) \/ SaveRaises(w) PROVE SavedInv'
  <2>1. Saving(w) /\ row' = row /\ enricher[w].event \in Events
    BY <1>4, HasEvent DEF SaveTranscript, SaveRaises, Saving
  <2>2. \A e \in Events : HasText(e) => HasText(e)'
    <3>1. CASE AddTranscript(w) BY <2>1, <3>1, AppendKeepsText
    <3>2. CASE transcripts' = transcripts BY <3>2 DEF HasText
    <3> QED BY <1>4, <3>1, <3>2 DEF SaveTranscript, SaveRaises
  <2>3. /\ \A x \in Enrichers \ {w} : enricher'[x] = enricher[x]
        /\ enricher'[w].event \in Events
        /\ enricher'[w].text \/ enricher'[w].pc \in {"gpt", "complete"} =>
             HasText(enricher[w].event)' \/ (enricher'[w].event = enricher[w].event /\ enricher[w].text)
        /\ enricher'[w].event = enricher[w].event
    <3>1. CASE SaveTranscript(w) /\ At(w, "saveText")
      <4>1. enricher' = [enricher EXCEPT ![w].text = TRUE, ![w].pc = "gpt"] BY <3>1 DEF SaveTranscript
      <4>2. \A e \in Events : e = enricher[w].event => HasText(e)'
        BY <2>1, <3>1, AppendKeepsText DEF SaveTranscript
      <4>3. /\ \A x \in Enrichers \ {w} : enricher'[x] = enricher[x]
            /\ enricher'[w].event = enricher[w].event
        BY <4>1 DEF TypeOK, Enricher
      <4>4. \E i \in DOMAIN transcripts'[enricher'[w].event] : transcripts'[enricher'[w].event][i]
        BY <2>1, <4>2, <4>3 DEF HasText
      <4> QED BY <2>1, <4>3, <4>4 DEF HasText
    <3>2. CASE ~(SaveTranscript(w) /\ At(w, "saveText"))
      <4>1. Goto(w, "skip") BY <1>4, <3>2 DEF SaveTranscript, SaveRaises
      <4>2. enricher[w].pc \notin {"poll", "scan"} BY <2>1 DEF Saving
      <4> QED BY <2>1, <4>1, <4>2, GotoMoves DEF EnricherPC
    <3> QED BY <3>1, <3>2
  <2> QED BY <1>0, <2>1, <2>2, <2>3 DEF SavedInv, KnowsText
<1>5. ASSUME NEW w \in Enrichers, Complete(w) \/ Fail(w) \/ Skip(w) PROVE SavedInv'
  <2>1. PICK pc \in {"complete", "fail", "skip"}, st \in Final :
          UpdateEnrichment(w, pc, st) /\ (st = "completed" => pc = "complete")
    BY <1>5 DEF Complete, Fail, Skip, Final
  <2>2. enricher[w].event \in Events /\ enricher[w].pc = pc /\ transcripts' = transcripts
    BY <2>1, HasEvent DEF UpdateEnrichment, At
  <2>3. row'[enricher[w].event].status = st /\ \A g \in Events \ {enricher[w].event} : row'[g] = row[g]
    BY <2>1, <2>2, RowMoves DEF UpdateEnrichment
  <2>4. enricher'[w].event = NULL /\ \A x \in Enrichers \ {w} : enricher'[x] = enricher[x]
    BY <2>1, BackMoves DEF UpdateEnrichment
  <2> QED BY <1>0, <2>1, <2>2, <2>3, <2>4 DEF SavedInv, KnowsText, HasText
<1>6. ASSUME NEW w \in Enrichers, Abandon(w) PROVE SavedInv'
  BY <1>0, <1>6, BackMoves, SavedMove DEF Abandon
<1>7. ASSUME NEW v \in Embedders, EmbedderStep(v) \/ EmbedAbandon(v) PROVE SavedInv'
  <2>1. enricher' = enricher /\ transcripts' = transcripts
    BY <1>7 DEF EmbedderStep, EmbedSwitch, EmbedClaim, Embed, Store, MarkFailed, EmbedAbandon, tables
  <2>2. row' = row \/ \E e \in Events, st \in {"processing", "completed", "failed"} :
                        row' = [row EXCEPT ![e].embedding = st]
    <3>1. Store(v) \/ MarkFailed(v) => embedder[v].event \in Events
      BY HasEvent DEF Store, MarkFailed, EmbedAt, Holding
    <3> QED BY <1>7, <3>1 DEF EmbedderStep, EmbedSwitch, EmbedClaim, Embed, Store, MarkFailed, EmbedAbandon, tables
  <2>3. \A e \in Events : row'[e].status = row[e].status BY <2>2, EmbeddingMoves
  <2> QED BY <2>1, <2>3, SavedElsewhere
<1>8. ASSUME NEW e \in Events, LeaseExpires(e) PROVE SavedInv'
  BY <1>8, ExpiryMoves, SavedElsewhere DEF LeaseExpires
<1>9. CASE ToggleSwitch BY <1>9, SavedElsewhere DEF ToggleSwitch, tables
<1>10. CASE UNCHANGED vars BY <1>10, SavedElsewhere DEF vars, tables
<1> QED BY <1>1, <1>2, <1>3, <1>4, <1>5, <1>6, <1>7, <1>8, <1>9, <1>10 DEF Next, EnricherStep

LEMMA SavedInit == Init => SavedInv
  BY ConstantsOK DEF Init, SavedInv, KnowsText, HasText, Idle, ConstantsOK

(* A call's completed enrichment has its transcript in the table.          *)
THEOREM TranscriptFirst == Spec => []CompletedHasTranscript
<1>1. SavedInv => CompletedHasTranscript BY DEF SavedInv, HasText, CompletedHasTranscript
<1> QED BY <1>1, TypeInit, TypeStep, SavedInit, SavedStep, PTL DEF Spec

-----------------------------------------------------------------------------
(***************************************************************************)
(* One embedding per event.  The claim has no lease: a row it has marked   *)
(* is in nobody else's hands, and what it is marked with is never 'pending'*)
(* again.                                                                  *)
(***************************************************************************)
EmbedInv ==
  /\ EmbeddedOnce
  /\ \A v \in Embedders : Holding(v) => row[embedder[v].event].embedding = "processing"
  /\ \A u, v \in Embedders : u # v /\ Holding(u) /\ Holding(v) => embedder[u].event # embedder[v].event

(* A step of the enrichment consumer leaves embedding_status as it is.     *)
LEMMA EmbedElsewhere ==
  ASSUME TypeOK, EmbedInv, embedder' = embedder, embeddings' = embeddings,
         \A e \in Events : row'[e].embedding = row[e].embedding
  PROVE  EmbedInv'
<1>1. \A v \in Embedders : Holding(v) => embedder[v].event \in Events BY HasEvent
<1> QED BY <1>1 DEF EmbedInv, EmbeddedOnce, Holding

(* An embedding coroutine that moves on with its event, or drops it.       *)
LEMMA EmbedMove ==
  ASSUME TypeOK, EmbedInv, NEW v \in Embedders, row' = row, embeddings' = embeddings,
         \A x \in Embedders \ {v} : embedder'[x] = embedder[x],
         embedder'[v].pc \in {"embed", "store", "markFailed"} =>
           Holding(v) /\ embedder'[v].event = embedder[v].event
  PROVE  EmbedInv'
  BY DEF EmbedInv, EmbeddedOnce, Holding

LEMMA EmbedStep == TypeOK /\ EmbedInv /\ [Next]_vars => EmbedInv'
<1> SUFFICES ASSUME TypeOK, EmbedInv, [Next]_vars PROVE EmbedInv'
  OBVIOUS
<1> USE DEF MyEvent
<1>1. ASSUME NEW v \in Embedders, EmbedSwitch(v) \/ Embed(v) PROVE EmbedInv'
  <2>1. PICK pc \in EmbedderPC :
          /\ EmbedGoto(v, pc)
          /\ pc \in {"poll", "claim"} <=> embedder[v].pc \in {"poll", "claim"}
          /\ pc \in {"embed", "store", "markFailed"} => Holding(v)
    BY <1>1 DEF EmbedSwitch, Embed, EmbedAt, EmbedderPC, Holding
  <2>2. row' = row /\ embeddings' = embeddings BY <1>1 DEF EmbedSwitch, Embed, tables
  <2> QED BY <2>1, <2>2, EmbedGotoMoves, EmbedMove
<1>2. ASSUME NEW v \in Embedders, EmbedClaim(v) PROVE EmbedInv'
  <2>1. CASE EmbedBack(v) /\ UNCHANGED row
    BY <1>2, <2>1, EmbedBackMoves, EmbedMove DEF EmbedClaim
  <2>2. ASSUME NEW e \in Events, row[e].embedding = "pending",
               row' = [row EXCEPT ![e].embedding = "processing"],
               embedder' = [embedder EXCEPT ![v] = [pc |-> "embed", event |-> e]]
        PROVE  EmbedInv'
    <3>1. /\ row'[e].embedding = "processing" /\ \A g \in Events \ {e} : row'[g] = row[g]
          /\ embeddings' = embeddings
      BY <1>2, <2>2, EmbeddingMoves DEF EmbedClaim
    <3>2. /\ embedder'[v].pc = "embed" /\ embedder'[v].event = e
          /\ \A x \in Embedders \ {v} : embedder'[x] = embedder[x]
      BY <2>2, EmbedClaimMoves
    <3>3. \A x \in Embedders : Holding(x) => embedder[x].event \in Events \ {e}
      BY <2>2, HasEvent DEF EmbedInv
    <3>4. EmbeddedOnce' BY <2>2, <3>1 DEF EmbedInv, EmbeddedOnce
    <3> QED BY <3>1, <3>2, <3>3, <3>4 DEF EmbedInv, Holding
  <2> QED BY <1>2, <2>1, <2>2 DEF EmbedClaim
<1>3. ASSUME NEW v \in Embedders, Store(v) \/ MarkFailed(v) PROVE EmbedInv'
  <2> DEFINE e == embedder[v].event
  <2>1. e \in Events /\ Holding(v) BY <1>3, HasEvent DEF Store, MarkFailed, EmbedAt, Holding
  <2>2. PICK st \in {"completed", "failed"} : row' = [row EXCEPT ![e].embedding = st] /\ (st = "completed" <=> Store(v))
    <3>1. Store(v) => ~MarkFailed(v) BY DEF Store, MarkFailed, EmbedAt
    <3> QED BY <1>3, <3>1 DEF Store, MarkFailed
  <2>3. row[e].embedding = "processing" /\ embeddings[e] = 0
    BY <2>1 DEF EmbedInv, EmbeddedOnce
  <2>4. row'[e].embedding = st /\ \A g \in Events \ {e} : row'[g] = row[g]
    BY <2>1, <2>2, EmbeddingMoves
  <2>5. /\ embeddings'[e] = IF st = "completed" THEN 1 ELSE 0
        /\ \A g \in Events \ {e} : embeddings'[g] = embeddings[g]
    <3>1. CASE Store(v)
      <4>1. embeddings' = [embeddings EXCEPT ![e] = embeddings[e] + 1] BY <3>1 DEF Store
      <4>2. embeddings \in [Events -> Nat] BY DEF TypeOK
      <4> HIDE DEF e
      <4>3. embeddings'[e] = 1 /\ \A g \in Events \ {e} : embeddings'[g] = embeddings[g]
        BY <2>1, <2>3, <4>1, <4>2
      <4> QED BY <2>2, <3>1, <4>3
    <3>2. CASE ~Store(v) BY <1>3, <2>2, <2>3, <3>2 DEF MarkFailed
    <3> QED BY <3>1, <3>2
  <2>6. /\ embedder'[v].pc = "poll" /\ \A x \in Embedders \ {v} : embedder'[x] = embedder[x]
    BY <1>3, EmbedBackMoves DEF Store, MarkFailed
  <2>7. \A x \in Embedders \ {v} : Holding(x) => embedder[x].event \in Events \ {e}
    BY <2>1, HasEvent DEF EmbedInv
  <2>8. EmbeddedOnce' BY <2>4, <2>5 DEF EmbedInv, EmbeddedOnce
  <2> QED BY <2>4, <2>6, <2>7, <2>8 DEF EmbedInv, Holding
<1>4. ASSUME NEW v \in Embedders, EmbedAbandon(v) PROVE EmbedInv'
  BY <1>4, EmbedBackMoves, EmbedMove DEF EmbedAbandon, tables
<1>5. ASSUME NEW w \in Enrichers, EnricherStep(w) \/ SaveRaises(w) \/ Abandon(w) PROVE EmbedInv'
  <2>1. embedder' = embedder /\ embeddings' = embeddings
    BY <1>5 DEF EnricherStep, CheckSwitch, Scan, Claim, ReadSwitch, Whisper, SaveTranscript, CallGpt,
                Complete, Fail, Skip, UpdateEnrichment, SaveRaises, Abandon, tables
  <2>2. row' = row \/ \E e \in Events, st \in {"processing"} \cup Final, f \in BOOLEAN :
           (f => st = "processing") /\ row' = [row EXCEPT ![e].status = st, ![e].fresh = f]
    <3>1. CASE Claim(w)
      <4>1. enricher[w].event \in Events BY <3>1, HasEvent DEF Claim, At
      <4>2. row' = row \/ row' = [row EXCEPT ![enricher[w].event].status = "processing", ![enricher[w].event].fresh = TRUE]
        BY <3>1 DEF Claim
      <4> QED BY <4>1, <4>2
    <3>2. CASE Complete(w) \/ Fail(w) \/ Skip(w)
      <4>1. PICK pc \in {"complete", "fail", "skip"}, st \in Final : UpdateEnrichment(w, pc, st)
        BY <3>2 DEF Complete, Fail, Skip, Final
      <4>2. enricher[w].event \in Events BY <4>1, HasEvent DEF UpdateEnrichment, At
      <4>3. row' = [row EXCEPT ![enricher[w].event].status = st, ![enricher[w].event].fresh = FALSE]
        BY <4>1 DEF UpdateEnrichment
      <4> QED BY <4>2, <4>3
    <3>3. CASE ~Claim(w) /\ ~(Complete(w) \/ Fail(w) \/ Skip(w))
      BY <1>5, <3>3 DEF EnricherStep, CheckSwitch, Scan, ReadSwitch, Whisper, SaveTranscript, CallGpt,
                        SaveRaises, Abandon, tables
    <3> QED BY <3>1, <3>2, <3>3
  <2>3. \A e \in Events : row'[e].embedding = row[e].embedding BY <2>2, RowMoves
  <2> QED BY <2>1, <2>3, EmbedElsewhere
<1>6. ASSUME NEW e \in Events, LeaseExpires(e) PROVE EmbedInv'
  BY <1>6, ExpiryMoves, EmbedElsewhere DEF LeaseExpires
<1>7. CASE ToggleSwitch BY <1>7, EmbedElsewhere DEF ToggleSwitch, tables
<1>8. CASE UNCHANGED vars BY <1>8, EmbedElsewhere DEF vars, tables
<1> QED BY <1>1, <1>2, <1>3, <1>4, <1>5, <1>6, <1>7, <1>8 DEF Next, EmbedderStep

LEMMA EmbedInit == Init => EmbedInv
  BY DEF Init, EmbedInv, EmbeddedOnce, Holding, Empty

(* An event has one embedding if its embedding_status is 'completed' and   *)
(* none otherwise, whatever crashes and however the enrichment goes on.    *)
THEOREM EmbeddedExactlyOnce == Spec => []EmbeddedOnce
<1>1. EmbedInv => EmbeddedOnce BY DEF EmbedInv
<1> QED BY <1>1, TypeInit, TypeStep, EmbedInit, EmbedStep, PTL DEF Spec

-----------------------------------------------------------------------------
(***************************************************************************)
(* With leases that outlive the work, or with one coroutine.  A row that   *)
(* somebody works on is in progress, within its lease in the first case,   *)
(* and in one pair of hands; an embedding is only ever begun for a         *)
(* completed row.                                                          *)
(***************************************************************************)
OneAtATime == LeaseOutlivesWork \/ \A v, w \in Enrichers : v = w

LeaseInv ==
  /\ \A w \in Enrichers : Working(w) =>
       /\ row[enricher[w].event].status = "processing"
       /\ LeaseOutlivesWork => row[enricher[w].event].fresh
  /\ \A v, w \in Enrichers : v # w /\ Working(v) /\ Working(w) => enricher[v].event # enricher[w].event
  /\ EmbeddedIsCompleted

LEMMA LeaseMove ==
  ASSUME TypeOK, LeaseInv, NEW w \in Enrichers, row' = row,
         \A x \in Enrichers \ {w} : enricher'[x] = enricher[x],
         enricher'[w].pc \notin {"poll", "scan", "claim"} =>
           Working(w) /\ enricher'[w].event = enricher[w].event
  PROVE  LeaseInv'
  BY DEF LeaseInv, Working, EmbeddedIsCompleted

LEMMA LeaseElsewhere ==
  ASSUME TypeOK, LeaseInv, enricher' = enricher,
         \A e \in Events : row'[e].status = row[e].status /\ row'[e].fresh = row[e].fresh,
         \A e \in Events : row'[e].embedding # "pending" =>
                             row[e].embedding # "pending" \/ row[e].status = "completed"
  PROVE  LeaseInv'
<1>1. \A w \in Enrichers : Working(w) => enricher[w].event \in Events BY HasEvent DEF Working
<1> QED BY <1>1 DEF LeaseInv, Working, EmbeddedIsCompleted

LEMMA LeaseStep ==
  ASSUME OneAtATime, TypeOK, EmbedInv, LeaseInv, [Next]_vars
  PROVE  LeaseInv' /\ \A e \in Events : row[e].status \in Final => row'[e].status = row[e].status
<1> USE DEF MyEvent
<1> DEFINE Stays == \A e \in Events : row[e].status \in Final => row'[e].status = row[e].status
<1>1. ASSUME NEW w \in Enrichers, CheckSwitch(w) \/ ReadSwitch(w) \/ Whisper(w) \/ CallGpt(w)
      PROVE  LeaseInv' /\ Stays
  <2>1. PICK pc \in EnricherPC :
          /\ Goto(w, pc)
          /\ pc \in {"poll", "scan"} <=> enricher[w].pc \in {"poll", "scan"}
          /\ pc \notin {"poll", "scan", "claim"} => Working(w)
    BY <1>1 DEF CheckSwitch, ReadSwitch, Whisper, CallGpt, At, EnricherPC, Working
  <2>2. row' = row BY <1>1, WhisperMoves DEF CheckSwitch, ReadSwitch, CallGpt, tables
  <2> QED BY <2>1, <2>2, GotoMoves, LeaseMove
<1>2. ASSUME NEW w \in Enrichers, Scan(w) PROVE LeaseInv' /\ Stays
  BY <1>2, ScanMoves, LeaseMove DEF Scan, tables
<1>3. ASSUME NEW w \in Enrichers, Claim(w) PROVE LeaseInv' /\ Stays
  <2> DEFINE e == enricher[w].event
  <2>0. enricher[w].pc = "claim" /\ e \in Events BY <1>3, HasEvent DEF Claim, At
  <2>1. CASE Claimable(MyEvent(w))
    <3>1. /\ Goto(w, FirstStep(enricher[w]))
          /\ row' = [row EXCEPT ![e].status = "processing", ![e].fresh = TRUE]
      BY <1>3, <2>1 DEF Claim
    <3>2. FirstStep(enricher[w]) \in EnricherPC \ {"poll", "scan"} BY DEF FirstStep, EnricherPC
    <3>3. enricher'[w].event = e /\ \A x \in Enrichers \ {w} : enricher'[x] = enricher[x]
      BY <2>0, <3>1, <3>2, GotoMoves
    <3>4. /\ row'[e].status = "processing" /\ row'[e].fresh /\ row'[e].embedding = row[e].embedding
          /\ \A g \in Events \ {e} : row'[g] = row[g]
      BY <2>0, <3>1, RowMoves
    <3>5. row[e].status \notin Final /\ ~(row[e].status = "processing" /\ row[e].fresh)
      BY <2>1 DEF Claimable, Final
    <3>6. \A x \in Enrichers : Working(x) => enricher[x].event \in Events \ {e}
      <4>1. CASE LeaseOutlivesWork BY <3>5, <4>1, HasEvent DEF LeaseInv, Working
      <4>2. CASE \A x, y \in Enrichers : x = y BY <2>0, <4>2 DEF Working
      <4> QED BY <4>1, <4>2 DEF OneAtATime
    <3>7. EmbeddedIsCompleted' BY <3>4, <3>5 DEF LeaseInv, EmbeddedIsCompleted, Final
    <3> QED BY <2>0, <3>3, <3>4, <3>5, <3>6, <3>7 DEF LeaseInv, Working
  <2>2. CASE ~Claimable(MyEvent(w))
    <3>1. Back(w) /\ row' = row BY <1>3, <2>2 DEF Claim
    <3> QED BY <3>1, BackMoves, LeaseMove
  <2> QED BY <2>1, <2>2
<1>4. ASSUME NEW w \in Enrichers, SaveTranscript(w) \/ SaveRaises(w) PROVE LeaseInv' /\ Stays
  <2>1. Working(w) /\ enricher[w].pc \notin {"poll", "scan"} /\ row' = row
    BY <1>4 DEF SaveTranscript, SaveRaises, Saving, Working
  <2>2. CASE Goto(w, "skip") BY <2>1, <2>2, GotoMoves, LeaseMove DEF EnricherPC
  <2>3. CASE enricher' = [enricher EXCEPT ![w].text = TRUE, ![w].pc = "gpt"]
    <3>1. /\ \A x \in Enrichers \ {w} : enricher'[x] = enricher[x]
          /\ enricher'[w].event = enricher[w].event
      BY <2>3 DEF TypeOK, Enricher
    <3> QED BY <2>1, <3>1, LeaseMove
  <2> QED BY <1>4, <2>2, <2>3 DEF SaveTranscript, SaveRaises
<1>5. ASSUME NEW w \in Enrichers, Complete(w) \/ Fail(w) \/ Skip(w) PROVE LeaseInv' /\ Stays
  <2> DEFINE e == enricher[w].event
  <2>1. PICK pc \in {"complete", "fail", "skip"}, st \in Final : UpdateEnrichment(w, pc, st)
    BY <1>5 DEF Complete, Fail, Skip, Final
  <2>2. e \in Events /\ Working(w) BY <2>1, HasEvent DEF UpdateEnrichment, At, Working
  <2>3. /\ row'[e].status = st /\ row'[e].embedding = row[e].embedding
        /\ \A g \in Events \ {e} : row'[g] = row[g]
    BY <2>1, <2>2, RowMoves DEF UpdateEnrichment
  <2>4. enricher'[w].pc = "poll" /\ \A x \in Enrichers \ {w} : enricher'[x] = enricher[x]
    BY <2>1, BackMoves DEF UpdateEnrichment
  <2>5. row[e].status = "processing" BY <2>2 DEF LeaseInv
  <2>6. \A x \in Enrichers \ {w} : Working(x) => enricher[x].event \in Events \ {e}
    BY <2>2, HasEvent DEF LeaseInv, Working
  <2>7. EmbeddedIsCompleted' BY <2>3, <2>5 DEF LeaseInv, EmbeddedIsCompleted
  <2>8. Stays BY <2>3, <2>5 DEF Final
  <2> QED BY <2>3, <2>4, <2>6, <2>7, <2>8 DEF LeaseInv, Working
<1>6. ASSUME NEW w \in Enrichers, Abandon(w) PROVE LeaseInv' /\ Stays
  BY <1>6, BackMoves, LeaseMove DEF Abandon
<1>7. ASSUME NEW v \in Embedders, EmbedderStep(v) \/ EmbedAbandon(v) PROVE LeaseInv' /\ Stays
  <2>1. enricher' = enricher
    BY <1>7 DEF EmbedderStep, EmbedSwitch, EmbedClaim, Embed, Store, MarkFailed, EmbedAbandon, tables
  <2>2. CASE row' = row BY <2>1, <2>2, LeaseElsewhere
  <2>3. ASSUME NEW e \in Events, NEW st \in {"processing", "completed", "failed"},
               row' = [row EXCEPT ![e].embedding = st], row[e].status = "completed"
        PROVE  LeaseInv' /\ Stays
    <3>1. /\ \A g \in Events : row'[g].status = row[g].status /\ row'[g].fresh = row[g].fresh
          /\ \A g \in Events \ {e} : row'[g] = row[g]
      BY <2>3, EmbeddingMoves
    <3>2. \A g \in Events : row'[g].embedding # "pending" =>
                              row[g].embedding # "pending" \/ row[g].status = "completed"
      BY <2>3, <3>1
    <3> QED BY <2>1, <3>1, <3>2, LeaseElsewhere
  <2>4. CASE EmbedClaim(v) BY <2>2, <2>3, <2>4 DEF EmbedClaim
  <2>5. CASE Store(v) \/ MarkFailed(v)
    <3>1. embedder[v].event \in Events /\ Holding(v)
      BY <2>5, HasEvent DEF Store, MarkFailed, EmbedAt, Holding
    <3>2. row[embedder[v].event].status = "completed" BY <3>1 DEF EmbedInv, LeaseInv, EmbeddedIsCompleted
    <3> QED BY <2>3, <2>5, <3>1, <3>2 DEF Store, MarkFailed
  <2> QED BY <1>7, <2>2, <2>4, <2>5 DEF EmbedderStep, EmbedSwitch, Embed, EmbedAbandon, tables
<1>8. ASSUME NEW e \in Events, LeaseExpires(e) PROVE LeaseInv' /\ Stays
  <2>1. /\ \A g \in Events : row'[g].status = row[g].status /\ row'[g].embedding = row[g].embedding
        /\ \A g \in Events \ {e} : row'[g] = row[g]
        /\ enricher' = enricher
    BY <1>8, ExpiryMoves DEF LeaseExpires
  <2>2. \A x \in Enrichers : Working(x) =>
          enricher[x].event \in Events /\ (LeaseOutlivesWork => enricher[x].event # e)
    BY <1>8, HasEvent DEF LeaseExpires, Working
  <2> QED BY <2>1, <2>2 DEF LeaseInv, Working, EmbeddedIsCompleted
<1>9. CASE ToggleSwitch BY <1>9, LeaseElsewhere DEF ToggleSwitch, tables
<1>10. CASE UNCHANGED vars BY <1>10, LeaseElsewhere DEF vars, tables
<1> QED BY <1>1, <1>2, <1>3, <1>4, <1>5, <1>6, <1>7, <1>8, <1>9, <1>10 DEF Next, EnricherStep

LEMMA LeaseInit == Init => LeaseInv
  BY DEF Init, LeaseInv, Working, EmbeddedIsCompleted, Idle

(* Under such leases, or with one coroutine whatever the lease, an         *)
(* embedding belongs to a completed enrichment.                            *)
THEOREM EmbeddedAreCompleted == ASSUME OneAtATime PROVE Spec => []EmbeddedIsCompleted
<1>1. TypeOK /\ EmbedInv /\ LeaseInv /\ [Next]_vars => LeaseInv' BY LeaseStep
<1>2. LeaseInv => EmbeddedIsCompleted BY DEF LeaseInv
<1> QED BY <1>1, <1>2, TypeInit, TypeStep, EmbedInit, EmbedStep, LeaseInit, PTL DEF Spec

(* On that condition no step replaces the final status of an enrichment:   *)
(* the delivery gate it opened stays open.                                 *)
THEOREM ResultIsFinal == ASSUME OneAtATime PROVE Spec => ResultStays
<1>1. TypeOK /\ EmbedInv /\ LeaseInv /\ [Next]_vars => LeaseInv' BY LeaseStep
<1>2. TypeOK /\ EmbedInv /\ LeaseInv /\ [Next]_vars =>
        [\A e \in Events : row[e].status \in Final => row'[e].status = row[e].status]_vars
  BY LeaseStep
<1> QED BY <1>1, <1>2, TypeInit, TypeStep, EmbedInit, EmbedStep, LeaseInit, PTL DEF Spec, ResultStays

-----------------------------------------------------------------------------
(***************************************************************************)
(* No recording has two transcripts.  A text, once saved, is the last     *)
(* transcript of its event; a claim that is still valid is based on a scan *)
(* that saw it, since nobody else can have worked on the event meanwhile.  *)
(* The claims of a coroutine that is alone are valid in any case.          *)
(***************************************************************************)
NoTextYet(e) == \A i \in DOMAIN transcripts[e] : ~transcripts[e][i]
TextIsLast(e) == \A i \in DOMAIN transcripts[e] : transcripts[e][i] => i = Len(transcripts[e])

OnceInv ==
  /\ \A e \in Events : TextIsLast(e)
  /\ \A w \in Enrichers : enricher[w].pc \in {"switch", "whisper", "saveText", "saveSilence"} =>
       NoTextYet(enricher[w].event)
  /\ \A w \in Enrichers :
       enricher[w].pc = "claim" /\ ~enricher[w].text
         /\ (LeaseOutlivesWork => Claimable(enricher[w].event)) => NoTextYet(enricher[w].event)

LEMMA AppendKeepsLast ==
  ASSUME TypeOK, NEW w \in Enrichers, Saving(w), AddTranscript(w), NoTextYet(MyEvent(w)),
         \A e \in Events : TextIsLast(e)
  PROVE  /\ \A e \in Events : TextIsLast(e)'
         /\ \A e \in Events : e # MyEvent(w) /\ NoTextYet(e) => NoTextYet(e)'
<1> DEFINE e == MyEvent(w)
           b == At(w, "saveText")
<1>1. /\ e \in Events /\ transcripts' \in [Events -> Seq(BOOLEAN)]
      /\ transcripts'[e] = Append(transcripts[e], b)
      /\ \A g \in Events \ {e} : transcripts'[g] = transcripts[g]
  BY TranscriptMoves
<1>2. transcripts[e] \in Seq(BOOLEAN) BY <1>1 DEF TypeOK
<1>3. NoTextYet(e) OBVIOUS
<1>4. b \in BOOLEAN BY DEF At
<1>5. \A g \in Events : g # e /\ NoTextYet(g) => NoTextYet(g)' BY <1>1 DEF NoTextYet
<1>6. \A g \in Events \ {e} : TextIsLast(g)' BY <1>1 DEF TextIsLast
<1> HIDE DEF b
<1>7. \A i \in DOMAIN transcripts'[e] : transcripts'[e][i] => i = Len(transcripts'[e])
  <2> HIDE DEF e
  <2> DEFINE n == Len(transcripts[e])
  <2>1. /\ n \in Nat /\ DOMAIN transcripts[e] = 1 .. n /\ DOMAIN transcripts'[e] = 1 .. (n + 1)
        /\ \A i \in 1 .. n : transcripts'[e][i] = transcripts[e][i]
        /\ Len(transcripts'[e]) = n + 1
    BY <1>1, <1>2, <1>4
  <2>2. \A i \in 1 .. n : ~transcripts[e][i] BY <1>3, <2>1 DEF NoTextYet
  <2> HIDE DEF n
  <2>3. \A i \in 1 .. (n + 1) : i \in 1 .. n \/ i = n + 1 BY <2>1
  <2> QED BY <2>1, <2>2, <2>3
<1>8. \A g \in Events : g = e => TextIsLast(g)' BY <1>7 DEF TextIsLast
<1> QED BY <1>5, <1>6, <1>8

LEMMA ScanSawIt ==
  ASSUME TypeOK, NEW e \in Events, TextIsLast(e), ~HasTranscript(e)
  PROVE  NoTextYet(e)
<1>1. transcripts[e] \in Seq(BOOLEAN) BY DEF TypeOK
<1>2. SUFFICES ASSUME NEW i \in DOMAIN transcripts[e], transcripts[e][i] PROVE FALSE
  BY DEF NoTextYet
<1>3. i = Len(transcripts[e]) /\ transcripts[e] # <<>> BY <1>1, <1>2 DEF TextIsLast
<1> QED BY <1>2, <1>3 DEF HasTranscript

LEMMA OnceMove ==
  ASSUME TypeOK, OnceInv, NEW w \in Enrichers, transcripts' = transcripts,
         \A e \in Events : Claimable(e)' => Claimable(e),
         \A x \in Enrichers \ {w} : enricher'[x] = enricher[x],
         enricher'[w].pc \in {"switch", "whisper", "saveText", "saveSilence"} => NoTextYet(enricher'[w].event),
         enricher'[w].pc = "claim" /\ ~enricher'[w].text => NoTextYet(enricher'[w].event)
  PROVE  OnceInv'
<1>1. \A x \in Enrichers : enricher[x].pc = "claim" => enricher[x].event \in Events BY HasEvent
<1>2. \A e : NoTextYet(e)' <=> NoTextYet(e) BY DEF NoTextYet
<1>3. \A e \in Events : TextIsLast(e)' BY DEF TextIsLast, OnceInv
<1>4. ASSUME NEW x \in Enrichers,
             enricher'[x].pc \in {"switch", "whisper", "saveText", "saveSilence"}
      PROVE  NoTextYet(enricher'[x].event)
  BY <1>4 DEF OnceInv
<1>5. ASSUME NEW x \in Enrichers, NEW e \in Events, enricher'[x].event = e,
             enricher'[x].pc = "claim", ~enricher'[x].text, LeaseOutlivesWork => Claimable(e)'
      PROVE  NoTextYet(e)
  BY <1>5 DEF OnceInv
<1>6. ASSUME NEW x \in Enrichers, enricher'[x].pc = "claim", ~enricher'[x].text,
             enricher'[x].event \notin Events
      PROVE  NoTextYet(enricher'[x].event)
  BY <1>1, <1>6
<1> QED BY <1>2, <1>3, <1>4, <1>5, <1>6 DEF OnceInv, NoTextYet, Claimable

LEMMA OnceElsewhere ==
  ASSUME TypeOK, OnceInv, transcripts' = transcripts, enricher' = enricher,
         LeaseOutlivesWork => \A e \in Events :
           Claimable(e)' => Claimable(e) \/ \A w \in Enrichers : enricher[w].event # e
  PROVE  OnceInv'
<1>1. \A w \in Enrichers : enricher[w].pc = "claim" => enricher[w].event \in Events BY HasEvent
<1>2. LeaseOutlivesWork => \A w \in Enrichers :
        enricher[w].pc = "claim" /\ Claimable(enricher[w].event)' => Claimable(enricher[w].event)
  BY <1>1 DEF Claimable
<1> QED BY <1>2 DEF OnceInv, NoTextYet, TextIsLast

LEMMA OnceStep ==
  ASSUME OneAtATime, TypeOK, LeaseInv, OnceInv, [Next]_vars
  PROVE  OnceInv'
<1> USE DEF MyEvent
<1>1. ASSUME NEW w \in Enrichers, CheckSwitch(w) \/ ReadSwitch(w) \/ Whisper(w) \/ CallGpt(w)
      PROVE  OnceInv'
  <2>1. PICK pc \in EnricherPC :
          /\ Goto(w, pc) /\ pc # "claim"
          /\ pc \in {"poll", "scan"} <=> enricher[w].pc \in {"poll", "scan"}
          /\ pc \in {"switch", "whisper", "saveText", "saveSilence"} => enricher[w].pc \in {"switch", "whisper"}
    BY <1>1 DEF CheckSwitch, ReadSwitch, Whisper, CallGpt, At, EnricherPC
  <2>2. row' = row /\ transcripts' = transcripts
    BY <1>1, WhisperMoves DEF CheckSwitch, ReadSwitch, CallGpt, tables
  <2>3. \A e \in Events : Claimable(e)' => Claimable(e) BY <2>2 DEF Claimable
  <2>4. /\ enricher'[w].pc = pc /\ enricher'[w].event = enricher[w].event
        /\ \A x \in Enrichers \ {w} : enricher'[x] = enricher[x]
    BY <2>1, GotoMoves
  <2>5. enricher[w].pc \in {"switch", "whisper"} => NoTextYet(enricher[w].event) BY DEF OnceInv
  <2>6. pc \in {"switch", "whisper", "saveText", "saveSilence"} => NoTextYet(enricher'[w].event)
    BY <2>1, <2>4, <2>5 DEF NoTextYet
  <2> QED BY <2>1, <2>2, <2>3, <2>4, <2>6, OnceMove
<1>2. ASSUME NEW w \in Enrichers, Scan(w) PROVE OnceInv'
  <2>1. row' = row /\ transcripts' = transcripts BY <1>2 DEF Scan, tables
  <2>2. \A e \in Events : Claimable(e)' => Claimable(e) BY <2>1 DEF Claimable
  <2>3. \A e \in Events : ~HasTranscript(e) => NoTextYet(e) BY ScanSawIt DEF OnceInv
  <2>4. enricher'[w].pc = "claim" /\ ~enricher'[w].text => NoTextYet(enricher'[w].event)
    BY <1>2, <2>3, ScanMoves
  <2> QED BY <1>2, <2>1, <2>2, <2>4, ScanMoves, OnceMove
<1>3. ASSUME NEW w \in Enrichers, Claim(w) PROVE OnceInv'
  <2> DEFINE e == enricher[w].event
  <2>0. enricher[w].pc = "claim" /\ e \in Events /\ transcripts' = transcripts
    BY <1>3, HasEvent DEF Claim, At
  <2>1. CASE Claimable(MyEvent(w))
    <3> DEFINE pc == FirstStep(enricher[w])
    <3>1. pc \in EnricherPC \ {"poll", "scan", "claim", "whisper", "saveText", "saveSilence"}
          /\ (pc = "switch" => ~enricher[w].text)
      BY DEF FirstStep, EnricherPC
    <3>2. /\ Goto(w, pc)
          /\ row' = [row EXCEPT ![e].status = "processing", ![e].fresh = TRUE]
      BY <1>3, <2>1 DEF Claim
    <3> HIDE DEF pc
    <3>3. /\ enricher'[w].pc = pc /\ enricher'[w].event = e
          /\ \A x \in Enrichers \ {w} : enricher'[x] = enricher[x]
      BY <2>0, <3>1, <3>2, GotoMoves
    <3>4. /\ row'[e].status = "processing" /\ row'[e].fresh
          /\ \A g \in Events \ {e} : row'[g] = row[g]
      BY <2>0, <3>2, RowMoves
    <3>5. \A g \in Events : Claimable(g)' => Claimable(g) BY <3>4 DEF Claimable
    <3>6. ~enricher[w].text => NoTextYet(e) BY <2>0, <2>1 DEF OnceInv
    <3>7. enricher'[w].pc \in {"switch", "whisper", "saveText", "saveSilence"} => NoTextYet(enricher'[w].event)
      BY <3>1, <3>3, <3>6 DEF NoTextYet
    <3> QED BY <2>0, <3>1, <3>3, <3>5, <3>7, OnceMove
  <2>2. CASE ~Claimable(MyEvent(w))
    <3>1. Back(w) /\ row' = row BY <1>3, <2>2 DEF Claim
    <3>2. \A g \in Events : Claimable(g)' => Claimable(g) BY <3>1 DEF Claimable
    <3> QED BY <2>0, <3>1, <3>2, BackMoves, OnceMove
  <2> QED BY <2>1, <2>2
<1>4. ASSUME NEW w \in Enrichers, SaveTranscript(w) \/ SaveRaises(w) PROVE OnceInv'
  <2> DEFINE e == enricher[w].event
  <2>1. /\ Saving(w) /\ Working(w) /\ row' = row /\ e \in Events
        /\ enricher[w].pc \in {"saveText", "saveSilence"}
    BY <1>4, HasEvent DEF SaveTranscript, SaveRaises, Saving, Working
  <2>2. NoTextYet(e) BY <2>1 DEF OnceInv
  <2>3. /\ \A g \in Events : TextIsLast(g)'
        /\ \A g \in Events : g # e /\ NoTextYet(g) => NoTextYet(g)'
    <3>1. CASE AddTranscript(w)
      <4>1. NoTextYet(MyEvent(w)) BY <2>2
      <4>2. \A g \in Events : TextIsLast(g) BY DEF OnceInv
      <4>3. /\ \A g \in Events : TextIsLast(g)'
            /\ \A g \in Events : g # MyEvent(w) /\ NoTextYet(g) => NoTextYet(g)'
        BY <2>1, <3>1, <4>1, <4>2, AppendKeepsLast
      <4> QED BY <4>3
    <3>2. CASE transcripts' = transcripts BY <3>2 DEF OnceInv, NoTextYet, TextIsLast
    <3> QED BY <1>4, <3>1, <3>2 DEF SaveTranscript, SaveRaises
  <2>4. /\ \A x \in Enrichers \ {w} : enricher'[x] = enricher[x]
        /\ enricher'[w].pc \in {"gpt", "skip"}
    <3>1. CASE Goto(w, "skip")
      BY <2>1, <3>1, GotoMoves DEF EnricherPC
    <3>2. CASE enricher' = [enricher EXCEPT ![w].text = TRUE, ![w].pc = "gpt"]
      BY <3>2 DEF TypeOK, Enricher
    <3> QED BY <1>4, <3>1, <3>2 DEF SaveTranscript, SaveRaises
  <2>5. ASSUME NEW x \in Enrichers \ {w}, NEW g \in Events, enricher[x].event = g,
               enricher[x].pc \in {"switch", "whisper", "saveText", "saveSilence"}
        PROVE  NoTextYet(g)'
    <3>1. Working(x) /\ NoTextYet(g) BY <2>5 DEF Working, OnceInv
    <3>2. g # e BY <2>1, <2>5, <3>1 DEF LeaseInv
    <3> QED BY <2>3, <3>1, <3>2
  <2>6. ASSUME NEW x \in Enrichers \ {w}, NEW g \in Events, enricher[x].event = g,
               enricher[x].pc = "claim", ~enricher[x].text, LeaseOutlivesWork => Claimable(g)'
        PROVE  NoTextYet(g)'
    <3>0. LeaseOutlivesWork BY <2>6 DEF OneAtATime
    <3>1. Claimable(g) BY <2>1, <2>6, <3>0 DEF Claimable
    <3>2. NoTextYet(g) BY <2>6, <3>1 DEF OnceInv
    <3>3. ~Claimable(e) BY <2>1, <3>0 DEF LeaseInv, Claimable
    <3> QED BY <2>3, <3>1, <3>2, <3>3
  <2>7. \A x \in Enrichers : enricher[x].pc \notin {"poll", "scan"} => enricher[x].event \in Events
    BY HasEvent
  <2>8. ASSUME NEW x \in Enrichers, enricher'[x].pc \in {"switch", "whisper", "saveText", "saveSilence"}
        PROVE  NoTextYet(enricher[x].event)' /\ enricher'[x] = enricher[x]
    <3>1. x # w /\ enricher'[x] = enricher[x] BY <2>4, <2>8
    <3>2. enricher[x].event \in Events BY <2>7, <2>8, <3>1
    <3> QED BY <2>5, <2>8, <3>1, <3>2 DEF NoTextYet
  <2>9. ASSUME NEW x \in Enrichers, enricher'[x].pc = "claim", ~enricher'[x].text,
               LeaseOutlivesWork => Claimable(enricher[x].event)'
        PROVE  NoTextYet(enricher[x].event)'
    <3>1. x # w /\ enricher'[x] = enricher[x] BY <2>4, <2>9
    <3>2. enricher[x].event \in Events BY <2>7, <2>9, <3>1
    <3> QED BY <2>6, <2>9, <3>1, <3>2 DEF NoTextYet, Claimable
  <2> QED BY <2>3, <2>8, <2>9 DEF OnceInv
<1>5. ASSUME NEW w \in Enrichers, Complete(w) \/ Fail(w) \/ Skip(w) PROVE OnceInv'
  <2> DEFINE e == enricher[w].event
  <2>1. PICK pc \in {"complete", "fail", "skip"}, st \in Final : UpdateEnrichment(w, pc, st)
    BY <1>5 DEF Complete, Fail, Skip, Final
  <2>2. e \in Events /\ transcripts' = transcripts BY <2>1, HasEvent DEF UpdateEnrichment, At
  <2>3. row'[e].status = st /\ \A g \in Events \ {e} : row'[g] = row[g]
    BY <2>1, <2>2, RowMoves DEF UpdateEnrichment
  <2>4. \A g \in Events : Claimable(g)' => Claimable(g) BY <2>3 DEF Claimable, Final
  <2>5. enricher'[w].pc = "poll" /\ \A x \in Enrichers \ {w} : enricher'[x] = enricher[x]
    BY <2>1, BackMoves DEF UpdateEnrichment
  <2> QED BY <2>2, <2>4, <2>5, OnceMove
<1>6. ASSUME NEW w \in Enrichers, Abandon(w) PROVE OnceInv'
  <2>1. row' = row /\ transcripts' = transcripts /\ Back(w) BY <1>6 DEF Abandon, tables
  <2>2. \A g \in Events : Claimable(g)' => Claimable(g) BY <2>1 DEF Claimable
  <2> QED BY <2>1, <2>2, BackMoves, OnceMove
<1>7. ASSUME NEW v \in Embedders, EmbedderStep(v) \/ EmbedAbandon(v) PROVE OnceInv'
  <2>1. enricher' = enricher /\ transcripts' = transcripts
    BY <1>7 DEF EmbedderStep, EmbedSwitch, EmbedClaim, Embed, Store, MarkFailed, EmbedAbandon, tables
  <2>2. row' = row \/ \E e \in Events, st \in {"processing", "completed", "failed"} :
                        row' = [row EXCEPT ![e].embedding = st]
    <3>1. Store(v) \/ MarkFailed(v) => embedder[v].event \in Events
      BY HasEvent DEF Store, MarkFailed, EmbedAt, Holding
    <3> QED BY <1>7, <3>1 DEF EmbedderStep, EmbedSwitch, EmbedClaim, Embed, Store, MarkFailed, EmbedAbandon, tables
  <2>3. \A e \in Events : row'[e].status = row[e].status /\ row'[e].fresh = row[e].fresh
    BY <2>2, EmbeddingMoves
  <2>4. \A e \in Events : Claimable(e)' => Claimable(e) BY <2>3 DEF Claimable
  <2> QED BY <2>1, <2>4, OnceElsewhere
<1>8. ASSUME NEW e \in Events, LeaseExpires(e) PROVE OnceInv'
  <2>1. /\ enricher' = enricher /\ transcripts' = transcripts
        /\ \A g \in Events \ {e} : row'[g] = row[g]
        /\ LeaseOutlivesWork => \A w \in Enrichers : enricher[w].event # e
    BY <1>8, ExpiryMoves DEF LeaseExpires
  <2>2. \A g \in Events : Claimable(g)' => Claimable(g) \/ g = e BY <2>1 DEF Claimable
  <2> QED BY <2>1, <2>2, OnceElsewhere
<1>9. CASE ToggleSwitch
  <2>1. UNCHANGED <<row, transcripts, enricher>> BY <1>9 DEF ToggleSwitch, tables
  <2> QED BY <2>1, OnceElsewhere DEF Claimable
<1>10. CASE UNCHANGED vars
  <2>1. UNCHANGED <<row, transcripts, enricher>> BY <1>10 DEF vars, tables
  <2> QED BY <2>1, OnceElsewhere DEF Claimable
<1> QED BY <1>1, <1>2, <1>3, <1>4, <1>5, <1>6, <1>7, <1>8, <1>9, <1>10 DEF Next, EnricherStep

LEMMA OnceInit == Init => OnceInv
  BY DEF Init, OnceInv, NoTextYet, TextIsLast, Idle

(* On that condition the table has at most one transcript with text for a  *)
(* recording, though nothing in the schema asks for it: what a crashed     *)
(* coroutine has saved is found by the next one.                           *)
THEOREM NeverTranscribedTwice == ASSUME OneAtATime PROVE Spec => []TranscribedOnce
<1>1. TypeOK /\ EmbedInv /\ LeaseInv /\ [Next]_vars => LeaseInv' BY LeaseStep
<1>2. TypeOK /\ LeaseInv /\ OnceInv /\ [Next]_vars => OnceInv' BY OnceStep
<1>3. OnceInv => TranscribedOnce BY ConstantsOK DEF OnceInv, TextIsLast, TranscribedOnce, ConstantsOK
<1> QED BY <1>1, <1>2, <1>3, TypeInit, TypeStep, EmbedInit, EmbedStep, LeaseInit, OnceInit, PTL DEF Spec

-----------------------------------------------------------------------------
(***************************************************************************)
(* What OpenAI is paid for.  A fault pays for every transcription but one, *)
(* and the one is owed by the coroutine that has just heard it, or by a    *)
(* row that is final.  A row that is claimed again was dropped by a fault, *)
(* since every other way out of a claim ends in a final status.            *)
(***************************************************************************)
Dropped(e) == row[e].status = "processing" /\ \A w \in Enrichers : Working(w) => enricher[w].event # e

BillInv ==
  /\ HeardAgainOnlyAfterFault
  /\ \A e \in Events : row[e].status = "none" \/ Dropped(e) => heard[e] <= faults
  /\ \A w \in Enrichers : enricher[w].pc \in {"switch", "whisper"} => heard[enricher[w].event] <= faults

(* A coroutine that stays with its event, or has none, and hears nothing.  *)
LEMMA BillMove ==
  ASSUME TypeOK, BillInv, NEW w \in Enrichers, row' = row, heard' = heard,
         faults' = faults \/ faults' = faults + 1,
         \A x \in Enrichers \ {w} : enricher'[x] = enricher[x],
         Working(w) => enricher'[w].event = enricher[w].event /\ enricher'[w].pc \notin {"poll", "scan", "claim"},
         enricher'[w].pc \in {"switch", "whisper"} =>
           enricher[w].pc \in {"switch", "whisper"} /\ enricher'[w].event = enricher[w].event
  PROVE  BillInv'
<1>1. faults \in Nat /\ heard \in [Events -> Nat] BY ConstantsOK DEF TypeOK, ConstantsOK
<1>2. \A x \in Enrichers : enricher[x].pc \in {"switch", "whisper"} => enricher[x].event \in Events
  BY HasEvent
<1>3. \A n \in Nat : n <= faults => n <= faults' BY <1>1
<1>4. \A n \in Nat : n <= 1 + faults => n <= 1 + faults' BY <1>1, SMTT(30)
<1>5. \A e \in Events : Dropped(e)' => Dropped(e)
  <2>1. \A x \in Enrichers : Working(x) => Working(x)' /\ enricher'[x].event = enricher[x].event
    BY DEF Working
  <2> QED BY <2>1 DEF Dropped
<1>6. \A e \in Events : heard[e] \in Nat BY <1>1
<1>7. HeardAgainOnlyAfterFault' BY <1>4, <1>6 DEF BillInv, HeardAgainOnlyAfterFault
<1>8. \A e \in Events : row'[e].status = "none" \/ Dropped(e)' => heard'[e] <= faults'
  BY <1>3, <1>5, <1>6 DEF BillInv
<1>9. \A x \in Enrichers : enricher'[x].pc \in {"switch", "whisper"} =>
        heard'[enricher'[x].event] <= faults'
  BY <1>2, <1>3, <1>6 DEF BillInv
<1> QED BY <1>7, <1>8, <1>9 DEF BillInv

(* A step that leaves the enrichment coroutines, the statuses and the bill *)
(* alone.                                                                  *)
LEMMA BillElsewhere ==
  ASSUME TypeOK, BillInv, enricher' = enricher, heard' = heard,
         faults' = faults \/ faults' = faults + 1,
         \A e \in Events : row'[e].status = row[e].status
  PROVE  BillInv'
<1>1. faults \in Nat /\ heard \in [Events -> Nat] BY ConstantsOK DEF TypeOK, ConstantsOK
<1>2. \A x \in Enrichers : enricher[x].pc \in {"switch", "whisper"} => enricher[x].event \in Events
  BY HasEvent
<1>3. \A n \in Nat : (n <= faults => n <= faults') /\ (n <= 1 + faults => n <= 1 + faults') BY <1>1
<1>4. \A e \in Events : heard[e] \in Nat /\ (Dropped(e)' => Dropped(e)) BY <1>1 DEF Dropped, Working
<1> QED BY <1>2, <1>3, <1>4 DEF BillInv, HeardAgainOnlyAfterFault

LEMMA BillStep ==
  ASSUME OneAtATime, TypeOK, LeaseInv, BillInv, [Next]_vars
  PROVE  BillInv'
<1> USE DEF MyEvent
<1>0. faults \in Nat /\ heard \in [Events -> Nat] BY ConstantsOK DEF TypeOK, ConstantsOK
<1>1. ASSUME NEW w \in Enrichers, CheckSwitch(w) \/ ReadSwitch(w) \/ CallGpt(w) PROVE BillInv'
  <2>1. PICK pc \in EnricherPC :
          /\ Goto(w, pc) /\ pc \notin {"switch"} /\ (pc = "whisper" => enricher[w].pc = "switch")
          /\ pc \in {"poll", "scan"} <=> enricher[w].pc \in {"poll", "scan"}
          /\ Working(w) => pc \notin {"poll", "scan", "claim"}
    BY <1>1 DEF CheckSwitch, ReadSwitch, CallGpt, At, EnricherPC, Working
  <2>2. row' = row /\ heard' = heard /\ faults' = faults
    BY <1>1 DEF CheckSwitch, ReadSwitch, CallGpt, tables
  <2> QED BY <2>1, <2>2, GotoMoves, BillMove
<1>2. ASSUME NEW w \in Enrichers, Whisper(w) PROVE BillInv'
  <2> DEFINE e == enricher[w].event
  <2>1. /\ row' = row /\ faults' = faults /\ enricher[w].pc = "whisper" /\ e \in Events
        /\ Hears(w) \/ UNCHANGED heard
    BY <1>2, WhisperMoves
  <2>2. PICK pc \in {"saveText", "saveSilence", "skip"} : Goto(w, pc) BY <1>2, WhisperMoves
  <2>3. /\ enricher'[w].pc = pc /\ enricher'[w].event = e
        /\ \A x \in Enrichers \ {w} : enricher'[x] = enricher[x]
    BY <2>1, <2>2, GotoMoves DEF EnricherPC
  <2>4. heard[e] <= faults /\ row[e].status = "processing" BY <2>1 DEF BillInv, LeaseInv, Working
  <2>5. /\ heard'[e] <= 1 + faults
        /\ \A g \in Events \ {e} : heard'[g] = heard[g]
    <3>1. heard[e] \in Nat BY <1>0, <2>1
    <3>2. heard'[e] = heard[e] + 1 \/ heard'[e] = heard[e] BY <2>1, HearsMoves
    <3> QED BY <1>0, <2>1, <2>4, <3>1, <3>2, HearsMoves
  <2>6. HeardAgainOnlyAfterFault' BY <2>1, <2>5 DEF BillInv, HeardAgainOnlyAfterFault
  <2>7. \A g \in Events : Dropped(g)' => g # e /\ Dropped(g)
    BY <2>1, <2>3 DEF Dropped, Working
  <2>8. \A g \in Events : row'[g].status = "none" \/ Dropped(g)' => heard'[g] <= faults'
    BY <2>1, <2>4, <2>5, <2>7 DEF BillInv
  <2>9. \A x \in Enrichers \ {w} : enricher[x].pc \in {"switch", "whisper"} =>
          enricher[x].event \in Events \ {e}
    BY <2>1, HasEvent DEF LeaseInv, Working
  <2>10. \A x \in Enrichers : enricher'[x].pc \in {"switch", "whisper"} =>
           heard'[enricher'[x].event] <= faults'
    BY <2>1, <2>3, <2>5, <2>9 DEF BillInv
  <2> QED BY <2>6, <2>8, <2>10 DEF BillInv
<1>3. ASSUME NEW w \in Enrichers, Scan(w) PROVE BillInv'
  <2>1. row' = row /\ heard' = heard /\ faults' = faults /\ ~Working(w)
    BY <1>3 DEF Scan, tables, At, Working
  <2> QED BY <1>3, <2>1, ScanMoves, BillMove
<1>4. ASSUME NEW w \in Enrichers, Claim(w) PROVE BillInv'
  <2> DEFINE e == enricher[w].event
  <2>0. enricher[w].pc = "claim" /\ e \in Events /\ heard' = heard /\ faults' = faults
    BY <1>4, HasEvent DEF Claim, At
  <2>1. CASE Claimable(MyEvent(w))
    <3>1. /\ Goto(w, FirstStep(enricher[w]))
          /\ row' = [row EXCEPT ![e].status = "processing", ![e].fresh = TRUE]
      BY <1>4, <2>1 DEF Claim
    <3>2. FirstStep(enricher[w]) \in EnricherPC \ {"poll", "scan", "claim"} BY DEF FirstStep, EnricherPC
    <3> DEFINE pc == FirstStep(enricher[w])
    <3> HIDE DEF pc
    <3>3. /\ enricher'[w].event = e /\ enricher'[w].pc \notin {"poll", "scan", "claim"}
          /\ \A x \in Enrichers \ {w} : enricher'[x] = enricher[x]
      <4>1. pc \in EnricherPC \ {"poll", "scan", "claim"} /\ Goto(w, pc) BY <3>1, <3>2 DEF pc
      <4> QED BY <2>0, <4>1, GotoMoves
    <3>4. row'[e].status = "processing" /\ \A g \in Events \ {e} : row'[g] = row[g]
      BY <2>0, <3>1, RowMoves
    <3>5. \A x \in Enrichers : Working(x) => enricher[x].event \in Events \ {e}
      <4>1. ~(row[e].status = "processing" /\ row[e].fresh) /\ row[e].status \notin Final
        BY <2>1 DEF Claimable, Final
      <4>2. CASE LeaseOutlivesWork BY <4>1, <4>2, HasEvent DEF LeaseInv, Working
      <4>3. CASE \A x, y \in Enrichers : x = y BY <2>0, <4>3 DEF Working
      <4> QED BY <4>2, <4>3 DEF OneAtATime
    <3>6. heard[e] <= faults
      <4>1. row[e].status \in {"none", "processing"} BY <2>1 DEF Claimable
      <4> QED BY <2>0, <3>5, <4>1 DEF BillInv, Dropped
    <3>7. \A g \in Events : Dropped(g)' => g # e /\ Dropped(g)
      BY <2>0, <3>3, <3>4 DEF Dropped, Working
    <3>8. HeardAgainOnlyAfterFault' BY <2>0 DEF BillInv, HeardAgainOnlyAfterFault
    <3>9. \A g \in Events : row'[g].status = "none" \/ Dropped(g)' => heard'[g] <= faults'
      BY <2>0, <3>4, <3>7 DEF BillInv
    <3>10. \A x \in Enrichers : enricher'[x].pc \in {"switch", "whisper"} =>
             heard'[enricher'[x].event] <= faults'
      BY <2>0, <3>3, <3>6 DEF BillInv
    <3> QED BY <3>8, <3>9, <3>10 DEF BillInv
  <2>2. CASE ~Claimable(MyEvent(w))
    <3>1. Back(w) /\ row' = row /\ ~Working(w) BY <1>4, <2>0, <2>2 DEF Claim, Working
    <3> QED BY <2>0, <3>1, BackMoves, BillMove
  <2> QED BY <2>1, <2>2
<1>5. ASSUME NEW w \in Enrichers, SaveTranscript(w) \/ SaveRaises(w) PROVE BillInv'
  <2>1. /\ Saving(w) /\ enricher[w].pc \notin {"poll", "scan"}
        /\ row' = row /\ heard' = heard /\ (faults' = faults \/ faults' = faults + 1)
    BY <1>5 DEF SaveTranscript, SaveRaises, Saving
  <2>2. CASE Goto(w, "skip") BY <2>1, <2>2, GotoMoves, BillMove DEF EnricherPC
  <2>3. CASE enricher' = [enricher EXCEPT ![w].text = TRUE, ![w].pc = "gpt"]
    <3>1. /\ \A x \in Enrichers \ {w} : enricher'[x] = enricher[x]
          /\ enricher'[w].event = enricher[w].event /\ enricher'[w].pc = "gpt"
      BY <2>3 DEF TypeOK, Enricher
    <3> QED BY <2>1, <3>1, BillMove
  <2> QED BY <1>5, <2>2, <2>3 DEF SaveTranscript, SaveRaises
<1>6. ASSUME NEW w \in Enrichers, Complete(w) \/ Fail(w) \/ Skip(w) PROVE BillInv'
  <2> DEFINE e == enricher[w].event
  <2>1. PICK pc \in {"complete", "fail", "skip"}, st \in Final : UpdateEnrichment(w, pc, st)
    BY <1>6 DEF Complete, Fail, Skip, Final
  <2>2. e \in Events /\ heard' = heard /\ faults' = faults BY <2>1, HasEvent DEF UpdateEnrichment, At
  <2>3. row'[e].status = st /\ \A g \in Events \ {e} : row'[g] = row[g]
    BY <2>1, <2>2, RowMoves DEF UpdateEnrichment
  <2>4. enricher'[w].pc = "poll" /\ \A x \in Enrichers \ {w} : enricher'[x] = enricher[x]
    BY <2>1, BackMoves DEF UpdateEnrichment
  <2>5. \A g \in Events : row'[g].status = "none" \/ Dropped(g)' =>
          g # e /\ (row[g].status = "none" \/ Dropped(g))
    BY <2>3, <2>4 DEF Dropped, Working, Final
  <2>6. HeardAgainOnlyAfterFault' BY <2>2 DEF BillInv, HeardAgainOnlyAfterFault
  <2>7. \A x \in Enrichers : enricher'[x].pc \in {"switch", "whisper"} =>
          heard'[enricher'[x].event] <= faults'
    BY <2>2, <2>4 DEF BillInv
  <2> QED BY <2>2, <2>5, <2>6, <2>7 DEF BillInv
<1>7. ASSUME NEW w \in Enrichers, Abandon(w) PROVE BillInv'
  <2>1. /\ row' = row /\ faults' = faults + 1 /\ Back(w)
        /\ (enricher[w].pc = "whisper" /\ Hears(w)) \/ UNCHANGED heard
    BY <1>7 DEF Abandon, At
  <2>2. /\ enricher'[w].pc = "poll"
        /\ \A x \in Enrichers \ {w} : enricher'[x] = enricher[x]
    BY <2>1, BackMoves
  <2>3. \A g \in Events : heard'[g] <= faults'
    <3>1. \A g \in Events : heard[g] \in Nat /\ heard[g] <= 1 + faults
      BY <1>0 DEF BillInv, HeardAgainOnlyAfterFault
    <3>2. CASE UNCHANGED heard BY <1>0, <2>1, <3>1, <3>2
    <3>3. CASE enricher[w].pc = "whisper" /\ Hears(w)
      <4>1. enricher[w].event \in Events /\ heard[enricher[w].event] <= faults
        BY <3>3, HasEvent DEF BillInv
      <4>2. /\ heard'[enricher[w].event] = heard[enricher[w].event] + 1
            /\ \A g \in Events \ {enricher[w].event} : heard'[g] = heard[g]
        BY <3>3, <4>1, HearsMoves
      <4> QED BY <1>0, <2>1, <3>1, <4>1, <4>2
    <3> QED BY <2>1, <3>2, <3>3
  <2>4. HeardAgainOnlyAfterFault'
    <3>1. \A g \in Events : heard'[g] \in Nat
      <4>1. enricher[w].pc = "whisper" => enricher[w].event \in Events BY HasEvent
      <4>2. heard' \in [Events -> Nat] BY <1>0, <2>1, <4>1, HearsMoves
      <4> QED BY <4>2
    <3>2. \A n \in Nat : n <= faults' => n <= 1 + faults' BY <1>0, <2>1
    <3> QED BY <2>3, <3>1, <3>2 DEF HeardAgainOnlyAfterFault
  <2>5. \A x \in Enrichers : enricher'[x].pc \in {"switch", "whisper"} => enricher'[x].event \in Events
    BY <2>2, HasEvent
  <2> QED BY <2>3, <2>4, <2>5 DEF BillInv
<1>8. ASSUME NEW v \in Embedders, EmbedderStep(v) \/ EmbedAbandon(v) PROVE BillInv'
  <2>1. enricher' = enricher /\ heard' = heard /\ (faults' = faults \/ faults' = faults + 1)
    BY <1>8 DEF EmbedderStep, EmbedSwitch, EmbedClaim, Embed, Store, MarkFailed, EmbedAbandon, tables
  <2>2. row' = row \/ \E e \in Events, st \in {"processing", "completed", "failed"} :
                        row' = [row EXCEPT ![e].embedding = st]
    <3>1. Store(v) \/ MarkFailed(v) => embedder[v].event \in Events
      BY HasEvent DEF Store, MarkFailed, EmbedAt, Holding
    <3> QED BY <1>8, <3>1 DEF EmbedderStep, EmbedSwitch, EmbedClaim, Embed, Store, MarkFailed, EmbedAbandon, tables
  <2>3. \A e \in Events : row'[e].status = row[e].status BY <2>2, EmbeddingMoves
  <2> QED BY <2>1, <2>3, BillElsewhere
<1>9. ASSUME NEW e \in Events, LeaseExpires(e) PROVE BillInv'
  BY <1>9, ExpiryMoves, BillElsewhere DEF LeaseExpires
<1>10. CASE ToggleSwitch BY <1>10, BillElsewhere DEF ToggleSwitch, tables
<1>11. CASE UNCHANGED vars BY <1>11, BillElsewhere DEF vars, tables
<1> QED BY <1>1, <1>2, <1>3, <1>4, <1>5, <1>6, <1>7, <1>8, <1>9, <1>10, <1>11 DEF Next, EnricherStep

LEMMA BillInit == Init => BillInv
  BY DEF Init, BillInv, HeardAgainOnlyAfterFault, Idle

(* On that condition OpenAI transcribes a recording at most once more than *)
(* something has crashed or raised.                                        *)
THEOREM HeardAgainCostsAFault == ASSUME OneAtATime PROVE Spec => []HeardAgainOnlyAfterFault
<1>1. TypeOK /\ EmbedInv /\ LeaseInv /\ [Next]_vars => LeaseInv' BY LeaseStep
<1>2. TypeOK /\ LeaseInv /\ BillInv /\ [Next]_vars => BillInv' BY BillStep
<1>3. BillInv => HeardAgainOnlyAfterFault BY DEF BillInv
<1> QED BY <1>1, <1>2, <1>3, TypeInit, TypeStep, EmbedInit, EmbedStep, LeaseInit, BillInit, PTL DEF Spec
=============================================================================
