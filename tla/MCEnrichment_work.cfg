SPECIFICATION FairSpec
CONSTANTS
  Events <- ThreeEvents
  Recordings <- FirstIsVoice
  NoText <- LastHasNoWords
  Enrichers = {w1, w2}
  Embedders = {v1, v2}
  LeaseOutlivesWork = TRUE
  MaxFaults = 1
INVARIANTS TypeOK CompletedHasTranscript TranscribedOnce HeardAgainOnlyAfterFault EmbeddedOnce EmbeddedIsCompleted
PROPERTIES ResultStays EnrichmentEnds
