SPECIFICATION FairSpec
CONSTANTS
  Events = {1}
  Recordings = {}
  NoText = {}
  Enrichers = {w1}
  Embedders = {v1}
  LeaseOutlivesWork = TRUE
  MaxFaults = 1
PROPERTIES EmbeddingEnds
