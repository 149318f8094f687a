SPECIFICATION FairSpec
CONSTANTS
  Events = {1}
  Workers = {w1}
  NoText = {}
  LeaseOutlivesWork = TRUE
  MaxFaults = 0
PROPERTIES SendingEnds
