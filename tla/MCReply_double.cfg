SPECIFICATION Spec
CONSTANTS
  Events = {1}
  Workers = {w1, w2}
  NoText = {}
  LeaseOutlivesWork = FALSE
  MaxFaults = 0
INVARIANTS AtMostOnce
