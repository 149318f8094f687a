SPECIFICATION FairSpec
CONSTANTS
  Events = {1, 2}
  Workers = {w1, w2}
  NoText = {}
  LeaseOutlivesWork = TRUE
  MaxFaults = 2
INVARIANTS TypeOK AtMostOnce TextedNotClaimable RecordMatchesText DeferralKept
PROPERTIES GateStaysOpen AnswerComes
