SPECIFICATION FairSpec
CONSTANTS
  Hooks <- OneHook
  Form <- OneForm
  After <- NoOrder
  Numbers <- AllNumbers
  Plain <- NoPrefix
  Registered <- Lines
  Handlers = {s1, s2}
  Workers = {w}
  MaxFaults = 1
CHECK_DEADLOCK FALSE
PROPERTIES AnsweredReachesWorker
