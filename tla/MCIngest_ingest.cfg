SPECIFICATION FairSpec
CONSTANTS
  Hooks <- AllHooks
  Form <- Forms
  After <- AllOrder
  Numbers <- AllNumbers
  Plain <- NoPrefix
  Registered <- Lines
  Handlers = {s1, s2}
  Workers = {w}
  MaxFaults = 1
CHECK_DEADLOCK FALSE
INVARIANTS TypeOK AnsweredIsStored RecordingJoinsItsCall SourceIsOurs
PROPERTIES QueueSpec EveryHookAnswered QueueDrains ReachesWorker
