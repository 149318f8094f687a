SPECIFICATION FairSpec
CONSTANTS
  Events = {1, 2, 3}
  Workers = {w1}
  Alice = Alice
  Bob = Bob
  NoPhone = NoPhone
  Phones <- MCPhones
  PhoneOf <- WithUnknown
  Block <- OwnBlocks
  Noted = {1}
  Ticketed = {1, 3}
  Tasked = {1}
  KnownContacts <- BobsContact
  MaxAttempts = 2
  LeaseOutlivesWork = TRUE
  MaxFaults = 0
  MaxReplays = 0
INVARIANTS TypeOK OneRecordEach RightCaller DeliveredIsLogged
PROPERTIES HistoryKept Settles
CHECK_DEADLOCK FALSE
