SPECIFICATION Spec
CONSTANTS
  Events = {1}
  Workers = {w1, w2}
  Alice = Alice
  Bob = Bob
  NoPhone = NoPhone
  Phones <- MCPhones
  PhoneOf <- OneOne
  Block <- OwnBlocks
  Noted = {1}
  Ticketed = {1}
  Tasked = {1}
  KnownContacts <- NoContacts
  MaxAttempts = 2
  LeaseOutlivesWork = FALSE
  MaxFaults = 1
  MaxReplays = 0
SYMMETRY WorkerSymmetry
INVARIANTS ProgressIsSaved DeliveredMeansComplete
CHECK_DEADLOCK FALSE
