SPECIFICATION Spec
CONSTANTS
  Events = {1, 2}
  Workers = {w1}
  Alice = Alice
  Bob = Bob
  NoPhone = NoPhone
  Phones <- MCPhones
  PhoneOf <- TwoOfOne
  Block <- OwnBlocks
  Noted = {1}
  Ticketed = {}
  Tasked = {}
  KnownContacts <- LoggedContact
  MaxAttempts = 2
  LeaseOutlivesWork = TRUE
  MaxFaults = 0
  MaxReplays = 0
PROPERTIES HistoryKept
CHECK_DEADLOCK FALSE
