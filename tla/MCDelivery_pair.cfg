SPECIFICATION Spec
CONSTANTS
  Events = {1, 2}
  Workers = {w1, w2}
  Alice = Alice
  Bob = Bob
  NoPhone = NoPhone
  Phones <- MCPhones
  PhoneOf <- TwoOfOne
  Block <- OwnBlocks
  Noted = {1}
  Ticketed = {1, 2}
  Tasked = {}
  KnownContacts <- NoContacts
  MaxAttempts = 1
  LeaseOutlivesWork = TRUE
  MaxFaults = 1
  MaxReplays = 1
SYMMETRY WorkerSymmetry
INVARIANTS OneHolder HeldRowIsLeased InTicketNoteOnce DuplicatesArePaidFor
PROPERTIES ImplementsQueue DeliveredStays NothingRecreated
CHECK_DEADLOCK FALSE
