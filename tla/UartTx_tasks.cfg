SPECIFICATION SpecTasks
CONSTANTS
  Senders = {s1, s2}
  None = None
  Size = 5
  DmaSize = 2
  MinSpace = 1
  MaxLen = 3
  MaxBytes = 12
  MaxWalks = 0
INVARIANTS FifoSound IInv
PROPERTIES ChannelSpec
CHECK_DEADLOCK FALSE
