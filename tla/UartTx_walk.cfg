SPECIFICATION Spec
CONSTANTS
  Senders = {s1, s2}
  None = None
  Size = 5
  DmaSize = 2
  MinSpace = 1
  MaxLen = 3
  MaxBytes = 7
  MaxWalks = 2
INVARIANTS TypeOK WalksKeepFifo
 
CHECK_DEADLOCK FALSE
