SPECIFICATION Spec
VIEW View
CONSTANTS
  NTx = 2
  NRx = 2
  NBuffers = 5
  MixedFrames = FALSE
  MaxFrames = 3
  MaxPackets = 4
INVARIANTS
  TypeOK
  OneOwner
  TakenIsFree
  LineInOrder
PROPERTIES
  TxGoesOn
