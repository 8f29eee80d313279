SPECIFICATION Spec
VIEW View
CONSTANTS
  NTx = 2
  NRx = 2
  NBuffers = 5
  MixedFrames = TRUE
  MaxFrames = 2
  MaxPackets = 1
INVARIANTS
  OneOwner
