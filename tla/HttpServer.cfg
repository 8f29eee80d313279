SPECIFICATION Spec
CONSTANTS
  c1 = c1
  c2 = c2
  None = None
  Clients = {c1, c2}
  Rom <- SmallRom
  Requests <- TwoPeers
  TxSize = 4
  LongBody = 1
  FileBuf = 2
  MaxPosts = 1
  MaxAsks <- TwoAndOne
INVARIANTS
  TypeOK
  RepliesRight
  ListSound
  FilesOwned
  PostPhase
PROPERTIES
  Answered
  LostOnesDeleted
