SPECIFICATION Spec
CONSTANTS
  c1 = c1
  None = None
  Clients = {c1}
  Rom <- SmallRom
  Requests <- Posting
  TxSize = 4
  LongBody = 1
  FileBuf = 2
  MaxPosts = 1
  MaxAsks <- TwoAndOne
INVARIANTS
  PostsOwned
