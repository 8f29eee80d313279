SPECIFICATION Spec
VIEW WorkView
CHECK_DEADLOCK FALSE
CONSTANTS
  None = None
  Vocabulary <- Work
  LineMax = 2
  NHelp = 3
  MaxConns = 2
INVARIANTS
  TypeOK
  ResourcesOwned
  UartRunsWhatIsAsked
  HelpListsAll
PROPERTIES
  CancelEndsPing
