CONSTANTS
  RxSize = 4
  Keys = {"A", "B", "[", "ESC", "BS", "CR"}
  MaxBytes = 7
  LineLen = 5
  SavedLen = 2
  CmdLen = 2
SPECIFICATION Spec
INVARIANTS TypeOK RxFifo EchoTellsLine HistoryIsWhatRan
VIEW View
CHECK_DEADLOCK FALSE
