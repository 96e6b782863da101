\* Two events in a batch, so that one may undo what the other asked for.
\* Thirty-two rows of two bytes; the stack page begins at the sixteenth.
CONSTANTS
  BurstLength = 2
  MaxBatch = 2
  Words = 64
  RowBytes = 2
  Rows = 3
  MaxScroll = 2
  FirstSpeed = 1
  MaxSpeed = 2
SPECIFICATION DebuggerSpec
INVARIANTS
  DebuggerTypeOK
  OverlayHoldsProgram
  StepsAreAskedFor
  QuitRequestIsFresh
PROPERTIES
  ViewsKeepRows
  KeysAreHeeded
\* The debugger ends when it is told to quit.
CHECK_DEADLOCK FALSE
