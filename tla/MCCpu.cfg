\* Room for five bytes: a call inside an interrupt, an interrupt inside a call.
\* Four pages of four bytes: offsets -2 .. 1, indices 0 .. 3, pointers across
\* each end.  Numbers of two bytes of four bits.
CONSTANTS
  StackSize = 7
  Radix = 4
  ResetTop = 4
  Tops <- MCTops
  Sites <- MCSites
  Loads <- MCLoads
  Half = 8
  MaxDigits = 2
SPECIFICATION ProgramsSpec
CHECK_DEADLOCK FALSE
INVARIANTS
  ProgramsTypeOK
  OperandsAreFresh
  ComputesNumbers
  PointersAreFollowed
PROPERTIES
  RunsAsEncoded
  LandsOnInstruction
  FramesComeBack
  IsLifo
