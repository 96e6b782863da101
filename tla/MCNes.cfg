\* A frame of 121 dots, a vblank of 22; instructions last 12 or 21.
CONSTANTS
  Cols = 1
  Rows = 1
  RowCodes = 8
  CyclesPerScanline = 11
  ScanlinesPerFrame = 11
  VBlankScanline = 8
  PrerenderScanline = 10
  VCopyFirst = 10
  VCopyLast = 10
  CtrlValues <- MCCtrlValues
  MaskValues <- MCMaskValues
  ScrollValues <- MCScrollValues
  AddrValues <- MCAddrValues
  DataUsed = TRUE
  Instructions <- MCInstructions
SPECIFICATION ProgramSpec
INVARIANTS
  NesTypeOK
  VBlankInWindow
  EventsDrained
PROPERTIES
  NmiFollowsEdges
  UploadWindow
  EventsNotMerged
  EventsKeepComing
