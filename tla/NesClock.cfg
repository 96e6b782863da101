\* Long enough for the first vblank, 89 dots after power-up.
CONSTANTS
  Cols = 1
  Rows = 1
  RowCodes = 8
  CyclesPerScanline = 11
  ScanlinesPerFrame = 11
  VBlankScanline = 8
  PrerenderScanline = 10
  VCopyFirst = 10
  VCopyLast = 10
  CtrlValues <- MCCtrlValues
  MaskValues = {}
  ScrollValues = {}
  AddrValues = {}
  DataUsed = TRUE
  Instructions <- MCInstructions
  MaxCpuCycles = 60
SPECIFICATION AccountSpec
INVARIANTS
  ThreeDotsPerCycle
CHECK_DEADLOCK FALSE
