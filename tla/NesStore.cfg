\* One PPUDATA store is enough.
CONSTANTS
  Cols = 1
  Rows = 1
  RowCodes = 8
  CyclesPerScanline = 11
  ScanlinesPerFrame = 11
  VBlankScanline = 8
  PrerenderScanline = 10
  VCopyFirst = 10
  VCopyLast = 10
  CtrlValues <- MCCtrlValues
  MaskValues = {}
  ScrollValues = {}
  AddrValues = {}
  DataUsed = TRUE
  Instructions <- MCInstructions
  MaxCpuCycles = 60
SPECIFICATION AccountSpec
PROPERTIES
  StoreStepsOnce
CHECK_DEADLOCK FALSE
