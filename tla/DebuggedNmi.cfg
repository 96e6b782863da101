\* The interrupt is requested, and stays so.
CONSTANTS
  Cols = 1
  Rows = 1
  RowCodes = 8
  CyclesPerScanline = 11
  ScanlinesPerFrame = 11
  VBlankScanline = 8
  PrerenderScanline = 10
  VCopyFirst = 10
  VCopyLast = 10
  CtrlValues <- MCCtrlValues
  MaskValues = {}
  ScrollValues = {}
  AddrValues = {}
  DataUsed = FALSE
  Instructions <- MCInstructions
  BurstLength = 3
  ViewReads <- MCView
SPECIFICATION FairDebuggedSpec
PROPERTIES
  InterruptsAreTaken
