\* Two tile columns, one row of tiles and seven attribute rows; 8 lines.
CONSTANTS
  Cols = 2
  Rows = 1
  RowCodes = 8
  CyclesPerScanline = 19
  ScanlinesPerFrame = 10
  VBlankScanline = 8
  PrerenderScanline = 9
  VCopyFirst = 18
  VCopyLast = 18
  CtrlValues <- MCCtrlValues
  MaskValues <- MCMaskValues
  ScrollValues <- MCScrollValues
  AddrValues <- MCAddrValues
  DataUsed = TRUE
SPECIFICATION RasterSpec
INVARIANTS
  RasterPosition
