\* A page of two bytes, as long as RAM; eight registers, once.  A palette that
\* answers once; four addresses mirror the name tables.  The words are those of
\* the real name table, every one, with two complementary bytes, so that every
\* bit is tried both ways, and the first and the last pattern.
CONSTANTS
  RamSize = 2
  PageSize = 2
  Byte = {0, 1}
  Roms <- MCRoms
  Targets <- MCTargets
  Pages <- MCPages
  MaxStores = 2
  TableSize = 3
  PaletteHalf = 4
  PaletteSpan = 8
  Value = {0, 1}
  ChrRom <- MCChrRom
  ByRowStep = 6
  Starts = {23, 30, 39}
  MaxWrites = 2
  Cols = 32
  Rows = 30
  RowCodes = 32
  Bytes = {90, 165}
  TileNumbers = {0, 255}
SPECIFICATION MemoriesSpec
INVARIANTS
  MemoriesTypeOK
  CopyIsComplete
  WordsAgree
  FetchesAreOfTile
PROPERTIES
  BusIsMirrored
  IsMirrored
  DownloadIsInOrder
CHECK_DEADLOCK FALSE
