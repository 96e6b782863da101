\* The top of the page is the first cell.
CONSTANTS
  StackSize = 7
  Radix = 4
  ResetTop = 4
  Tops = {6}
  Sites = {13}
  Loads = {0, 3}
SPECIFICATION StackSpec
PROPERTIES
  SubroutinesReturn
