\* Two official lines and two others; -n before, at and behind both ends.
\* Units of different sizes, so that no two positions agree by accident, and a
\* file that may be longer than the largest header asks for.
CONSTANTS
  OfficialEnd = 2
  AllEnd = 4
  MaxChoices = {1, 2, 7}
  HeaderSize = 2
  TrainerSize = 3
  PrgUnit = 4
  ChrUnit = 1
  MaxBanks = 2
  MaxLength = 16
SPECIFICATION ClientSpec
CHECK_DEADLOCK FALSE
INVARIANTS
  TraceTypeOK
  VerdictIsOfFirst
  NothingLeftOpen
PROPERTIES
  StopsAtDifference
  PassedIsCompared
  InesLoadsAllOrNothing
  TraceEnds
