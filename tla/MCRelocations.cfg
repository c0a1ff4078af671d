\* Directories of one and two blocks, right and wrong, loaded and built again; images
\* moved by what was loaded, and by entries that fail, overlap, or are partly virtual.
SPECIFICATION RelocationsSpec
CONSTANTS
  Files <- MCFiles
  ByteRange = 4
  TypeUnit = 4
  HighAdj = 2
  Supported = {0, 1, 2}
  MaxRebuilds = 1
  Cases <- MCCases
  MaxCalls = 3
  TypeNames <- MCTypeNames
  MovedImages <- MCMoved
INVARIANTS CleanIsFaithful RebuiltLoads MovesCompose AllOrNothingSupported
PROPERTY Ended
CHECK_DEADLOCK FALSE
