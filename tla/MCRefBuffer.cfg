\* Two handles on a stream and on each other, through windows with virtual tails.
SPECIFICATION Spec
CONSTANTS
  b1 = b1 b2 = b2
  c1 = c1 c2 = c2 c3 = c3
  src = src
  Buffers <- MCBuffers
  Cells <- MCCells
  Sources <- MCSources
  Streams <- MCSources
  Data = {1}
  MaxLen = 2
  Windows <- MCWindows
  MaxVirt = 1
  ChunkSize = 1
  SizeMax = 9
VIEW View
SYMMETRY Symmetry
INVARIANTS TypeOK SoleOwner SplitSerialize
PROPERTIES WriteIsolation CopyPreserves KeepsValues
CHECK_DEADLOCK FALSE
