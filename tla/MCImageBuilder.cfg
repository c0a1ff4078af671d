\* One load of any file of the catalog, or two of a few, and builds of the image.
SPECIFICATION Spec
CONSTANTS
  Width = 5
  RoundTo0 = 1
  TwoGB = 16
  None = None
  DosSize = 2
  SignatureSize = 1
  FileHeaderSize = 1
  MagicSize = 1
  OptionalSize = 1
  DirectorySize = 1
  HeaderSize = 1
  MaxLoads <- MCMaxLoads
  Catalog <- MCAllFiles
  Options <- MCAllOptions
  Builds <- MCBuilds
INVARIANTS TypeOK PiecesInside RoundTrip BuildPairsOwn BuffersTile
CHECK_DEADLOCK FALSE
