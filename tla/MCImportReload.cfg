\* A library with a lookup table, built and loaded.
SPECIFICATION BuilderSpec
CONSTANTS
  Files = {}
  Names <- MCNames
  NameSize <- MCNameSize
  DescriptorSize = 20
  HintSize = 2
  VaSize = 4
  RvaMax = 255
  OrdinalMax = 3
  Starts <- MCOneStart
  NewLibrary <- MCNewLibrary
  Places <- MCOnePlace
  MaxEdits = 0
  MaxBuilds = 1
INVARIANT ModifiedLoads
CHECK_DEADLOCK FALSE
