\* Directories in files, loaded; and directories that are edited, built, loaded, and built again.
SPECIFICATION BuilderSpec
CONSTANTS
  Files <- MCFiles
  Names <- MCNames
  NameSize <- MCNameSize
  DescriptorSize = 4
  HintSize = 1
  VaSize = 2
  RvaMax = 150
  OrdinalMax = 3
  Starts <- MCStarts
  NewLibrary <- MCNewLibrary
  Places <- MCPlaces
  MaxEdits = 1
  MaxBuilds = 2
INVARIANTS TablesComplete DifferencesFound BuiltIsImported ReloadFindsImports
PROPERTY Ends
CHECK_DEADLOCK FALSE
