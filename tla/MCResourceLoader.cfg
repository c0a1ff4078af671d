SPECIFICATION Spec
CONSTANTS
  Files <- MCFiles
  U32Max = 31
  DirectorySize = 2
  EntrySize = 1
  DataEntrySize = 1
INVARIANTS
  TypeOK
  LoopsAreCut
  NothingSkipped
PROPERTY
  Terminates
CHECK_DEADLOCK FALSE
