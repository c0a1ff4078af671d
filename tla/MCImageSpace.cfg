\* Every image as loaded, and images edited twice.
SPECIFICATION Spec
CONSTANTS
  Width = 5
  RoundTo0 = 1
  TwoGB = 16
  None = None
  Files <- MCFiles
  EditSizes <- MCSizes
  LowAlignMax = 2
INVARIANTS RegionInside RestIsMaximal AddressAgreement
PROPERTY ImageSizeCovers
CHECK_DEADLOCK FALSE
