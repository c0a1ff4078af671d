CONSTANTS
    ArmDirectories <- ArmCatalog
    X64Directories <- X64Catalog
    MaxRva = 100
    X64MaxRva = 100
    max_c_specific_records = 2
    StackDepth = 4
    MaxBaseEpilogs = 7
    MaxBaseWords = 3
    Counts <- CountValues
    Images <- ImageCatalog
    EditedWords <- RightWords
    LeftOut <- WrongSetters
SPECIFICATION Spec
INVARIANTS
    CodesTile
    BehindCodesFound
    FieldsIndependent
PROPERTIES
    CountsIndependent
    EveryLoadEnds
CHECK_DEADLOCK FALSE
