CONSTANTS
    ArmDirectories <- ArmCatalog
    X64Directories <- X64Catalog
    MaxRva = 100
    X64MaxRva = 100
    max_c_specific_records = 2
    StackDepth = 4
    MaxBaseEpilogs = 7
    MaxBaseWords = 3
    Counts <- CountValues
    Images <- ImageCatalog
    EditedWords <- PackedWords
    LeftOut = {}
SPECIFICATION Spec
INVARIANT FieldsIndependent
CHECK_DEADLOCK FALSE
