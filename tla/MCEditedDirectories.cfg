CONSTANTS
    PartsRun <- Built
    MaxOrdinal = 4
    MaxSymbols = 2
    Strings = {1, 2}
    CodeRva = 1000
    DirectoryRva = 101
    Callbacks = {7, 8}
    MaxCallbacks = 2
    RawSizes = {0, 1, 3, 5}
    VirtualSizes = {0, 2}
    Libraries = {1, 3}
    MaxLibraries = 2
    OffsetMax = 62
    Checksums <- MCChecksums
    Offsets = {0, 1, 15, 16, 17}
    MaxItems = 2
    PageSize = 8
    ChecksumSize = 2
    EntryFieldSize = 2
    HeaderSizes = {8, 11, 17}
    ChecksumAt = {0, 6, 7}
    EntryAt = {1, 3, 9, 14}
    SectionLists <- MCSectionLists
    OverlayBytes = {3}
    SecurityBytes = {0, 2, 4}
    HalfValues = 4
    Contents <- MCContents
    ResourceSizes = {7, 12, 26, 32}
    BlockLengths = {0, 2, 8, 14, 16, 32}
    ValueLengths = {0, 2, 8, 32}
    MaxDepth = 2
    MaxInfoItems = 4
    TableBytes = {3, 27, 40}
    MessageIds = {1, 2, 4}
    EntryOffsets = {28, 41}
    EntryLengths = {4, 6, 7}
    MaxBlocks = 2
    MaxMessages = 3
    PictureSizes = {5, 6, 20, 39, 45}
    MaxPictures = 2
    StringCount = 3
    MaxAccelerators = 2
    Trees <- MCTrees
    ResourceIds = {"one", "two"}
    ResourceNames = {"name"}
    MaxEdits = 2
    Documents <- MCDocuments
    ValueTexts <- MCTexts
    NumberMax = 26
    LongMax = 222
    ProgidMax = 6
    KeyLength = 4
    Declarations <- MCDeclarations
    Attributes <- MCAttributes
    ElementPrefixes = {"-", "p"}
    MaxElements = 3
SPECIFICATION Spec
INVARIANT EditsSurvive
CHECK_DEADLOCK FALSE
