CONSTANTS
    VaMax = 24
    MaxEntries = 2
    Rvas = {1, 9}
    Headers <- MCHeaders
    TableSizes = {0, 11, 40, 74}
    ReachSizes = {0, 10, 24, 62}
    BlockSizes = {0, 7, 8, 10, 12, 20, 62}
    SmallSizes = {0, 3, 4, 16}
    RvaMax = 81
    Sizes = {0, 27, 28, 56, 60, 84}
    ReadableSizes = {28, 84}
    MaxListed = 2
    DataSizes = {0, 3, 4, 8, 16, 20, 25, 36, 54, 72, 75}
    MaxCount = 2
    Checksums <- MCChecksums
    Offsets = {0, 1, 15, 16, 17}
    MaxItems = 2
    MetadataSizes = {15, 23, 24, 31, 32, 36, 44, 48}
    MaxStreams = 2
    PolicySizes = {0, 15, 16, 31, 32, 48, 50}
    OverlayStarts = {16, 20}
    OverlaySizes = {0, 7, 24, 40}
    DirectorySizes = {0, 7, 8, 20, 24, 27, 40}
    CertificateSizes = {4, 8, 12, 16, 21}
    MaxCertificates = 2
    MaxNested = 1
SPECIFICATION Spec
INVARIANTS
    WholeTables
    VerdictsJust
PROPERTY LoadsEnd
CHECK_DEADLOCK FALSE
