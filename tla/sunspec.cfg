SPECIFICATION FairSpec
CONSTANTS
    Schema <- MCSchema
    Configs <- MCConfigs
    Update <- MCUpdate
    Unit = 10
    Modulus = 1024
    SunS = 5555
    Tag = {"watts", "ena"}
    Level <- MCLevel
    None = None
    MaxStatus = 1
    MaxUpdates = 1
    MaxTimeouts = 1
    MaxUnsent = 1
INVARIANTS TypeOK
PROPERTIES Discovered ReportsTrue HangIsReported Converges
CHECK_DEADLOCK FALSE
