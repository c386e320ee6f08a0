SPECIFICATION Spec
CONSTANTS
    None = None
    Node = {n1, n2}
    KVKey <- MCKVKey
    SysKey <- MCSysKey
    Under <- MCUnder
    Genesis <- MCGenesis
    MaxActivationFeatures = 64
    MaxEligibleRepresentatives = 1000
    Bodies <- MCBodies
    MaxIndex = 3
    MaxSigned = 3
    SyncMaxBlocks = 1
    GapPeers = 1
    PowerLoss = TRUE
SYMMETRY Symmetry
INVARIANTS
    ChainTypeOK
    ForksCrossRoles
    StateSurvivesRestart
PROPERTIES
    AnnouncedFirst
    LiveFeaturesStayLive
    EpochWriteOnce
    OnlyRises
