SPECIFICATION FairSpec
CONSTANTS
    Node = {"c", "s"}
    Account = {"a", "b"}
    None = None
    Root = Root
    Block = {1, 2, 3}
    Acct <- MCAcct
    Prev <- MCPrev
    Src <- MCSrc
    Height <- MCHeight
    Anc <- MCAnc
    Below <- MCBelow
    FullyValid <- MCFullyValid
    WeightOf <- MCWeightOf
    MaxHashes = 10
    Client = {"c"}
    Home <- MCHome
    Winner = {2, 3}
    Gated = {3}
    Unstageable = {3}
    Mints = {}
    Rotates = {}
    SignedFor <- MCSignedFor
    PageSize = 2
    MaxServerBlocks = 2
    DropThreshold = 1
    MaxRetries = 2
    MaxQuarantine = 2
    Slot = {1, 2}
    MaxFaults = 1
INVARIANTS
    SyncTypeOK
    

    
