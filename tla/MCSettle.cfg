SPECIFICATION FairSpec
CONSTANTS
    A = A
    B = B
    C = C
    Node = {A, B}
    Account = {"a"}
    Block <- TowerBlock
    None = None
    Root = Root
    Acct <- TowerAcct
    Prev <- TowerPrev
    Src <- TowerSrc
    Height <- TowerHeight
    Anc <- TowerAnc
    Below <- TowerAnc
    FullyValid <- TowerBlock
    WeightOf <- PairWeightOf
    MaxHashes = 10
    Faults = {"vote"}
    Synchronous = TRUE
INVARIANTS FinalizedIsChosen
PROPERTIES EverythingSettles
