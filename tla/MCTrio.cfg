SPECIFICATION Spec
CONSTANTS
    A = A
    B = B
    C = C
    Node = {A, B, C}
    Account = {"a"}
    Block <- ForkBlock
    None = None
    Root = Root
    Acct <- ForkAcct
    Prev <- ForkPrev
    Src <- ForkSrc
    Height <- ForkHeight
    Anc <- ForkBelow
    Below <- ForkBelow
    FullyValid = {2}
    WeightOf <- TrioWeightOf
    MaxHashes = 10
    Faults = {}
    Synchronous = TRUE
SYMMETRY Symmetry
INVARIANTS NoLockSplit OnlyValidFinalized
