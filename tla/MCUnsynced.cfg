SPECIFICATION Spec
CONSTANTS
    A = A
    B = B
    C = C
    Node = {A, B}
    Account = {"a"}
    Block <- ForkBlock
    None = None
    Root = Root
    Acct <- ForkAcct
    Prev <- ForkPrev
    Src <- ForkSrc
    Height <- ForkHeight
    Anc <- ForkBelow
    Below <- ForkBelow
    FullyValid <- ForkBlock
    WeightOf <- SoloWeightOf
    MaxHashes = 10
    Faults = {"sync", "power"}
    Synchronous = FALSE
INVARIANTS Agreement
