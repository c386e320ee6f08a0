SPECIFICATION Spec
CONSTANTS
    A = A
    B = B
    C = C
    Node = {A, B}
    Account = {"a"}
    Block <- TripleBlock
    None = None
    Root = Root
    Acct <- TripleAcct
    Prev <- TriplePrev
    Src <- TripleSrc
    Height <- TripleHeight
    Anc <- TripleBelow
    Below <- TripleBelow
    FullyValid = {2, 3}
    WeightOf <- PairWeightOf
    MaxHashes = 10
    Faults = {}
    Synchronous = FALSE
INVARIANTS Agreement
