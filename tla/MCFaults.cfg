SPECIFICATION Spec
CONSTANTS
    A = A
    B = B
    C = C
    Node = {A, B}
    Account = {"a", "b"}
    Block <- SpentBlock
    None = None
    Root = Root
    Acct <- SpentAcct
    Prev <- SpentPrev
    Src <- SpentSrc
    Height <- SpentHeight
    Anc <- SpentAnc
    Below <- SpentBelow
    FullyValid <- SpentBlock
    WeightOf <- EvenWeightOf
    MaxHashes = 10
    Faults = {"vote", "sync", "stage", "restart"}
    Synchronous = FALSE
SYMMETRY FullSymmetry
INVARIANTS TypeOK Agreement FinalVotesBound LatticeWellFormed
PROPERTIES ImplementsPromise
