SPECIFICATION Spec
CONSTANTS
    Account = {1, 2, 3}
    r1 = r1
    r2 = r2
    k1 = k1
    k2 = k2
    Rep = {r1, r2}
    Block <- MCBlock
    Body <- MCBody
    Below <- MCBelow
    GenesisBlock = 0
    None = None
    Root = Root
    Minter = {3}
    Favoured = {1, 3, 4, 5, 11}
    Adder = {t1, t2}
    MaxUint = 10
    MaxRestarts = 1
INVARIANTS LedgerTypeOK MemoryMatchesStore SupplyConserved
PROPERTIES SpendableStays CallsReturn
CHECK_DEADLOCK FALSE
