SPECIFICATION FairSpec
CONSTANTS
    Leases <- TwoLeases
    Workers = {"g", "h"}
    Size <- Sizes
    Capacity = 2
    Slots = 2
    MaxConcurrent = 2
    MaxLives = 2
    MaxUndos = 1
    None = None
    Habits <- Cases
INVARIANTS ProviderTypeOK NoOversubscription
PROPERTIES MachineStaysWhileAccepted EndedLeasesFreeTheirMachine
    FailedAcceptsAreRetried AcceptedLeasesEnd AttemptsEnd
