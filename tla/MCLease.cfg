SPECIFICATION Spec
CONSTANTS
  None = None
  Funds = 3
  Gas = 1
  Price = 1
  Duration = 1
  RenewDuration = 1
  LeaseMaxDuration = 2
  LeaseSettleGrace = 1
  LeaseForceSettleGap = 3
  LeaseEscrowExpiry = 5
  LeaseArchiveGap = 1
  MaxAttestationSkew = 1
  Habits <- Apart
  MaxBlocks = 5
  MaxTime = 9
  RateAt <- MCRateAt
INVARIANTS
  LeaseTypeOK
  EscrowPaidOnce
  SettlePaysEverySegment
  WindowsApart
  XUSDNeverInflated
  BalancesSurviveRestart
PROPERTIES
  FinalizedBlocksStay
