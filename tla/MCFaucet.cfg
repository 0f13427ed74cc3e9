CONSTANTS
  Personalkeys = {p1, p2}
  Computekeys = {h1, h2}
  NoKey = NoKey
  Absent = Absent
  NotDelegate = NotDelegate
  NoUid = NoUid
  ZeroHash = ZeroHash
  Takes = {100}
  StakeAmounts = {1}
  TxRateLimit = 1
  ExistentialDeposit = 1
  Nets <- MCNets
  GenesisNets <- MCNets
  RegistrationAllowedNets <- MCNets
  PowRegistrationAllowedNets <- MCNets
  MaxAllowedUids <- MCMaxAllowedUids
  MaxRegistrationsPerBlock = 1
  TargetRegistrationsPerInterval = 1
  AdjustmentInterval = 2
  ImmunityPeriod = 2
  Tempo = 1
  InitialBurn = 2
  InitialMinBurn = 1
  InitialMaxBurn = 3
  InitialDifficulty = 2
  InitialMinDifficulty = 1
  InitialMaxDifficulty = 3
  AdjustmentAlpha = 0
  U64Max = 8
  HashSpace = 16
  SwapCost = 1
  Nonces = {7}
  PruningScoreValues = {0, 65535}
  SenateMaxMembers = 1
  DefaultTake = 26214
  InitialBalance = 3
  FaucetAmount = 2
  MaxIssued = 4
SPECIFICATION FaucetSpec
CONSTRAINT StateConstraint
SYMMETRY Symmetry
INVARIANT TypeOK StakeAggregatesConsistent IssuanceMatchesBalances RegistryConsistent RegisteredKeysOwnedAndRootDelegated
PROPERTY DeregistrationRefundsStake
