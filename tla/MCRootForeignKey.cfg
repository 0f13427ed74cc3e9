CONSTANTS
  Personalkeys = {p1, p2}
  Computekeys = {h1, h2}
  NoKey = NoKey
  Absent = Absent
  NotDelegate = NotDelegate
  NoUid = NoUid
  ZeroHash = ZeroHash
  Takes = {100}
  StakeAmounts = {1}
  TxRateLimit = 1
  ExistentialDeposit = 1
  Nets <- MCNets
  GenesisNets <- MCNets
  RegistrationAllowedNets <- MCNets
  PowRegistrationAllowedNets <- MCNets
  MaxAllowedUids <- MCMaxAllowedUids
  MaxRegistrationsPerBlock = 1
  TargetRegistrationsPerInterval = 1
  AdjustmentInterval = 2
  ImmunityPeriod = 2
  Tempo = 1
  InitialBurn = 1
  InitialMinBurn = 1
  InitialMaxBurn = 2
  InitialDifficulty = 2
  InitialMinDifficulty = 2
  InitialMaxDifficulty = 4
  AdjustmentAlpha = 0
  U64Max = 8
  HashSpace = 32
  SwapCost = 1
  Nonces = {7}
  PruningScoreValues = {0, 65535}
  SenateMaxMembers = 2
  DefaultTake = 26214
  InitialBalance = 3
SPECIFICATION SpecCore
CONSTRAINT StateConstraint
SYMMETRY Symmetry
PROPERTY RootDelegationByOwner
