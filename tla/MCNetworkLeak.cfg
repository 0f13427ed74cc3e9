CONSTANTS
  Personalkeys = {p1, p2}
  Computekeys = {h1}
  NoKey = NoKey
  Absent = Absent
  NotDelegate = NotDelegate
  NoUid = NoUid
  ZeroHash = ZeroHash
  Takes = {100}
  StakeAmounts = {1}
  TxRateLimit = 1
  ExistentialDeposit = 1
  Nets <- MCNets
  GenesisNets <- MCGenesisNets
  RegistrationAllowedNets <- MCNets
  PowRegistrationAllowedNets <- MCNets
  MaxAllowedUids <- MCMaxAllowedUids
  MaxRegistrationsPerBlock = 1
  TargetRegistrationsPerInterval = 1
  AdjustmentInterval = 2
  ImmunityPeriod = 2
  Tempo = 1
  InitialBurn = 1
  InitialMinBurn = 1
  InitialMaxBurn = 2
  InitialDifficulty = 2
  InitialMinDifficulty = 2
  InitialMaxDifficulty = 4
  AdjustmentAlpha = 0
  U64Max = 8
  HashSpace = 32
  SwapCost = 1
  Nonces = {}
  PruningScoreValues = {0}
  SenateMaxMembers = 1
  DefaultTake = 26214
  InitialBalance = 3
  NewBrainMinBurn = 1
  MaxBrains = 2
  NetworkRateLimit = 1
  NetworkMinLock = 1
  LockReductionInterval = 2
  NetworkImmunityPeriod = 1
  InitialLastLock = 2
  EmissionValueSet = {0, 1}
SPECIFICATION LifecycleSpec
CONSTRAINT StateConstraint
SYMMETRY Symmetry
INVARIANT RemovedNetworkLeavesNoMembers
