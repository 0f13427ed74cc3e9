CONSTANTS
  Personalkeys = {p1}
  Computekeys = {h1, h2}
  NoKey = NoKey
  Absent = Absent
  NotDelegate = NotDelegate
  NoUid = NoUid
  ZeroHash = ZeroHash
  Takes = {100}
  StakeAmounts = {1}
  TxRateLimit = 1
  ExistentialDeposit = 1
  Nets <- MCNets
  GenesisNets <- MCGenesisNets
  RegistrationAllowedNets <- MCNets
  PowRegistrationAllowedNets <- MCNets
  MaxAllowedUids <- MCMaxAllowedUids
  MaxRegistrationsPerBlock = 2
  TargetRegistrationsPerInterval = 1
  AdjustmentInterval = 2
  ImmunityPeriod = 1
  Tempo = 1
  InitialBurn = 2
  InitialMinBurn = 1
  InitialMaxBurn = 3
  InitialDifficulty = 2
  InitialMinDifficulty = 1
  InitialMaxDifficulty = 4
  AdjustmentAlpha = 0
  U64Max = 8
  HashSpace = 32
  SwapCost = 1
  Nonces = {}
  PruningScoreValues = {0}
  SenateMaxMembers = 1
  DefaultTake = 26214
  InitialBalance = 4
  ServingRateLimit = 2
  IpTypes = {0, 4, 6}
  IpAddrs = {0, 1, 5, 2130706433, 2147483000, 2147483647}
  Ports = {0, 8091}
  U32Max <- MCU32Max
  U128Max <- MCU128Max
SPECIFICATION ServingSpec
CONSTRAINT StateConstraint
SYMMETRY Symmetry
PROPERTY ServingRateLimitPerKey
