CONSTANTS
  Personalkeys = {p1}
  Computekeys = {h1, h2, h3}
  NoKey = NoKey
  Absent = Absent
  NotDelegate = NotDelegate
  NoUid = NoUid
  ZeroHash = ZeroHash
  Takes = {100}
  StakeAmounts = {1}
  TxRateLimit = 1
  ExistentialDeposit = 1
  Nets <- MCNets
  GenesisNets <- MCNets
  RegistrationAllowedNets <- MCNets
  PowRegistrationAllowedNets <- MCNets
  MaxAllowedUids <- MCMaxAllowedUids
  MaxRegistrationsPerBlock = 1
  TargetRegistrationsPerInterval = 1
  AdjustmentInterval = 2
  ImmunityPeriod = 2
  Tempo = 1
  InitialBurn = 1
  InitialMinBurn = 1
  InitialMaxBurn = 1
  InitialDifficulty = 2
  InitialMinDifficulty = 2
  InitialMaxDifficulty = 2
  AdjustmentAlpha = 0
  U64Max = 8
  HashSpace = 32
  SwapCost = 1
  Nonces = {7}
  PruningScoreValues = {0, 1, 65535}
  SenateMaxMembers = 1
  DefaultTake = 26214
  InitialBalance = 2
  Proposals = {pr1}
SPECIFICATION SenateSpec
CONSTRAINT StateConstraint
SYMMETRY Symmetry
INVARIANT  PruneChoiceAsSpecified RegistryConsistent RegisteredKeysOwnedAndRootDelegated VotesOnlyBySenate
PROPERTY RegistryRefinesAbstract
