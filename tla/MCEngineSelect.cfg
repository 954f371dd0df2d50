SPECIFICATION FSpec
CONSTANTS
  Games <- MCGames
  SampleCount = 3
  SampleBytes = 6
  Preflight = 2
  WordLimit = 8
  MaxCombinations = 8
  SeedWindow = 2
  KeyLimit = 8
  ReferenceKeys <- MCReferenceKeys
  BuilderReach = 20
  PointerReach = 10
  SeedReach = 8
  MaxOrders = 2
  MaxTuples = 8
  MaxSeeds = 3
  RandomLooking = {7, 8, 9}
  DynSize = 12
  Align = 2
  ChunkSize = 2
  MaxSteps = 8
  CallbackMaxSteps = 3
  Filtered <- MCFiltered
  HxOrders <- MCHxOrders
  StudiedBuilders <- MCBuilders
  BuilderSamples = 40
  Lanes = 128
  Hashes <- MCHashes
  Positions = {0, 3, 5, 20}
  FileSize = 10
  Pieces = {1, 3, 10}
  PrefixBytes = 4
  Width = 28
  Budget = 128
  TopStage = 5
  Control <- MCControl
  TableAt = 777
INVARIANTS
  SelectedFits
  OnlyOneFits
  RightParamsAreFound
  LanesAgree
  DispatchIsRecovered
  PiecesAreTheWhole
CHECK_DEADLOCK FALSE
