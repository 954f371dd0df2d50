CONSTANTS
  AdlerMod = 5
  MaxCombinations = 16
  MaxHalf = 16
  MaxSolutions = 2
  TopK = 2
  MinTemplate = 4
  MinSamples = 2
  PruneGap = 1
  SingletonGap = 2
  Tags <- MCTags
  MinPeriod = 1
  MaxPeriod = 7
  Problems <- MCProblems
  TopPeriods = 3
  HistogramRanks = 1
  GuessRanks = 2
  CommonPeriods <- MCCommon
  MaxRounds = 2
  MaxHistogramRounds = 2
  ReportTop = 3
  MaxSamples = 3
SPECIFICATION Spec
CHECK_DEADLOCK FALSE
INVARIANTS EvidenceIsSound ContentKeyFitsAll
PROPERTIES SearchIsExact
