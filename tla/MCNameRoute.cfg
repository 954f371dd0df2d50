SPECIFICATION RouteSpec
CHECK_DEADLOCK FALSE
CONSTANTS
  Cases <- MCCases
  MaxUnknown = 1
  Periods <- MCPeriods
  MaxScripts = 4
  HxGames <- MCHxGames
  MaxRounds = 3
  Exts <- MCExts
INVARIANTS
  OrderIsVerified
  NobodysName
  FixedPointIsComplete
