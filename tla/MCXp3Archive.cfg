SPECIFICATION TemplateSpec
CHECK_DEADLOCK FALSE
CONSTANTS
  Files <- MCFiles
  Readers = {r1, r2}
  MaxBlocks = 4
  Para = 4
  Window = 8
  MagicLen = 3
  Prefix = 2
  HeaderEnd = 4
  BlockLen = 2
INVARIANTS
  OpenedAsRead
  ReadsOwnRange
  RepackedReadsBack
PROPERTIES
  OpenEnds
