SPECIFICATION AllSpec
CONSTANTS
  Blocks = {0, 1, 2, 3, 4, 5, 6}
  Chunks = {1, 2, 3, 4, 7}
  Modulus = 16
  NoCheckpoint = NoCheckpoint
  Pks = {1, 2, 3}
  Values = {1, 2, 3, 5}
  AsJson <- McAsJson
  Limits = {0, 1, 2}
  Filters <- McFilters
  MaxWrites = 2
  MaxRows = 6
  MaxRps = 2
  MaxTicks = 6
  MaxLimit = 1000
  MaxWords = 7
  Number <- McNumber
  Whole = {"5", "2000", "max"}
  Loose = {"fROM"}
  Qualified <- McQualified
  Banned = {"DROP"}
  WordBits = 6
  HalfBits = 3
  AddressBits = 4
  ByteBits = 2
INVARIANTS
  TilesBlocks MatchesPlanner PagesComplete BurstsBounded LogsRoundTrip
  AcceptedConfigsWork QueriesSanitised SignaturesCanonical GraphqlNamesResolve
CHECK_DEADLOCK FALSE
