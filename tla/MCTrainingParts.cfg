CONSTANTS
  Shards = {1, 2, 3}
  Initial = {1, 2}
  CacheLimit = 2
  BatchDraws = 2
  MaxDraws = 3
  GamesPerLevel = 6
  PairBatchSize = 2
  MaxDepth = 2
  MinGames = 4
  MaxGames = 6
  PairBatch = 2
  InferenceBatch = 2
  GameBatch = 6
  Weights <- LeagueWeights
  Parts = 10
  ArchiveDepth = 2
  Half = 32
  MaxAttempt = 3
  MaxGame = 14
SPECIFICATION PartsSpec
INVARIANTS ReplayIsSound MatchIsFair LeagueIsSound OpponentIsTrue LadderIsTrue
PROPERTIES WorkEnds OpeningsAreSound StoreIsSound
CHECK_DEADLOCK FALSE
