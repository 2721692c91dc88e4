SPECIFICATION ReviewSpec
CONSTANTS
  NoiseTokens <- Noise
  NoReference = NoReference
  NoPair = NoPair
  NoAccount = None
  NoCategory = None
  NoCurrency = NoCurrency
  NoEntry = NoEntry
  NoPreference = NoPreference
  NothingShown = NothingShown
  MerchantTable <- Table
  Categories = {"office", "software"}
  Learners = {c1, c2}
  c1 = c1
  c2 = c2
  MaxDecisions = 3
  MaxBatch = 2
  Cases <- MCCases
  LearnedCases <- MCLearnedCases
  Names <- MCNames
  Merchant <- Merchant1
  Classified <- MCClassified
  Filters <- MCFilters
SYMMETRY Symmetric
INVARIANTS PatternsExplainOnce PanelAddsUp EarlyExitIsExact ComparisonIsComplete LearnedIsEarned
