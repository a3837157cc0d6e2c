\* One user; offers of two retailers that age apart.  Three products share batches of
\* one to three; the seed has three.  The bounds of the other parts are in MCJobs.
SPECIFICATION SpecParts
CONSTANTS
  User = {u1}
  Retailer = {q1, q2}
  Price = {1, 2}
  StaleAfter = 0
  MaxTime = 2
  MaxRuns = 2
  None = None
  Products = 3
  MaxSize = 3
  MaxVisitors = 1
  SeedProducts = 3
  MaxCrashes = 1
  MaxSeeds = 3
  Runner = {"server", "cli"}
  Budget = 4
  NameNeeds = 2
  BrowserNeeds = 3
  MaxArticles = 2
  MaxPayloads = 2
INVARIANT OffersAreTrue
INVARIANT LookupsAreExact
INVARIANT BatchesAreFair
PROPERTY ChecksAreSpaced
PROPERTY AbandonedClaimRecovers
PROPERTY StaleRowsSettle
PROPERTY JobsEnd
