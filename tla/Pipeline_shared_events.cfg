CONSTANTS
  Crawls = {"c1", "c2"}
  Backfills = {}
  NoTask = NoTask
  Sources = {"s1", "s2"}
  NoSource = NoSource
  Urls = {"x", "a", "y", "b", "z", "c"}
  SourceOf <- CrawlsOfTwoSources
  Feed <- CommonStories
  Rank <- MCRank
  Limit = 2
  Canon <- MCCanon
  Hash <- MCHash
  Similar <- MCSimilar
  RecentLimit = 2
  MaxCrashes = 0
SPECIFICATION Spec
INVARIANTS SignalMatchesEvent SourceCountExact EveryArticleFiled AnalyticsNeverDeadlock
