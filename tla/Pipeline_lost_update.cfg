CONSTANTS
  Crawls = {"c1", "c2"}
  Backfills = {}
  NoTask = NoTask
  Sources = {"s1", "s2"}
  NoSource = NoSource
  Urls = {"a", "b", "c"}
  SourceOf <- CrawlsOfTwoSources
  Feed <- SameFeed
  Rank <- MCRank
  Limit = 3
  Canon <- MCCanon
  Hash <- MCHash
  Similar <- MCSimilar
  RecentLimit = 2
  MaxCrashes = 0
SPECIFICATION Spec
INVARIANT ArticleCountExact
