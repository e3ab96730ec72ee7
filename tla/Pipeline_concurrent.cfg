CONSTANTS
  Crawls = {"c1", "c2"}
  Backfills = {"b1"}
  NoTask = NoTask
  Sources = {"s1", "s2"}
  NoSource = NoSource
  Urls = {"a", "b", "c"}
  SourceOf <- CrawlsOfTwoSources
  Feed <- OneStory
  Rank <- MCRank
  Limit = 3
  Canon <- MCCanon
  Hash <- MCHash
  Similar <- MCSimilar
  RecentLimit = 1
  MaxCrashes = 1
SPECIFICATION Spec
INVARIANTS TypeOK AtMostOneOpportunity SnapshotKept
PROPERTY OpportunitiesAreClaimed
