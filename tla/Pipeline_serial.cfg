CONSTANTS
  Crawls = {"c1"}
  Backfills = {"b1"}
  NoTask = NoTask
  Sources = {"s1"}
  NoSource = NoSource
  Urls = {"x", "a", "a2", "r", "v", "y"}
  SourceOf <- OneCrawl
  Feed <- SameFeed
  Rank <- MCRank
  Limit = 2
  Canon <- MCCanon
  Hash <- MCHash
  Similar <- MCSimilar
  RecentLimit = 2
  MaxCrashes = 1
SPECIFICATION FairSpec
INVARIANTS ArticleCountExact OneEventPerStory OneArticlePerContent
PROPERTY WindowIngested
