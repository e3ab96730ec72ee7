CONSTANTS
  c1 = c1
  c2 = c2
  f1 = f1
  f2 = f2
  Candidates = {c1, c2}
  Feeds = {f1, f2}
  NoFeed = NoFeed
  Offers <- MCOffers
  Articles = {a1, a2}
  Referrer <- MCReferrer
  Outlinks <- MCOutlinks
  Submissions <- MCSubmissions
  Catalogue <- MCCatalogue
  Workers = {w1}
  Operators = {o1}
  NoTask = NoTask
  NoSource = NoSource
  NoCandidate = NoCandidate
  RetryLimit = 2
  MaxQueued = 1
  MaxRetries = 2
  MaxCrashes = 1
SYMMETRY Renamings
SPECIFICATION Spec
INVARIANTS TypeOK AutoApprovedIsReferred LiveFeedsWereValidated LiveHasSource
  NothingShared
