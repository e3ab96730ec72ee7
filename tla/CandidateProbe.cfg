CONSTANTS
    home = home
    rss = rss
    mirror = mirror
    lan = lan
    html = html
    rich = rich
    poor = poor
    empty = empty
    NoUrl = NoUrl
    NoPage = NoPage
    Urls <- MCUrls
    Allowed <- MCAllowed
    Named <- MCNamed
    Secure <- MCSecure
    Home = home
    Offers <- MCOffers
    Pages <- MCPages
    FeedAt <- MCFeedAt
    MaxRedirects = 3
    MaxReferrers = 2
SPECIFICATION FairSpec
INVARIANT TypeOK
INVARIANT OnlyCheckedRequested
INVARIANT ProbesAreIsolated
INVARIANT BestFeedDecides
PROPERTY EventuallyDecided
