--------------------------- MODULE CandidateProbe ---------------------------
(***************************************************************************)
(* One candidate's validations, request by request: validate_candidate,    *)
(* discover_candidate_feeds, safe_fetch and validate_public_url of         *)
(* src/src/ideas_hub/source_discovery.py.  SourceCandidates has the rows,  *)
(* locks and other actors around a validation and takes its outcome as a   *)
(* choice; here is how the outcome comes about.  Every server may answer   *)
(* every request as it likes: a page, a redirect anywhere, an error, or    *)
(* nothing.  So may DNS, each time a name is looked up.  httpx looks the   *)
(* name up again when it connects; who answers a request is left open.     *)
(***************************************************************************)
EXTENDS Scoring, Sequences

CONSTANTS
    Urls, NoUrl,
    Allowed,       \* those with a scheme, port and host that may be public
    Named,         \* those whose host is a name, which DNS has to resolve
    Secure,        \* those with the scheme https
    Home,          \* the candidate's homepage_url
    Offers,        \* the feed links on the page at a URL, then the common paths
    Pages, NoPage, \* what a server can return
    FeedAt,        \* what a probe sees of those that are feeds
    MaxRedirects,
    MaxReferrers   \* bound: referring sources of the candidate

FeedPages == DOMAIN FeedAt

ASSUME ProbeAssumption ==
    /\ NoUrl \notin Urls
    /\ Home \in Urls
    /\ Allowed \subseteq Urls /\ Named \subseteq Urls
    /\ Offers \in [Urls -> Seq(Urls)]
    /\ FeedPages \subseteq Pages /\ NoPage \notin Pages
    /\ FeedAt \in [FeedPages -> Feeds]
    /\ MaxRedirects \in Nat
    /\ MaxReferrers \in Nat

VARIABLES
    status,      \* SourceCandidate.status
    feedUrl,     \* SourceCandidate.feed_url
    retries,     \* SourceCandidate.retry_count
    reason,      \* SourceCandidate.rejection_reason, what it is about
    referrers,   \* source_count, counted at the start of a validation
    pc,          \* what the validation does next
    stage,       \* the loop it is in, or was in when it ended
    url,         \* safe_fetch: current
    lookup,      \* history: what looking up its host has shown at this hop
    redirects,   \* safe_fetch: redirect_number
    asked,       \* the URL safe_fetch was called with
    left,        \* the URLs the loop has still to fetch
    valid,       \* discover_candidate_feeds: valid
    feed,        \* the feed whose samples are being extracted
    best,        \* validate_candidate: best
    results      \* history: what the validation computed, in order

rowVars == <<status, feedUrl, retries, reason>>
fetchVars == <<url, lookup, redirects, asked>>
resultVars == <<best, results>>
vars == <<rowVars, referrers, pc, stage, fetchVars, left, valid, feed, resultVars>>

RetryLimit == 3

NoResult == [feed |-> NoUrl, page |-> NoPage, extracted |-> 0, score |-> 0]

Init ==
    /\ status = "discovered" /\ feedUrl = NoUrl /\ retries = 0 /\ reason = "none"
    /\ referrers = 0
    /\ pc = "idle" /\ stage = "home"
    /\ url = Home /\ lookup = "unknown" /\ redirects = 0 /\ asked = Home
    /\ left = <<>> /\ valid = <<>>
    /\ feed = NoPage /\ best = NoResult /\ results = <<>>

(* safe_fetch(u) *)
Fetch(u) ==
    /\ url' = u /\ lookup' = "unknown" /\ redirects' = 0 /\ asked' = u
    /\ pc' = "resolve"

-----------------------------------------------------------------------------
(* The life of the row between validations.                                 *)

(* POST /validate of a rejected candidate, which queues a validation too.   *)
Rescan ==
    /\ pc = "idle" /\ status = "rejected"
    /\ status' = "discovered" /\ retries' = 0 /\ reason' = "none"
    /\ UNCHANGED <<feedUrl, referrers, pc, stage, fetchVars, left, valid, feed, resultVars>>

BeginValidation ==
    /\ pc = "idle" /\ status # "rejected"
    /\ status' = "validating" /\ reason' = "none"
    /\ UNCHANGED <<feedUrl, retries>>
    /\ referrers' \in 0 .. MaxReferrers
    /\ stage' = "home"
    /\ Fetch(Home)
    /\ left' = <<>> /\ valid' = <<>> /\ feed' = NoPage
    /\ best' = NoResult /\ results' = <<>>

(* discover_source_candidates: new and failed candidates with retries left. *)
CycleValidates ==
    /\ status \in {"discovered", "failed"} /\ retries < RetryLimit
    /\ BeginValidation

-----------------------------------------------------------------------------
(* The ends of a validation.                                                *)

Ended ==
    /\ pc' = "idle"
    /\ UNCHANGED <<referrers, stage, fetchVars, left, valid, feed, resultVars>>

RejectUnsafe ==
    /\ status' = "rejected" /\ reason' = "unsafe"
    /\ UNCHANGED <<feedUrl, retries>>
    /\ Ended

GivesUpLate(count) == count > RetryLimit
GivesUp(count) == count >= RetryLimit

Fail(why) ==
    /\ retries' = retries + 1 /\ reason' = why
    /\ status' = IF GivesUp(retries + 1) THEN "rejected" ELSE "failed"
    /\ UNCHANGED feedUrl
    /\ Ended

-----------------------------------------------------------------------------
(* safe_fetch: at most MaxRedirects + 1 requests, each to a validated URL.  *)

(* What a host resolves to: only public addresses, also others, or nothing. *)
Lookups(u) == IF u \in Named THEN {"public", "other", "nothing"} ELSE {"literal"}

PassesFirst(u, found) ==
    redirects > 0 \/ (u \in Allowed /\ found \in {"public", "literal"})
Passes(u, found) == u \in Allowed /\ found \in {"public", "literal"}

Resolve ==
    /\ pc = "resolve"
    /\ \E found \in Lookups(url) : Passes(url, found) /\ lookup' = found
    /\ pc' = "request"
    /\ UNCHANGED <<rowVars, referrers, stage, url, redirects, asked, left, valid, feed,
                   resultVars>>

UncountedRedirect(u) == url' = u /\ lookup' = "unknown" /\ UNCHANGED redirects
FollowRedirect(u) == url' = u /\ lookup' = "unknown" /\ redirects' = redirects + 1

Redirect ==
    /\ pc = "request"
    /\ redirects < MaxRedirects
    /\ \E u \in Urls : FollowRedirect(u)
    /\ pc' = "resolve"
    /\ UNCHANGED <<rowVars, referrers, stage, asked, left, valid, feed, resultVars>>

(* What an UnsafeUrlError and any other exception of safe_fetch do: a probe *)
(* goes on to the next URL, the homepage and the second fetch of a feed     *)
(* end the validation.                                                      *)
IsolatesNothing == FALSE
IsIsolated == stage = "probe"

NextUrl ==
    /\ pc' = "next"
    /\ UNCHANGED <<rowVars, referrers, stage, fetchVars, left, valid, feed, resultVars>>

FetchUnsafe == IF IsIsolated THEN NextUrl ELSE RejectUnsafe
FetchFails == IF IsIsolated THEN NextUrl ELSE Fail("fetch")

(* A URL or a host that is not allowed, or one that does not resolve now.   *)
RefuseUrl ==
    /\ pc = "resolve"
    /\ \E found \in Lookups(url) : ~Passes(url, found)
    /\ FetchUnsafe

(* No location, or the last redirect allowed has been followed.             *)
RefuseRedirect == pc = "request" /\ FetchUnsafe

(* A host or a location that cannot be encoded or parsed, an error status, a*)
(* time-out, a body over 2 MB.  For the homepage, also a feed link on it    *)
(* that urljoin cannot parse: those are joined before the probes begin.     *)
RequestFails == pc \in {"resolve", "request"} /\ FetchFails

-----------------------------------------------------------------------------
(* discover_candidate_feeds.                                                *)

(* dict.fromkeys: the feed known so far comes first, and only once.         *)
Without(offers, u) ==
    IF u \in {offers[i] : i \in DOMAIN offers}
    THEN LET i == CHOOSE i \in DOMAIN offers : offers[i] = u
         IN  SubSeq(offers, 1, i - 1) \o SubSeq(offers, i + 1, Len(offers))
    ELSE offers

Possibilities(final) ==
    IF feedUrl = NoUrl THEN Offers[final]
    ELSE <<feedUrl>> \o Without(Offers[final], feedUrl)

ServeHome ==
    /\ pc = "request" /\ stage = "home"
    /\ stage' = "probe" /\ left' = Possibilities(url)
    /\ pc' = "next"
    /\ UNCHANGED <<rowVars, referrers, fetchVars, valid, feed, resultVars>>

ServeProbe ==
    /\ pc = "request" /\ stage = "probe"
    /\ \E page \in Pages :
          valid' = IF page \in FeedPages THEN Append(valid, url) ELSE valid
    /\ pc' = "next"
    /\ UNCHANGED <<rowVars, referrers, stage, fetchVars, left, feed, resultVars>>

FetchNext ==
    /\ pc = "next" /\ left # <<>>
    /\ left' = Tail(left)
    /\ Fetch(Head(left))
    /\ UNCHANGED <<rowVars, referrers, stage, valid, feed, resultVars>>

NoFeedFound ==
    /\ pc = "next" /\ stage = "probe" /\ left = <<>> /\ valid = <<>>
    /\ Fail("no feed")

-----------------------------------------------------------------------------
(* The scoring loop of validate_candidate: each valid feed once more.       *)

StartScoring ==
    /\ pc = "next" /\ stage = "probe" /\ left = <<>> /\ valid # <<>>
    /\ stage' = "score" /\ left' = valid
    /\ UNCHANGED <<rowVars, referrers, pc, fetchVars, valid, feed, resultVars>>

IsUsable(page) == page \in FeedPages /\ FeedAt[page].entries > 0

ServeUnusable ==
    /\ pc = "request" /\ stage = "score"
    /\ \E page \in Pages : ~IsUsable(page)
    /\ NextUrl

ServeFeed ==
    /\ pc = "request" /\ stage = "score"
    /\ \E page \in Pages : IsUsable(page) /\ feed' = page
    /\ pc' = "sample"
    /\ UNCHANGED <<rowVars, referrers, stage, fetchVars, left, valid, resultVars>>

IsAsGood(result) == best = NoResult \/ result.score >= best.score
IsBetter(result) == best = NoResult \/ result.score > best.score

IsHttps(u) == u \in Secure

(* Up to three entries are fetched and extracted concurrently; whatever one *)
(* of them raises counts as not extracted.                                  *)
ScoreFeed ==
    /\ pc = "sample"
    /\ \E extracted \in 0 .. Samples(FeedAt[feed]) :
          LET result == [feed |-> asked, page |-> feed, extracted |-> extracted,
                         score |-> CandidateScore(FeedAt[feed], extracted, referrers,
                                                  IsHttps(asked))]
          IN  /\ best' = IF IsBetter(result) THEN result ELSE best
              /\ results' = Append(results, result)
    /\ feed' = NoPage
    /\ pc' = "next"
    /\ UNCHANGED <<rowVars, referrers, stage, fetchVars, left, valid>>

NoUsableFeed ==
    /\ pc = "next" /\ stage = "score" /\ left = <<>> /\ best = NoResult
    /\ Fail("no entries")

PassesGates(result) ==
    PassesAutoApproveGates(FeedAt[result.page], result.score, result.extracted,
                           referrers, IsHttps(result.feed))

(* The score decides, and the row says so; promotion is SourceCandidates'.  *)
Decide ==
    /\ pc = "next" /\ stage = "score" /\ left = <<>> /\ best # NoResult
    /\ feedUrl' = best.feed
    /\ status' = IF PassesGates(best) THEN "auto_approved"
                 ELSE IF best.score >= ReviewScore THEN "pending" ELSE "rejected"
    /\ reason' = IF best.score >= ReviewScore THEN "none" ELSE "low score"
    /\ UNCHANGED retries
    /\ Ended

-----------------------------------------------------------------------------
ValidationStep ==
    \/ Resolve \/ Redirect \/ RefuseUrl \/ RefuseRedirect \/ RequestFails
    \/ ServeHome \/ ServeProbe \/ FetchNext \/ NoFeedFound
    \/ StartScoring \/ ServeUnusable \/ ServeFeed \/ ScoreFeed
    \/ NoUsableFeed \/ Decide

Next == Rescan \/ BeginValidation \/ ValidationStep

Spec == Init /\ [][Next]_vars

(* Every request ends, by the client's time-out if not before, and Beat     *)
(* runs a discovery cycle again and again.                                  *)
FairSpec == Spec /\ WF_vars(ValidationStep) /\ WF_vars(CycleValidates)
-----------------------------------------------------------------------------
(* Properties.                                                              *)

Results == [feed : Urls, page : FeedPages, extracted : 0 .. 3, score : Scores]

(* The locals have their shapes; no score leaves 0 to 100, no fetch follows *)
(* more than MaxRedirects redirects and no candidate fails more often than  *)
(* RetryLimit.                                                              *)
TypeOK ==
    /\ status \in {"discovered", "validating", "failed", "pending", "rejected", "auto_approved"}
    /\ feedUrl \in Urls \cup {NoUrl}
    /\ retries \in 0 .. RetryLimit
    /\ reason \in {"none", "unsafe", "fetch", "no feed", "no entries", "low score"}
    /\ referrers \in 0 .. MaxReferrers
    /\ pc \in {"idle", "resolve", "request", "next", "sample"}
    /\ stage \in {"home", "probe", "score"}
    /\ url \in Urls /\ asked \in Urls
    /\ lookup \in {"unknown", "public", "other", "nothing", "literal"}
    /\ redirects \in 0 .. MaxRedirects
    /\ left \in Seq(Urls) /\ valid \in Seq(Urls)
    /\ feed \in FeedPages \cup {NoPage}
    /\ pc = "sample" => feed # NoPage
    /\ best \in Results \cup {NoResult}
    /\ results \in Seq(Results)

(* "Validate DNS and each redirect": no request, at no hop of a redirect    *)
(* chain, goes to a URL that is not allowed, or to a name that has not been *)
(* looked up for this very hop and found to have public addresses only,     *)
(* however DNS has answered at earlier hops.  The name's address at the     *)
(* moment httpx connects is not part of the claim.                          *)
OnlyCheckedRequested ==
    pc = "request" => /\ url \in Allowed
                      /\ url \in Named => lookup = "public"

(* A page that merely offers a broken or forbidden feed cannot get its site *)
(* rejected or a failure counted: only the homepage (its links included), or*)
(* a feed found valid, can (the except of discover_candidate_feeds).        *)
ProbesAreIsolated ==
    pc = "idle" /\ reason \in {"unsafe", "fetch"} => stage # "probe"

FirstBest == CHOOSE i \in 1 .. Len(results) :
    \A j \in 1 .. Len(results) :
        \/ results[j].score < results[i].score
        \/ results[j].score = results[i].score /\ i <= j

(* A scored candidate is decided by its best feed, the first one among      *)
(* equals, with that feed's own gates: an automatic approval never rests on *)
(* the score of one feed and the samples or entries of another.             *)
BestFeedDecides ==
    pc = "idle" /\ results # <<>> /\ reason \in {"none", "low score"}
        /\ status # "discovered"
    => LET result == results[FirstBest]
       IN  /\ feedUrl = result.feed
           /\ status = "auto_approved" <=> PassesGates(result)
           /\ status = "rejected" <=> result.score < ReviewScore

(* "Transient failures retry in up to three discovery cycles": a candidate  *)
(* that is new, or has failed and may be retried, is decided in the end,    *)
(* whatever redirects, errors and time-outs its servers answer with.        *)
EventuallyDecided ==
    status \in {"discovered", "failed"}
        ~> status \in {"pending", "auto_approved", "rejected"}
=============================================================================
