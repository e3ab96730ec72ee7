------------------------------- MODULE Scoring -------------------------------
(***************************************************************************)
(* The formulas of signal_score (pipeline.py), calculate_candidate_score   *)
(* and passes_auto_approve_gates (source_discovery.py) and                 *)
(* OpportunityScore.weighted_score (schemas.py) over integers: scores are  *)
(* hundredths, which is what the code rounds to, and the fractions that    *)
(* enter a signal's score are thousandths.                                 *)
(***************************************************************************)
EXTENDS Integers

AtMost(bound, x) == IF x <= bound THEN x ELSE bound
AtLeast(bound, x) == IF x >= bound THEN x ELSE bound

Scores == 0 .. 10000

(* round(a / b); no quotient below is a half *)
Rounded(a, b) == (2 * a + b) \div (2 * b)

-----------------------------------------------------------------------------
(* Signals.                                                                 *)

Thousandths == 0 .. 1000

SignalScore(velocity, persistence, breadth, authority, novelty, relevance) ==
    (20 * velocity + 15 * persistence + 15 * breadth + 15 * authority
        + 10 * novelty + 25 * relevance + 5) \div 10

IsSignalEligible(score) == score >= 5000

(* The features of an event of articleCount articles of sourceCount sources *)
(* that a crawl has just created: it counts as one day old, and log1p(1) is *)
(* 0.2018 of log(31).                                                       *)
YoungVelocity(articleCount) == AtMost(1000, (1000 * articleCount + 2) \div 3)
YoungPersistence == 202
Breadth(sourceCount) == AtMost(1000, 125 * sourceCount)
Novelty == 650
EconomicRelevance == 600

YoungScore(articleCount, sourceCount, authority) ==
    SignalScore(YoungVelocity(articleCount), YoungPersistence,
                Breadth(sourceCount), authority, Novelty, EconomicRelevance)

-----------------------------------------------------------------------------
(* Opportunities: the judge's marks are 0 to 100.                           *)

Marks == 0 .. 100

WeightedScore(pain, change, payment, whyNow, gap, distribution, buildability, reason, risk) ==
    AtLeast(0, AtMost(10000,
        18 * pain + 15 * change + 13 * payment + 12 * whyNow + 10 * gap
            + 10 * distribution + 8 * buildability + 7 * reason - 7 * risk))

-----------------------------------------------------------------------------
(* Candidates.  A feed, as a probe sees it: entries with a link, those on   *)
(* the feed's own domain, the age of the latest in days, rounded up, and    *)
(* how many of the first 20 titles are about the market.                    *)

Feeds == [entries : Nat, own : Nat, age : Nat, relevant : Nat]

Samples(feed) == AtMost(3, feed.own)

FeedValidity(feed) == IF feed.entries >= 10 THEN 2000 ELSE 200 * feed.entries
Freshness(feed) == IF feed.age <= 7 THEN 1500 ELSE IF feed.age <= 14 THEN 1000 ELSE 0
Extractability(feed, extracted) == Rounded(2500 * extracted, AtLeast(1, Samples(feed)))
MarketRelevance(feed) ==
    AtMost(2000, Rounded(20000 * feed.relevant, 3 * AtMost(20, feed.entries)))
ReferralDiversity(referrers) == AtMost(1500, 750 * referrers)
HttpsPoints(isHttps) == IF isHttps THEN 500 ELSE 0

CandidateScore(feed, extracted, referrers, isHttps) ==
    FeedValidity(feed) + Freshness(feed) + Extractability(feed, extracted)
        + MarketRelevance(feed) + ReferralDiversity(referrers) + HttpsPoints(isHttps)

AutoApproveScore == 8500
ReviewScore == 6000

PassesAutoApproveGates(feed, score, extracted, referrers, isHttps) ==
    /\ score >= AutoApproveScore
    /\ isHttps
    /\ feed.entries >= 10
    /\ feed.age <= 7
    /\ 10 * feed.own >= 8 * feed.entries
    /\ extracted >= 2
    /\ referrers >= 2
=============================================================================
