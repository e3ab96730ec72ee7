---------------------------- MODULE ScoringProofs ----------------------------
(***************************************************************************)
(* Bounds of the formulas of Scoring, for all features, marks and feeds.   *)
(***************************************************************************)
EXTENDS Scoring, TLAPS

(* signal_score stays between 0 and 100 (test_signal_score_is_bounded tries *)
(* the two ends).                                                           *)
THEOREM SignalScoreBounded ==
    \A v, p, b, a, n, r \in Thousandths : SignalScore(v, p, b, a, n, r) \in Scores
BY DEF Scores, SignalScore, Thousandths

(* A signal whose event a crawl has just created from one article is never  *)
(* eligible, however trusted its source is: build_opportunity is not asked  *)
(* before a second article arrives or the event is older.                   *)
THEOREM FirstArticleIsWeak ==
    \A authority \in Thousandths : ~IsSignalEligible(YoungScore(1, 1, authority))
BY DEF IsSignalEligible, YoungScore, SignalScore, YoungVelocity, YoungPersistence,
       Breadth, Novelty, EconomicRelevance, AtMost, Thousandths

(* weighted_score stays between 0 and 93, the sum of its weights, and a     *)
(* greater regulatory risk never raises it.                                 *)
THEOREM WeightedScoreBounded ==
    \A p, m, w, y, g, d, b, t, r \in Marks :
        /\ WeightedScore(p, m, w, y, g, d, b, t, r) \in 0 .. 9300
        /\ \A s \in 0 .. r : WeightedScore(p, m, w, y, g, d, b, t, s)
                               >= WeightedScore(p, m, w, y, g, d, b, t, r)
BY DEF WeightedScore, AtMost, AtLeast, Marks

LEMMA RelevanceType ==
    ASSUME NEW r \in Nat, NEW n \in 1 .. 20
    PROVE  Rounded(20000 * r, 3 * n) \in Nat
<1> DEFINE a == 40000 * r + 3 * n
           b == 6 * n
<1>1. a \in Nat /\ b \in Nat \ {0} /\ Rounded(20000 * r, 3 * n) = a \div b
  BY DEF Rounded
<1> HIDE DEF a, b
<1>2. a \div b \in Nat
  BY <1>1
<1> QED
  BY <1>1, <1>2

LEMMA ExtractabilityType ==
    ASSUME NEW feed \in Feeds, NEW extracted \in 0 .. 3, extracted <= Samples(feed)
    PROVE  Extractability(feed, extracted) \in 0 .. 2500
<1>1. Samples(feed) \in {0, 1, 2, 3}
  BY DEF Samples, AtMost, Feeds
<1>2. CASE Samples(feed) \in {0, 1}
  BY <1>2 DEF Extractability, Rounded, AtLeast
<1>3. CASE Samples(feed) = 2
  BY <1>3 DEF Extractability, Rounded, AtLeast
<1>4. CASE Samples(feed) = 3
  BY <1>4 DEF Extractability, Rounded, AtLeast
<1> QED
  BY <1>1, <1>2, <1>3, <1>4

(* The score of a feed with an entry is between 0 and 100, whatever the     *)
(* feed contains and however many of its samples are extracted.             *)
THEOREM CandidateScoreBounded ==
    \A feed \in Feeds, referrers \in Nat, isHttps \in BOOLEAN :
        feed.entries > 0 =>
            \A extracted \in 0 .. 3 : extracted <= Samples(feed) =>
                CandidateScore(feed, extracted, referrers, isHttps) \in Scores
<1> SUFFICES ASSUME NEW feed \in Feeds, NEW referrers \in Nat, NEW isHttps \in BOOLEAN,
                    feed.entries > 0, NEW extracted \in 0 .. 3, extracted <= Samples(feed)
             PROVE  CandidateScore(feed, extracted, referrers, isHttps) \in Scores
  OBVIOUS
<1>1. FeedValidity(feed) \in 0 .. 2000
  BY DEF FeedValidity, Feeds
<1>2. Freshness(feed) \in 0 .. 1500
  BY DEF Freshness
<1>3. Extractability(feed, extracted) \in 0 .. 2500
  BY ExtractabilityType
<1>4. MarketRelevance(feed) \in 0 .. 2000
  <2>1. AtMost(20, feed.entries) \in 1 .. 20 /\ feed.relevant \in Nat
    BY DEF AtMost, Feeds
  <2> DEFINE points == Rounded(20000 * feed.relevant, 3 * AtMost(20, feed.entries))
  <2>2. points \in Nat
    BY <2>1, RelevanceType
  <2>3. MarketRelevance(feed) = AtMost(2000, points)
    BY DEF MarketRelevance
  <2> HIDE DEF points
  <2> QED
    BY <2>2, <2>3 DEF AtMost
<1>5. ReferralDiversity(referrers) \in 0 .. 1500
  BY DEF ReferralDiversity, AtMost
<1>6. HttpsPoints(isHttps) \in 0 .. 500
  BY DEF HttpsPoints
<1> DEFINE a == FeedValidity(feed)
           b == Freshness(feed)
           c == Extractability(feed, extracted)
           d == MarketRelevance(feed)
           e == ReferralDiversity(referrers)
           f == HttpsPoints(isHttps)
<1>7. CandidateScore(feed, extracted, referrers, isHttps) = a + b + c + d + e + f
  BY DEF CandidateScore
<1> HIDE DEF a, b, c, d, e, f
<1>8. a + b + c + d + e + f \in 0 .. 10000
  <2>1. /\ a \in 0 .. 2000 /\ b \in 0 .. 1500 /\ c \in 0 .. 2500
        /\ d \in 0 .. 2000 /\ e \in 0 .. 1500 /\ f \in 0 .. 500
    BY <1>1, <1>2, <1>3, <1>4, <1>5, <1>6 DEF a, b, c, d, e, f
  <2> QED
    BY <2>1
<1> QED
  BY <1>7, <1>8 DEF Scores

(* The score alone does not stand for the gates: a fresh, full, extractable *)
(* feed over HTTPS reaches 85 without a single referrer.                    *)
THEOREM GatesAreIndependent ==
    \E feed \in Feeds, isHttps \in BOOLEAN :
        /\ CandidateScore(feed, 3, 0, isHttps) >= AutoApproveScore
        /\ ~PassesAutoApproveGates(feed, CandidateScore(feed, 3, 0, isHttps), 3, 0, isHttps)
<1> DEFINE feed == [entries |-> 10, own |-> 10, age |-> 1, relevant |-> 3]
<1>1. feed \in Feeds
  BY DEF Feeds
<1>2. \A isHttps : isHttps = TRUE => CandidateScore(feed, 3, 0, isHttps) >= AutoApproveScore
  BY DEF CandidateScore, FeedValidity, Freshness, Extractability, MarketRelevance,
         ReferralDiversity, HttpsPoints, Rounded, AtMost, AtLeast, Samples, AutoApproveScore
<1>3. \A isHttps : ~PassesAutoApproveGates(feed, CandidateScore(feed, 3, 0, isHttps), 3, 0, isHttps)
  BY DEF PassesAutoApproveGates
<1> HIDE DEF feed
<1> QED
  BY <1>1, <1>2, <1>3
=============================================================================
