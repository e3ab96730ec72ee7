------------------------ MODULE CandidateProbeProofs ------------------------
(***************************************************************************)
(* What a validation requests and decides, for every set of URLs, every    *)
(* page a server may return and every number of redirects allowed.         *)
(***************************************************************************)
EXTENDS CandidateProbe, ScoringProofs

LEMMA WithoutType ==
    ASSUME NEW offers \in Seq(Urls), NEW u \in Urls
    PROVE  Without(offers, u) \in Seq(Urls)
<1>1. CASE u \notin {offers[i] : i \in DOMAIN offers}
  BY <1>1 DEF Without
<1>2. CASE u \in {offers[i] : i \in DOMAIN offers}
  <2> DEFINE i == CHOOSE i \in DOMAIN offers : offers[i] = u
  <2>1. i \in 1 .. Len(offers)
    BY <1>2
  <2> HIDE DEF i
  <2>2. SubSeq(offers, 1, i - 1) \in Seq(Urls)
    BY <2>1
  <2>3. SubSeq(offers, i + 1, Len(offers)) \in Seq(Urls)
    BY <2>1
  <2>4. Without(offers, u) = SubSeq(offers, 1, i - 1) \o SubSeq(offers, i + 1, Len(offers))
    BY <1>2 DEF Without, i
  <2> QED
    BY <2>2, <2>3, <2>4
<1> QED
  BY <1>1, <1>2

LEMMA PossibilitiesType ==
    ASSUME TypeOK, NEW final \in Urls
    PROVE  Possibilities(final) \in Seq(Urls)
<1>1. Offers[final] \in Seq(Urls)
  BY ProbeAssumption
<1>2. CASE feedUrl = NoUrl
  BY <1>1, <1>2 DEF Possibilities
<1>3. CASE feedUrl # NoUrl
  <2>1. feedUrl \in Urls
    BY <1>3 DEF TypeOK
  <2>2. Without(Offers[final], feedUrl) \in Seq(Urls)
    BY <1>1, <2>1, WithoutType
  <2> QED
    BY <1>3, <2>1, <2>2 DEF Possibilities
<1> QED
  BY <1>2, <1>3

-----------------------------------------------------------------------------
(* A candidate that has used its retries is rejected and stays idle, and    *)
(* only a feed with entries is sampled.                                     *)
ProbeInv ==
    /\ TypeOK
    /\ retries = RetryLimit => pc = "idle" /\ status = "rejected"
    /\ pc = "sample" => feed \in FeedPages /\ FeedAt[feed].entries > 0

LEMMA RejectUnsafeType ==
    ASSUME ProbeInv, RejectUnsafe PROVE ProbeInv'
BY DEF ProbeInv, TypeOK, RejectUnsafe, Ended, rowVars, fetchVars, resultVars

LEMMA RetryCount ==
    ASSUME NEW n \in 0 .. 3, n # 3
    PROVE  n + 1 \in 0 .. RetryLimit /\ (n + 1 = RetryLimit => GivesUp(n + 1))
BY DEF GivesUp, RetryLimit

LEMMA HeadTail ==
    ASSUME NEW s \in Seq(Urls), s # <<>>
    PROVE  Head(s) \in Urls /\ Tail(s) \in Seq(Urls)
OBVIOUS

LEMMA FailType ==
    ASSUME ProbeInv, pc # "idle", Ended, retries' = retries + 1, UNCHANGED feedUrl,
           reason' \in {"fetch", "no feed", "no entries"},
           status' = IF GivesUp(retries + 1) THEN "rejected" ELSE "failed"
    PROVE  ProbeInv'
<1>1. retries \in 0 .. 3 /\ retries # 3
  BY DEF ProbeInv, TypeOK, RetryLimit
<1>2. retries' \in 0 .. RetryLimit
  BY <1>1, RetryCount
<1>3. retries' = RetryLimit => status' = "rejected"
  BY <1>1, RetryCount
<1>4. status' \in {"failed", "rejected"}
  OBVIOUS
<1> QED
  BY <1>2, <1>3, <1>4 DEF ProbeInv, TypeOK, Ended, fetchVars, resultVars

LEMMA NextUrlType ==
    ASSUME ProbeInv, NextUrl, retries # RetryLimit PROVE ProbeInv'
BY DEF ProbeInv, TypeOK, NextUrl, rowVars, fetchVars, resultVars

LEMMA BeginType ==
    ASSUME ProbeInv, BeginValidation PROVE ProbeInv'
<1>1. <<>> \in Seq(Urls) /\ <<>> \in Seq(Results) /\ 0 \in 0 .. MaxRedirects
  BY ProbeAssumption
<1> QED
  BY <1>1, ProbeAssumption DEF BeginValidation, Fetch, ProbeInv, TypeOK

LEMMA ScoreType ==
    ASSUME ProbeInv, ScoreFeed PROVE ProbeInv'
<1> PICK extracted \in 0 .. Samples(FeedAt[feed]) :
        LET result == [feed |-> asked, page |-> feed, extracted |-> extracted,
                       score |-> CandidateScore(FeedAt[feed], extracted, referrers,
                                                IsHttps(asked))]
        IN  /\ best' = IF IsBetter(result) THEN result ELSE best
            /\ results' = Append(results, result)
  BY DEF ScoreFeed
<1> DEFINE score == CandidateScore(FeedAt[feed], extracted, referrers, IsHttps(asked))
           result == [feed |-> asked, page |-> feed, extracted |-> extracted, score |-> score]
<1>1. feed \in FeedPages /\ FeedAt[feed] \in Feeds /\ FeedAt[feed].entries > 0
  BY ProbeAssumption DEF ScoreFeed, ProbeInv
<1>2. extracted \in 0 .. 3 /\ extracted <= Samples(FeedAt[feed])
  BY <1>1 DEF Samples, AtMost, Feeds
<1>3. score \in Scores
  <2>0. referrers \in 0 .. MaxReferrers
    BY DEF ProbeInv, TypeOK
  <2>1. referrers \in Nat
    BY <2>0, ProbeAssumption
  <2> DEFINE f == FeedAt[feed]
             h == IsHttps(asked)
  <2>2. h \in BOOLEAN
    BY DEF IsHttps
  <2>3. /\ f \in Feeds /\ f.entries > 0
        /\ extracted \in 0 .. 3 /\ extracted <= Samples(f)
        /\ score = CandidateScore(f, extracted, referrers, h)
    BY <1>1, <1>2
  <2> HIDE DEF f, h, score
  <2> QED
    BY <2>1, <2>2, <2>3, CandidateScoreBounded
<1>4. best' = (IF IsBetter(result) THEN result ELSE best) /\ results' = Append(results, result)
  OBVIOUS
<1> HIDE DEF score
<1>5. result \in Results
  <2>1. asked \in Urls
    BY DEF ProbeInv, TypeOK
  <2> QED
    BY <1>1, <1>2, <1>3, <2>1 DEF Results, result
<1> HIDE DEF result
<1>6. best' \in Results \cup {NoResult} /\ results' \in Seq(Results)
  <2>1. best \in Results \cup {NoResult} /\ results \in Seq(Results)
    BY DEF ProbeInv, TypeOK
  <2> QED
    BY <1>4, <1>5, <2>1
<1> QED
  BY <1>6 DEF ScoreFeed, ProbeInv, TypeOK, rowVars, fetchVars

LEMMA ProbeInvNext == ProbeInv /\ [Next]_vars => ProbeInv'
<1> SUFFICES ASSUME ProbeInv, [Next]_vars PROVE ProbeInv'
  OBVIOUS
<1>0. pc # "idle" => retries # RetryLimit
  BY DEF ProbeInv
<1>1. CASE Rescan
  <2>1. 0 \in 0 .. RetryLimit /\ 0 # RetryLimit
    BY DEF RetryLimit
  <2> QED
    BY <1>1, <2>1 DEF Rescan, ProbeInv, TypeOK, fetchVars, resultVars
<1>2. CASE BeginValidation
  BY <1>2, BeginType
<1>3. CASE Resolve
  BY <1>0, <1>3 DEF Resolve, Lookups, ProbeInv, TypeOK, rowVars, fetchVars, resultVars
<1>4. CASE Redirect
  <2>1. redirects' \in 0 .. MaxRedirects /\ url' \in Urls /\ lookup' = "unknown"
    <3>1. redirects \in 0 .. MaxRedirects
      BY DEF ProbeInv, TypeOK
    <3> QED
      BY <1>4, <3>1, ProbeAssumption DEF Redirect, FollowRedirect
  <2> QED
    BY <1>0, <1>4, <2>1 DEF Redirect, ProbeInv, TypeOK, rowVars, resultVars
<1>5. CASE RefuseUrl \/ RefuseRedirect
  BY <1>0, <1>5, RejectUnsafeType, NextUrlType DEF RefuseUrl, RefuseRedirect, FetchUnsafe
<1>6. CASE RequestFails
  BY <1>0, <1>6, FailType, NextUrlType DEF RequestFails, FetchFails, Fail
<1>7. CASE ServeHome
  <2>1. left' \in Seq(Urls)
    BY <1>7, PossibilitiesType DEF ServeHome, ProbeInv, TypeOK
  <2> QED
    BY <1>0, <1>7, <2>1 DEF ServeHome, ProbeInv, TypeOK, rowVars, fetchVars, resultVars
<1>8. CASE ServeProbe
  <2>0. valid \in Seq(Urls) /\ url \in Urls
    BY DEF ProbeInv, TypeOK
  <2>1. valid' \in Seq(Urls)
    BY <1>8, <2>0 DEF ServeProbe
  <2> QED
    BY <1>0, <1>8, <2>1 DEF ServeProbe, ProbeInv, TypeOK, rowVars, fetchVars, resultVars
<1>9. CASE FetchNext
  <2>1. Head(left) \in Urls /\ left' \in Seq(Urls)
    BY <1>9, HeadTail DEF FetchNext, ProbeInv, TypeOK
  <2>2. 0 \in 0 .. MaxRedirects
    BY ProbeAssumption
  <2> QED
    BY <1>0, <1>9, <2>1, <2>2 DEF FetchNext, Fetch, ProbeInv, TypeOK, rowVars, resultVars
<1>10. CASE NoFeedFound \/ NoUsableFeed
  BY <1>10, FailType DEF NoFeedFound, NoUsableFeed, Fail
<1>11. CASE StartScoring
  BY <1>0, <1>11 DEF StartScoring, ProbeInv, TypeOK, rowVars, fetchVars, resultVars
<1>12. CASE ServeUnusable
  BY <1>0, <1>12, NextUrlType DEF ServeUnusable
<1>13. CASE ServeFeed
  BY <1>0, <1>13, ProbeAssumption
  DEF ServeFeed, IsUsable, ProbeInv, TypeOK, rowVars, fetchVars, resultVars
<1>14. CASE ScoreFeed
  BY <1>14, ScoreType
<1>15. CASE Decide
  <2>0. best \in Results
    BY <1>15 DEF Decide, ProbeInv, TypeOK
  <2>1. best.feed \in Urls
    BY <2>0 DEF Results
  <2>2. status' \in {"auto_approved", "pending", "rejected"} /\ reason' \in {"none", "low score"}
    BY <1>15 DEF Decide
  <2> QED
    BY <1>0, <1>15, <2>1, <2>2 DEF Decide, Ended, ProbeInv, TypeOK, rowVars, fetchVars, resultVars
<1>16. CASE UNCHANGED vars
  <2>1. /\ UNCHANGED <<status, feedUrl, retries, reason, referrers, pc, stage>>
        /\ UNCHANGED <<url, lookup, redirects, asked, left>>
        /\ UNCHANGED <<valid, feed, best, results>>
    BY <1>16 DEF vars, rowVars, fetchVars, resultVars
  <2>2. TypeOK'
    <3> USE DEF ProbeInv, TypeOK
    <3>1. /\ status' \in {"discovered", "validating", "failed", "pending", "rejected",
                         "auto_approved"}
          /\ feedUrl' \in Urls \cup {NoUrl}
          /\ retries' \in 0 .. RetryLimit /\ referrers' \in 0 .. MaxReferrers
          /\ reason' \in {"none", "unsafe", "fetch", "no feed", "no entries", "low score"}
      BY <2>1
    <3>2. /\ pc' \in {"idle", "resolve", "request", "next", "sample"}
          /\ stage' \in {"home", "probe", "score"}
          /\ url' \in Urls /\ asked' \in Urls /\ redirects' \in 0 .. MaxRedirects
          /\ lookup' \in {"unknown", "public", "other", "nothing", "literal"}
      BY <2>1
    <3>3. /\ left' \in Seq(Urls) /\ valid' \in Seq(Urls)
          /\ feed' \in FeedPages \cup {NoPage} /\ (pc' = "sample" => feed' # NoPage)
          /\ best' \in Results \cup {NoResult} /\ results' \in Seq(Results)
      BY <2>1
    <3> QED
      BY <3>1, <3>2, <3>3
  <2> QED
    BY <2>1, <2>2 DEF ProbeInv
<1> QED
  BY <1>1, <1>2, <1>3, <1>4, <1>5, <1>6, <1>7, <1>8, <1>9, <1>10, <1>11, <1>12,
     <1>13, <1>14, <1>15, <1>16 DEF Next, ValidationStep

LEMMA ProbeInvInit == Init => ProbeInv
BY ProbeAssumption DEF Init, ProbeInv, TypeOK, RetryLimit

LEMMA ProbeInvariant == Spec => []ProbeInv
BY ProbeInvInit, ProbeInvNext, PTL DEF Spec

(* The locals of a validation have their types: no score leaves 0 to 100,   *)
(* no chain follows more than MaxRedirects redirects, and no candidate      *)
(* fails more than RetryLimit times.                                        *)
THEOREM ProbeTypeCorrect == Spec => []TypeOK
<1>1. ProbeInv => TypeOK
  BY DEF ProbeInv
<1> QED
  BY <1>1, ProbeInvariant, PTL

-----------------------------------------------------------------------------
(* Every request of a validation, at whatever hop of whatever chain, is for *)
(* a URL that is allowed and whose host, if it is a name, has been looked up*)
(* for that hop and found public: only Resolve leads to a request, and each *)
(* redirect and each new fetch forgets what the last lookup has shown.      *)
THEOREM CheckedRequested == Spec => []OnlyCheckedRequested
<1>1. Init => OnlyCheckedRequested
  BY DEF Init, OnlyCheckedRequested
<1>2. OnlyCheckedRequested /\ [Next]_vars => OnlyCheckedRequested'
  <2> SUFFICES ASSUME OnlyCheckedRequested, [Next]_vars PROVE OnlyCheckedRequested'
    OBVIOUS
  <2> USE DEF OnlyCheckedRequested
  <2>1. CASE Resolve
    BY <2>1 DEF Resolve, Passes, Lookups, rowVars
  <2>2. CASE Rescan \/ BeginValidation \/ Redirect \/ RefuseUrl \/ RefuseRedirect \/ RequestFails
    BY <2>2 DEF Rescan, BeginValidation, Fetch, Redirect, RefuseUrl, RefuseRedirect,
                RequestFails, FetchUnsafe, FetchFails, NextUrl, RejectUnsafe, Fail, Ended,
                rowVars, fetchVars
  <2>3. CASE ServeHome \/ ServeProbe \/ FetchNext \/ NoFeedFound \/ StartScoring
    BY <2>3 DEF ServeHome, ServeProbe, FetchNext, NoFeedFound, StartScoring, Fetch, Fail,
                Ended, rowVars, fetchVars
  <2>4. CASE ServeUnusable \/ ServeFeed \/ ScoreFeed \/ NoUsableFeed \/ Decide
    BY <2>4 DEF ServeUnusable, ServeFeed, ScoreFeed, NoUsableFeed, Decide, NextUrl, Fail,
                Ended, rowVars, fetchVars
  <2>5. CASE UNCHANGED vars
    BY <2>5 DEF vars, rowVars, fetchVars
  <2> QED
    BY <2>1, <2>2, <2>3, <2>4, <2>5 DEF Next, ValidationStep
<1> QED
  BY <1>1, <1>2, PTL DEF Spec

(* A probe of a feed the homepage offers never ends the validation: the     *)
(* candidate is not rejected as unsafe, nor is a failure counted for it.    *)
THEOREM ProbeIsolation == Spec => []ProbesAreIsolated
<1>1. Init => ProbesAreIsolated
  BY DEF Init, ProbesAreIsolated
<1>2. ProbesAreIsolated /\ ProbeInv /\ [Next]_vars => ProbesAreIsolated'
  <2> SUFFICES ASSUME ProbesAreIsolated, ProbeInv, [Next]_vars PROVE ProbesAreIsolated'
    OBVIOUS
  <2> USE DEF ProbesAreIsolated
  <2>1. CASE RefuseUrl \/ RefuseRedirect \/ RequestFails
    BY <2>1 DEF RefuseUrl, RefuseRedirect, RequestFails, FetchUnsafe, FetchFails, IsIsolated,
                NextUrl, RejectUnsafe, Fail, Ended
  <2>2. CASE NoFeedFound \/ NoUsableFeed \/ Decide
    <3>1. CASE NoFeedFound \/ NoUsableFeed
      BY <3>1 DEF NoFeedFound, NoUsableFeed, Fail
    <3>2. CASE Decide
      BY <3>2 DEF Decide, ProbeInv, TypeOK
    <3> QED
      BY <2>2, <3>1, <3>2
  <2>3. CASE Rescan
    BY <2>3 DEF Rescan, ProbeInv, TypeOK
  <2>4. CASE BeginValidation \/ Resolve \/ Redirect \/ ServeHome \/ ServeProbe \/ FetchNext
    BY <2>4 DEF BeginValidation, Resolve, Redirect, ServeHome, ServeProbe, FetchNext, Fetch
  <2>5. CASE StartScoring \/ ServeUnusable \/ ServeFeed \/ ScoreFeed
    BY <2>5 DEF StartScoring, ServeUnusable, ServeFeed, ScoreFeed, NextUrl
  <2>6. CASE UNCHANGED vars
    BY <2>6 DEF vars, rowVars
  <2> QED
    BY <2>1, <2>2, <2>3, <2>4, <2>5, <2>6 DEF Next, ValidationStep
<1> QED
  BY <1>1, <1>2, ProbeInvariant, PTL DEF Spec

-----------------------------------------------------------------------------
(* The best feed so far is the first of the highest score.                  *)
FirstBestAt(i) ==
    \A j \in 1 .. Len(results) :
        \/ results[j].score < results[i].score
        \/ results[j].score = results[i].score /\ i <= j

BestInv ==
    IF results = <<>> THEN best = NoResult
    ELSE /\ best # NoResult
         /\ \E i \in 1 .. Len(results) : best = results[i] /\ FirstBestAt(i)

LEMMA ResultScores ==
    ASSUME NEW s \in Seq(Results)
    PROVE  Len(s) \in Nat /\ \A i \in 1 .. Len(s) : s[i].score \in Int
<1>1. \A result \in Results : result.score \in Scores
  BY DEF Results
<1>2. \A score \in Scores : score \in Int
  BY DEF Scores
<1>3. \A i \in 1 .. Len(s) : s[i] \in Results
  OBVIOUS
<1> QED
  BY <1>1, <1>2, <1>3

LEMMA FirstBestIsUnique ==
    ASSUME TypeOK, NEW i \in 1 .. Len(results), FirstBestAt(i)
    PROVE  FirstBest = i
<1>1. Len(results) \in Nat /\ \A j \in 1 .. Len(results) : results[j].score \in Int
  BY ResultScores DEF TypeOK
<1>2. ASSUME NEW k \in 1 .. Len(results), FirstBestAt(k) PROVE k = i
  BY <1>1, <1>2 DEF FirstBestAt
<1>3. FirstBest = CHOOSE k \in 1 .. Len(results) : FirstBestAt(k)
  BY DEF FirstBest, FirstBestAt
<1> QED
  BY <1>2, <1>3

LEMMA BestSoFar ==
    ASSUME ProbeInv, BestInv, ScoreFeed
    PROVE  BestInv'
<1> PICK extracted \in 0 .. Samples(FeedAt[feed]) :
        LET result == [feed |-> asked, page |-> feed, extracted |-> extracted,
                       score |-> CandidateScore(FeedAt[feed], extracted, referrers,
                                                IsHttps(asked))]
        IN  /\ best' = IF IsBetter(result) THEN result ELSE best
            /\ results' = Append(results, result)
  BY DEF ScoreFeed
<1> DEFINE result == [feed |-> asked, page |-> feed, extracted |-> extracted,
                      score |-> CandidateScore(FeedAt[feed], extracted, referrers,
                                               IsHttps(asked))]
<1>1. best' = (IF IsBetter(result) THEN result ELSE best) /\ results' = Append(results, result)
  OBVIOUS
<1>2. result # NoResult
  <2>1. asked # NoUrl
    BY ProbeAssumption DEF ProbeInv, TypeOK
  <2>2. result.feed = asked /\ NoResult.feed = NoUrl
    BY DEF NoResult
  <2> QED
    BY <2>1, <2>2
<1> HIDE DEF result
<1>3. results \in Seq(Results) /\ results' \in Seq(Results)
  BY ScoreType DEF ProbeInv, TypeOK
<1> PICK n \in Nat : n = Len(results)
  BY <1>3
<1>4. /\ Len(results') = n + 1 /\ results'[n + 1] = result
      /\ \A j \in 1 .. n : results'[j] = results[j]
  <2>1. Len(Append(results, result)) = n + 1
    BY <1>3
  <2>2. Append(results, result)[n + 1] = result
    BY <1>3, <2>1
  <2>3. \A j \in 1 .. n : Append(results, result)[j] = results[j]
    BY <1>3, <2>1
  <2> QED
    BY <1>1, <2>1, <2>2, <2>3
<1>5. \A j \in 1 .. n + 1 : results'[j].score \in Int
  BY <1>3, <1>4, ResultScores
<1>6. result.score \in Int
  BY <1>4, <1>5
<1>7. results' # <<>>
  BY <1>3, <1>4
<1>8. CASE results = <<>>
  <2>1. best' = result /\ n = 0
    BY <1>1, <1>8 DEF BestInv, IsBetter
  <2>2. best' = results'[1] /\ FirstBestAt(1)'
    BY <1>4, <2>1 DEF FirstBestAt
  <2> QED
    BY <1>2, <1>4, <1>7, <2>1, <2>2 DEF BestInv
<1>9. CASE results # <<>>
  <2>1. PICK i \in 1 .. n : best = results[i] /\ FirstBestAt(i)
    BY <1>9 DEF BestInv
  <2>2. best # NoResult
    BY <1>9 DEF BestInv
  <2>3. \A j \in 1 .. n : \/ results[j].score < results[i].score
                          \/ results[j].score = results[i].score /\ i <= j
    BY <2>1 DEF FirstBestAt
  <2>4. \A j \in 1 .. n : results[j].score \in Int
    BY <1>4, <1>5
  <2>5. CASE result.score > results[i].score
    <3>1. best' = result
      BY <1>1, <2>1, <2>5 DEF IsBetter
    <3>2. \A j \in 1 .. n : results[j].score < result.score
      BY <1>4, <1>6, <2>3, <2>4, <2>5
    <3>3. FirstBestAt(n + 1)'
      BY <1>4, <3>2 DEF FirstBestAt
    <3> QED
      BY <1>2, <1>4, <1>7, <3>1, <3>3 DEF BestInv
  <2>6. CASE ~(result.score > results[i].score)
    <3>1. best' = best
      BY <1>1, <2>1, <2>2, <2>6 DEF IsBetter
    <3>2. result.score <= results[i].score
      BY <1>4, <1>6, <2>4, <2>6
    <3>3. FirstBestAt(i)'
      BY <1>4, <1>6, <2>3, <2>4, <3>2 DEF FirstBestAt
    <3>4. best' = results'[i] /\ i \in 1 .. Len(results')
      BY <1>4, <2>1, <3>1
    <3> QED
      BY <1>7, <2>2, <3>1, <3>3, <3>4 DEF BestInv
  <2> QED
    BY <2>5, <2>6
<1> QED
  BY <1>8, <1>9

(* The decision for a validation that has scored a feed is the one that its *)
(* first best result calls for.                                             *)
DecisionInv == BestInv /\ BestFeedDecides

LEMMA Decision ==
    ASSUME ProbeInv, DecisionInv, Decide
    PROVE  DecisionInv'
<1>1. /\ UNCHANGED <<referrers, best, results>> /\ pc' = "idle"
      /\ best # NoResult /\ feedUrl' = best.feed
      /\ status' = IF PassesGates(best) THEN "auto_approved"
                   ELSE IF best.score >= ReviewScore THEN "pending" ELSE "rejected"
  BY DEF Decide, Ended, resultVars
<1>2. BestInv'
  BY <1>1 DEF DecisionInv, BestInv, FirstBestAt
<1>3. PICK i \in 1 .. Len(results) : best = results[i] /\ FirstBestAt(i)
  BY <1>1 DEF DecisionInv, BestInv
<1>4. FirstBest = i
  BY <1>3, FirstBestIsUnique DEF ProbeInv
<1>5. results'[FirstBest'] = best
  BY <1>1, <1>3, <1>4 DEF FirstBest
<1>6. PassesGates(best)' <=> PassesGates(best)
  BY <1>1 DEF PassesGates
<1>7. PassesGates(best) => ~(best.score < ReviewScore)
  <2>1. best.score \in Int
    BY <1>3, ResultScores DEF ProbeInv, TypeOK
  <2> QED
    BY <2>1 DEF PassesGates, PassesAutoApproveGates, AutoApproveScore, ReviewScore
<1>8. best.score >= ReviewScore <=> ~(best.score < ReviewScore)
  <2>1. best.score \in Int
    BY <1>3, ResultScores DEF ProbeInv, TypeOK
  <2> QED
    BY <2>1 DEF ReviewScore
<1>9. /\ feedUrl' = best.feed
      /\ status' = "auto_approved" <=> PassesGates(best)
      /\ status' = "rejected" <=> best.score < ReviewScore
  BY <1>1, <1>7, <1>8
<1> QED
  BY <1>1, <1>2, <1>5, <1>6, <1>9 DEF DecisionInv, BestFeedDecides

LEMMA DecisionInvNext == ProbeInv /\ DecisionInv /\ [Next]_vars => DecisionInv'
<1> SUFFICES ASSUME ProbeInv, DecisionInv, [Next]_vars PROVE DecisionInv'
  OBVIOUS
<1>a. ASSUME UNCHANGED <<best, results>> PROVE BestInv'
  BY <1>a DEF DecisionInv, BestInv, FirstBestAt
<1>b. ASSUME BestInv', pc' # "idle" \/ reason' \notin {"none", "low score"}
      PROVE  DecisionInv'
  BY <1>b DEF DecisionInv, BestFeedDecides
<1>1. CASE Rescan
  BY <1>1, <1>a DEF Rescan, resultVars, DecisionInv, BestFeedDecides
<1>2. CASE BeginValidation
  <2>1. BestInv' /\ pc' = "resolve"
    BY <1>2 DEF BeginValidation, Fetch, BestInv
  <2> QED
    BY <2>1, <1>b
<1>3. CASE Resolve \/ Redirect \/ ServeHome \/ ServeProbe \/ FetchNext \/ StartScoring
           \/ ServeFeed
  BY <1>3, <1>a, <1>b DEF Resolve, Redirect, ServeHome, ServeProbe, FetchNext, Fetch,
                          StartScoring, ServeFeed, resultVars
<1>4. CASE RefuseUrl \/ RefuseRedirect \/ RequestFails \/ ServeUnusable
  BY <1>4, <1>a, <1>b DEF RefuseUrl, RefuseRedirect, RequestFails, ServeUnusable, FetchUnsafe,
                          FetchFails, NextUrl, RejectUnsafe, Fail, Ended, resultVars
<1>5. CASE NoFeedFound \/ NoUsableFeed
  BY <1>5, <1>a, <1>b DEF NoFeedFound, NoUsableFeed, Fail, Ended, resultVars
<1>6. CASE ScoreFeed
  <2>1. BestInv' /\ pc' = "next"
    BY <1>6, BestSoFar DEF ScoreFeed, DecisionInv
  <2> QED
    BY <2>1, <1>b
<1>7. CASE Decide
  BY <1>7, Decision
<1>8. CASE UNCHANGED vars
  <2>1. UNCHANGED <<status, feedUrl, reason, referrers, pc, best, results>>
    BY <1>8 DEF vars, rowVars, resultVars
  <2>2. FirstBest' = FirstBest /\ \A r : PassesGates(r)' <=> PassesGates(r)
    BY <2>1 DEF FirstBest, PassesGates
  <2> QED
    BY <1>a, <2>1, <2>2 DEF DecisionInv, BestFeedDecides
<1> QED
  BY <1>1, <1>2, <1>3, <1>4, <1>5, <1>6, <1>7, <1>8 DEF Next, ValidationStep

(* A scored candidate is decided by its first best feed and that feed's own *)
(* gates, whatever feeds its validation found and in whatever order.        *)
THEOREM DecidedByBestFeed == Spec => []BestFeedDecides
<1>1. Init => DecisionInv
  BY DEF Init, DecisionInv, BestInv, BestFeedDecides
<1>2. DecisionInv => BestFeedDecides
  BY DEF DecisionInv
<1> QED
  BY <1>1, <1>2, ProbeInvariant, DecisionInvNext, PTL DEF Spec
=============================================================================
