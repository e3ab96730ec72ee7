------------------------ MODULE SourceCandidatesProofs ------------------------
(***************************************************************************)
(* For any number of candidates, workers and requests, whatever dies or is *)
(* delivered twice: what goes live was referred to, has a feed that a      *)
(* probe of it found valid and a source that exists, and shares neither.   *)
(***************************************************************************)
EXTENDS SourceCandidates, FiniteSetTheorems, TLAPS

Promoting == {"choose", "insert", "commit"}

(* A task at work has a candidate, and what it promotes has a feed.         *)
Working ==
    /\ candidate \in [Tasks -> Candidates \cup {NoCandidate}]
    /\ key \in [Tasks -> Keys \cup {NoSource}]
    /\ \A t \in Tasks :
          /\ pc[t] # "idle" => candidate[t] \in Candidates /\ status[candidate[t]] # "none"
          /\ pc[t] \in Promoting => draft[t].status \in Live /\ draft[t].feed \in Feeds
          /\ pc[t] = "insert" => key[t] \in Keys

CandidatesInv == TypeOK /\ Working

LEMMA CandidatesInit == Init => CandidatesInv
  BY CandidatesAssumption
  DEF Init, CandidatesInv, TypeOK, Working, Promoting, Statuses, Rows, DraftRows, NoRow, NoDraft

(***************************************************************************)
(* What the steps do, as far as the invariants depend on it.                *)
(***************************************************************************)

(* The referring sources of a candidate can be counted.                     *)
LEMMA ReferrersOfArticles ==
    ASSUME NEW S \in SUBSET Articles
    PROVE  /\ IsFiniteSet({Referrer[a] : a \in S})
           /\ Cardinality({Referrer[a] : a \in S}) \in Nat
<1> DEFINE R == {Referrer[a] : a \in S}
           g == [a \in S |-> Referrer[a]]
<1>1. IsFiniteSet(S)
  BY CandidatesAssumption, FS_Subset
<1>2. g \in Surjection(S, R)
  BY DEF Surjection
<1>3. IsFiniteSet(R)
  BY <1>1, <1>2, FS_Surjection
<1> QED
  BY <1>3, FS_CardinalityType

LEMMA ReferrersFinite ==
    ASSUME NEW c \in Candidates
    PROVE  IsFiniteSet(Referrers(c)) /\ Cardinality(Referrers(c)) \in Nat
  BY ReferrersOfArticles DEF Referrers

(* A task is done: it keeps nothing, and the other tasks do not notice.     *)
Others(t) ==
    \A u \in Tasks \ {t} :
        /\ pc'[u] = pc[u] /\ candidate'[u] = candidate[u]
        /\ loaded'[u] = loaded[u] /\ draft'[u] = draft[u] /\ key'[u] = key[u]

LocalTypes ==
    /\ pc \in [Tasks -> {"idle", "probe", "choose", "insert", "commit"}]
    /\ loaded \in [Tasks -> Rows] /\ draft \in [Tasks -> DraftRows]
    /\ candidate \in [Tasks -> Candidates \cup {NoCandidate}]
    /\ key \in [Tasks -> Keys \cup {NoSource}]

LEMMA EndEffect ==
    ASSUME CandidatesInv, NEW t \in Tasks, EndTask(t)
    PROVE  LocalTypes' /\ pc'[t] = "idle" /\ Others(t)
<1>1. NoRow \in Rows /\ NoDraft \in DraftRows
  BY DEF NoRow, NoDraft, Rows, DraftRows, Statuses
<1> QED
  BY <1>1 DEF CandidatesInv, TypeOK, Working, EndTask, Goto, Others, LocalTypes

(* A feed the probe found is a feed.                                        *)
LEMMA FoundFeeds ==
    ASSUME CandidatesInv, NEW w \in Tasks, pc[w] = "probe"
    PROVE  Found(w) \subseteq Feeds /\ loaded[w] \in Rows
  BY CandidatesAssumption DEF CandidatesInv, TypeOK, Working, Found, Rows

(* Promoting a feed takes an existing source, or goes on to choose a key.   *)
LEMMA PromoteEffect ==
    ASSUME TypeOK, NEW t \in Tasks, NEW s \in Live, NEW f \in Feeds, Promote(t, s, f)
    PROVE  /\ draft' \in [Tasks -> DraftRows]
           /\ pc' \in [Tasks -> {"idle", "probe", "choose", "insert", "commit"}]
           /\ draft'[t].feed = f /\ draft'[t].status \in {s, "approved"}
           /\ pc'[t] \in {"choose", "commit"}
           /\ pc'[t] = "commit" => /\ draft'[t].source \in Keys
                                   /\ sourceFeed[draft'[t].source] = f
           /\ \A u \in Tasks \ {t} : pc'[u] = pc[u] /\ draft'[u] = draft[u]
<1>1. ASSUME Drafts(t, s, f, NoSource), Goto(t, "choose")
      PROVE  /\ draft' \in [Tasks -> DraftRows]
             /\ draft'[t].feed = f /\ draft'[t].status = s
             /\ pc' = [pc EXCEPT ![t] = "choose"]
             /\ \A u \in Tasks \ {t} : draft'[u] = draft[u]
  BY <1>1 DEF TypeOK, Drafts, Goto, DraftRows, Live, Statuses
<1>2. ASSUME NEW k \in Existing(f), Drafts(t, "approved", f, k), Goto(t, "commit")
      PROVE  /\ draft' \in [Tasks -> DraftRows]
             /\ draft'[t].feed = f /\ draft'[t].status = "approved" /\ draft'[t].source = k
             /\ pc' = [pc EXCEPT ![t] = "commit"] /\ k \in Keys /\ sourceFeed[k] = f
             /\ \A u \in Tasks \ {t} : draft'[u] = draft[u]
  BY <1>2 DEF TypeOK, Drafts, Goto, Existing, DraftRows, Live, Statuses
<1>3. pc \in [Tasks -> {"idle", "probe", "choose", "insert", "commit"}]
  BY DEF TypeOK
<1>4. CASE Existing(f) = {} /\ Drafts(t, s, f, NoSource) /\ Goto(t, "choose")
  BY <1>1, <1>3, <1>4
<1>5. CASE \E k \in Existing(f) : Drafts(t, "approved", f, k) /\ Goto(t, "commit")
  BY <1>2, <1>3, <1>5
<1> QED
  BY <1>4, <1>5 DEF Promote

(* What an operator, the recorder and the discovery cycle change: rows, and *)
(* neither locks nor the copies that validations hold.                      *)
OperatorStep ==
    \/ \E a \in Articles : RecordCandidates(a)
    \/ \E c \in Candidates : \/ CreateCandidate(c) \/ CreateSource(c)
                             \/ Rescan(c) \/ Reject(c)
    \/ \E k \in Keys : UpdateSource(k)
    \/ DiscoveryCycle
    \/ \E w \in Workers, c \in Candidates : RefuseRejected(w, c)

RowTypes ==
    /\ evidence \subseteq Candidates \X Articles
    /\ status \in [Candidates -> Statuses]
    /\ feed \in [Candidates -> Feeds \cup {NoFeed}]
    /\ retries \in [Candidates -> Nat]
    /\ source \in [Candidates -> Keys \cup {NoSource}]
    /\ sourceFeed \in [Keys -> Feeds \cup {NoFeed}]
    /\ queued \in [Candidates -> 0 .. MaxQueued]

SourcesGrow == \A k \in Keys : sourceFeed[k] # NoFeed => sourceFeed'[k] # NoFeed

OperatorEffect ==
    /\ RowTypes'
    /\ UNCHANGED <<source, lockVars, taskVars, validated>>
    /\ evidence \subseteq evidence'
    /\ SourcesGrow
    /\ \A c \in Candidates :
          status'[c] # status[c] => status'[c] \in {"discovered", "rejected"}
    /\ \A c \in Candidates : feed'[c] # feed[c] =>
          /\ status[c] = "none"
          /\ status'[c] = "discovered"
          /\ feed'[c] # NoFeed => ~InUse(feed'[c], c) /\ ~Flushed(feed'[c], c)
          /\ \A d \in Candidates \ {c} : feed'[d] = feed[d]

LEMMA EnqueueType ==
    ASSUME TypeOK, NEW S, Enqueue(S)
    PROVE  queued' \in [Candidates -> 0 .. MaxQueued]
  BY CandidatesAssumption DEF TypeOK, Enqueue

LEMMA DeliverType ==
    ASSUME TypeOK, NEW c \in Candidates, Deliver(c)
    PROVE  queued' \in [Candidates -> 0 .. MaxQueued]
  BY CandidatesAssumption DEF TypeOK, Deliver

LEMMA OperatorSteps ==
    ASSUME CandidatesInv, OperatorStep
    PROVE  OperatorEffect
<1> USE DEF CandidatesInv, OperatorEffect, RowTypes, SourcesGrow
<1>1. ASSUME NEW a \in Articles, RecordCandidates(a)
      PROVE  OperatorEffect
  BY <1>1, CandidatesAssumption DEF RecordCandidates, TypeOK, Statuses
<1>2. ASSUME NEW c \in Candidates, CreateCandidate(c)
      PROVE  OperatorEffect
  BY <1>2 DEF CreateCandidate, TypeOK, Statuses
<1>3. ASSUME NEW c \in Candidates, CreateSource(c)
      PROVE  OperatorEffect
  BY <1>3, CandidatesAssumption DEF CreateSource, TypeOK, Keys, rowVars
<1>4. ASSUME NEW k \in Keys, UpdateSource(k)
      PROVE  OperatorEffect
  BY <1>4, CandidatesAssumption DEF UpdateSource, TypeOK, rowVars
<1>5. ASSUME NEW c \in Candidates, Rescan(c)
      PROVE  OperatorEffect
  <2>1. queued' \in [Candidates -> 0 .. MaxQueued]
    BY <1>5, EnqueueType DEF Rescan
  <2> QED
    BY <1>5, <2>1 DEF Rescan, TypeOK, Statuses
<1>6. ASSUME NEW c \in Candidates, Reject(c)
      PROVE  OperatorEffect
  BY <1>6 DEF Reject, TypeOK, Statuses
<1>7. CASE DiscoveryCycle
  BY <1>7, EnqueueType DEF DiscoveryCycle, TypeOK, rowVars
<1>8. ASSUME NEW w \in Workers, NEW c \in Candidates, RefuseRejected(w, c)
      PROVE  OperatorEffect
  BY <1>8, DeliverType DEF RefuseRejected, TypeOK, rowVars
<1> QED
  BY <1>1, <1>2, <1>3, <1>4, <1>5, <1>6, <1>7, <1>8 DEF OperatorStep

LockTypes ==
    /\ rowLock \in [Candidates -> Tasks \cup {NoTask}]
    /\ keyLock \in [Keys -> Tasks \cup {NoTask}]

(* A task goes on: it may lock a row or a key, and says at most             *)
(* "validating" of a candidate.                                             *)
Advances(t) ==
    /\ RowTypes' /\ LocalTypes' /\ LockTypes'
    /\ Others(t)
    /\ UNCHANGED <<feed, source, sourceFeed, evidence>>
    /\ validated \subseteq validated'
    /\ \A c \in Candidates :
          status'[c] # status[c] => status[c] # "none" /\ status'[c] = "validating"
    /\ \A c \in Candidates : rowLock[c] # NoTask => rowLock'[c] = rowLock[c]
    /\ \A k \in Keys : keyLock[k] # NoTask => keyLock'[k] = keyLock[k]
    /\ pc'[t] # "idle"
    /\ candidate'[t] \in Candidates /\ status[candidate'[t]] # "none"

LEMMA BeginValidationEffect ==
    ASSUME CandidatesInv, NEW w \in Tasks, NEW c \in Candidates, BeginValidation(w, c)
    PROVE  /\ Advances(w)
           /\ pc'[w] = "probe" /\ candidate'[w] = c
           /\ loaded'[w].feed = feed[c] /\ loaded'[w].source = source[c]
           /\ loaded'[w].referrers = Cardinality(Referrers(c))
<1> DEFINE row == [feed |-> feed[c], source |-> source[c], retries |-> retries[c],
                   referrers |-> Cardinality(Referrers(c))]
<1>1. /\ row \in Rows /\ row.feed = feed[c] /\ row.source = source[c]
      /\ row.referrers = Cardinality(Referrers(c))
  BY ReferrersFinite DEF CandidatesInv, TypeOK, Rows
<1>2. status' = [status EXCEPT ![c] = "validating"] /\ status[c] # "none"
  BY DEF BeginValidation
<1>3. queued' \in [Candidates -> 0 .. MaxQueued]
  BY DeliverType DEF BeginValidation, CandidatesInv
<1>4. /\ loaded' = [loaded EXCEPT ![w] = row]
      /\ pc' = [pc EXCEPT ![w] = "probe"]
      /\ candidate' = [candidate EXCEPT ![w] = c]
      /\ UNCHANGED <<feed, retries, source, evidence, rowLock, keyLock, draft, key,
                     sourceFeed, validated>>
  BY DEF BeginValidation, Goto, lockVars
<1> HIDE DEF row
<1>5. RowTypes' /\ LockTypes'
  BY <1>2, <1>3, <1>4 DEF CandidatesInv, TypeOK, RowTypes, LockTypes, Statuses
<1>6. LocalTypes' /\ Others(w) /\ pc'[w] = "probe" /\ candidate'[w] = c /\ loaded'[w] = row
  BY <1>1, <1>4 DEF CandidatesInv, TypeOK, Working, LocalTypes, Others
<1>7. Advances(w)
  BY <1>2, <1>4, <1>5, <1>6 DEF CandidatesInv, TypeOK, Advances
<1> QED
  BY <1>1, <1>6, <1>7

LEMMA AutoApproveEffect ==
    ASSUME CandidatesInv, NEW w \in Tasks, AutoApprove(w)
    PROVE  /\ Advances(w)
           /\ pc[w] = "probe" /\ loaded'[w] = loaded[w] /\ candidate'[w] = candidate[w]
           /\ loaded[w].referrers >= 2
           /\ pc'[w] \in {"choose", "commit"}
           /\ draft'[w].status \in Live /\ draft'[w].feed \in Feeds
           /\ rowLock[candidate[w]] = NoTask /\ rowLock'[candidate[w]] = w
           /\ \A c \in Candidates \ {candidate[w]} : rowLock'[c] = rowLock[c]
           /\ draft'[w].feed # loaded[w].feed =>
                 /\ ~InUse(draft'[w].feed, candidate[w])
                 /\ ~Flushed(draft'[w].feed, candidate[w])
           /\ <<candidate[w], draft'[w].feed>> \in validated'
           /\ pc'[w] = "commit" => /\ draft'[w].source \in Keys
                                   /\ sourceFeed[draft'[w].source] # NoFeed
<1>1. pc[w] = "probe" /\ candidate[w] \in Candidates /\ status[candidate[w]] # "none"
  BY DEF AutoApprove, CandidatesInv, Working
<1>2. PICK f \in Found(w) :
         /\ ~FeedTaken(w, f) /\ ~FeedAwaited(w, f)
         /\ Promote(w, "auto_approved", f)
         /\ validated' = validated \cup {<<candidate[w], f>>}
  BY DEF AutoApprove
<1>3. f \in Feeds /\ f # NoFeed /\ "auto_approved" \in Live
  BY <1>1, FoundFeeds, CandidatesAssumption DEF Live
<1>4. /\ draft' \in [Tasks -> DraftRows]
      /\ pc' \in [Tasks -> {"idle", "probe", "choose", "insert", "commit"}]
      /\ draft'[w].feed = f /\ draft'[w].status \in Live
      /\ pc'[w] \in {"choose", "commit"}
      /\ pc'[w] = "commit" => draft'[w].source \in Keys /\ sourceFeed[draft'[w].source] = f
      /\ \A u \in Tasks \ {w} : pc'[u] = pc[u] /\ draft'[u] = draft[u]
  BY <1>2, <1>3, PromoteEffect DEF CandidatesInv, Live
<1>5. /\ rowLock' = [rowLock EXCEPT ![candidate[w]] = w] /\ rowLock[candidate[w]] = NoTask
      /\ UNCHANGED <<status, feed, retries, source, evidence, keyLock, candidate, loaded,
                     key, sourceFeed, queued>>
  BY DEF AutoApprove, rowVars
<1>6. RowTypes' /\ LockTypes' /\ LocalTypes' /\ Others(w)
  BY <1>1, <1>4, <1>5
  DEF CandidatesInv, TypeOK, Working, RowTypes, LockTypes, LocalTypes, Others
<1>7. Advances(w)
  BY <1>1, <1>2, <1>4, <1>5, <1>6 DEF CandidatesInv, TypeOK, Advances
<1>8. loaded[w].referrers >= 2
  BY DEF AutoApprove, PassesGates
<1> QED
  BY <1>1, <1>2, <1>3, <1>4, <1>5, <1>7, <1>8
  DEF CandidatesInv, TypeOK, FeedTaken, FeedAwaited

LEMMA BeginApprovalEffect ==
    ASSUME CandidatesInv, NEW o \in Tasks, NEW c \in Candidates, BeginApproval(o, c)
    PROVE  /\ Advances(o)
           /\ status[c] = "pending" /\ candidate'[o] = c
           /\ loaded'[o].feed = feed[c] /\ loaded'[o].source = NoSource
           /\ loaded'[o].referrers = 0
           /\ pc'[o] \in {"choose", "commit"}
           /\ draft'[o].status = "approved" /\ draft'[o].feed = feed[c] /\ feed[c] \in Feeds
           /\ pc'[o] = "commit" => /\ draft'[o].source \in Keys
                                   /\ sourceFeed[draft'[o].source] # NoFeed
<1> DEFINE row == [feed |-> feed[c], source |-> NoSource, retries |-> 0, referrers |-> 0]
<1>1. status[c] = "pending" /\ feed[c] \in Feeds /\ feed[c] # NoFeed /\ "approved" \in Live
  BY DEF BeginApproval, Approvable, CandidatesInv, TypeOK, Live
<1>2. row \in Rows /\ row.feed = feed[c] /\ row.source = NoSource /\ row.referrers = 0
  BY <1>1 DEF Rows
<1>3. /\ draft' \in [Tasks -> DraftRows]
      /\ pc' \in [Tasks -> {"idle", "probe", "choose", "insert", "commit"}]
      /\ draft'[o].feed = feed[c] /\ draft'[o].status = "approved"
      /\ pc'[o] \in {"choose", "commit"}
      /\ pc'[o] = "commit" => draft'[o].source \in Keys /\ sourceFeed[draft'[o].source] = feed[c]
      /\ \A u \in Tasks \ {o} : pc'[u] = pc[u] /\ draft'[u] = draft[u]
  BY <1>1, PromoteEffect DEF CandidatesInv, BeginApproval
<1>4. /\ loaded' = [loaded EXCEPT ![o] = row]
      /\ candidate' = [candidate EXCEPT ![o] = c]
      /\ UNCHANGED <<status, feed, retries, source, evidence, rowLock, keyLock, key,
                     sourceFeed, queued, validated>>
  BY DEF BeginApproval, rowVars, lockVars
<1> HIDE DEF row
<1>5. RowTypes' /\ LockTypes' /\ LocalTypes' /\ Others(o) /\ candidate'[o] = c /\ loaded'[o] = row
  BY <1>2, <1>3, <1>4
  DEF CandidatesInv, TypeOK, Working, RowTypes, LockTypes, LocalTypes, Others
<1>6. Advances(o)
  BY <1>1, <1>3, <1>4, <1>5 DEF CandidatesInv, TypeOK, Advances
<1> QED
  BY <1>1, <1>2, <1>3, <1>5, <1>6

LEMMA ChooseKeyEffect ==
    ASSUME CandidatesInv, NEW t \in Tasks, ChooseKey(t)
    PROVE  /\ Advances(t)
           /\ pc[t] = "choose" /\ pc'[t] = "insert" /\ key'[t] \in Keys
           /\ UNCHANGED <<candidate, loaded, draft, lockVars, validated>>
<1>1. pc[t] = "choose" /\ candidate[t] \in Candidates /\ status[candidate[t]] # "none"
  BY DEF ChooseKey, CandidatesInv, Working
<1>2. PICK k \in Keys : key' = [key EXCEPT ![t] = k]
  <2>1. <<candidate[t], "plain">> \in Keys /\ <<candidate[t], "suffixed">> \in Keys
    BY <1>1 DEF Keys
  <2> QED
    BY <2>1 DEF ChooseKey
<1>3. /\ pc' = [pc EXCEPT ![t] = "insert"]
      /\ UNCHANGED <<status, feed, retries, source, evidence, rowLock, keyLock, candidate,
                     loaded, draft, sourceFeed, queued, validated>>
  BY DEF ChooseKey, Goto, rowVars, lockVars
<1>4. RowTypes' /\ LockTypes' /\ LocalTypes' /\ Others(t) /\ key'[t] = k /\ pc'[t] = "insert"
  BY <1>2, <1>3 DEF CandidatesInv, TypeOK, Working, RowTypes, LockTypes, LocalTypes, Others
<1> QED
  BY <1>1, <1>3, <1>4 DEF Advances, lockVars

LEMMA InsertSourceEffect ==
    ASSUME CandidatesInv, NEW t \in Tasks, InsertSource(t)
    PROVE  /\ Advances(t)
           /\ pc[t] = "insert" /\ pc'[t] = "commit" /\ draft'[t].source \in Keys
           /\ keyLock'[draft'[t].source] = t
           /\ draft'[t].status = draft[t].status /\ draft'[t].feed = draft[t].feed
           /\ UNCHANGED <<candidate, loaded, key, rowLock, validated>>
<1>1. /\ pc[t] = "insert" /\ candidate[t] \in Candidates /\ status[candidate[t]] # "none"
      /\ key[t] \in Keys /\ keyLock[key[t]] = NoTask
  BY DEF InsertSource, CandidatesInv, Working
<1>2. /\ draft' \in [Tasks -> DraftRows]
      /\ draft'[t].status = draft[t].status /\ draft'[t].feed = draft[t].feed
      /\ draft'[t].source = key[t]
      /\ \A u \in Tasks \ {t} : draft'[u] = draft[u]
  BY <1>1 DEF InsertSource, Drafts, CandidatesInv, TypeOK, DraftRows
<1>3. /\ pc' = [pc EXCEPT ![t] = "commit"]
      /\ keyLock' = [keyLock EXCEPT ![key[t]] = t]
      /\ UNCHANGED <<status, feed, retries, source, evidence, rowLock, candidate,
                     loaded, key, sourceFeed, queued, validated>>
  BY DEF InsertSource, Goto, rowVars
<1>4. RowTypes' /\ LockTypes' /\ LocalTypes' /\ Others(t) /\ pc'[t] = "commit" /\ keyLock'[key[t]] = t
  BY <1>1, <1>2, <1>3
  DEF CandidatesInv, TypeOK, Working, RowTypes, LockTypes, LocalTypes, Others
<1> QED
  BY <1>1, <1>2, <1>3, <1>4 DEF CandidatesInv, TypeOK, Advances

(* A task ends without a promotion.  Only a saved score changes the row's   *)
(* feed, to one this probe found; otherwise the row keeps a feed that       *)
(* another task wrote meanwhile.                                            *)
Ends(t) ==
    /\ RowTypes' /\ LocalTypes' /\ LockTypes'
    /\ Others(t)
    /\ pc'[t] = "idle"
    /\ UNCHANGED <<source, sourceFeed, evidence>>
    /\ validated \subseteq validated'
    /\ \A c \in Candidates : rowLock'[c] # rowLock[c] => rowLock[c] = t
    /\ \A k \in Keys : keyLock'[k] # keyLock[k] => keyLock[k] = t
    /\ \A c \in Candidates : status[c] # "none" => status'[c] # "none"
    /\ \A c \in Candidates : status'[c] # status[c] /\ status'[c] \in Live \cup {"pending"} =>
          /\ c = candidate[t] /\ pc[t] # "idle" /\ status'[c] = "pending"
          /\ \/ <<c, feed'[c]>> \in validated'
             \/ (feed'[c] = feed[c] /\ feed[c] # loaded[t].feed)
    /\ \A c \in Candidates : feed'[c] # feed[c] =>
          /\ c = candidate[t] /\ <<c, feed'[c]>> \in validated'
          /\ ~InUse(feed'[c], c) /\ ~Flushed(feed'[c], c)
          /\ \A d \in Candidates \ {c} : feed'[d] = feed[d]

LEMMA ProbeUnsafeEffect ==
    ASSUME CandidatesInv, NEW w \in Tasks, ProbeUnsafe(w)
    PROVE  Ends(w)
<1>1. status' = [status EXCEPT ![candidate[w]] = "rejected"] /\ EndTask(w)
  BY DEF ProbeUnsafe
<1>2. UNCHANGED <<feed, retries, source, evidence, rowLock, keyLock, sourceFeed, queued, validated>>
  BY DEF ProbeUnsafe, lockVars
<1>3. RowTypes' /\ LockTypes'
  BY <1>1, <1>2 DEF CandidatesInv, TypeOK, RowTypes, LockTypes, Statuses
<1> QED
  BY <1>1, <1>2, <1>3, EndEffect DEF CandidatesInv, TypeOK, Ends, Live

LEMMA ProbeFailsEffect ==
    ASSUME CandidatesInv, NEW w \in Tasks, ProbeFails(w)
    PROVE  Ends(w)
<1>1. candidate[w] \in Candidates /\ loaded[w].retries + 1 \in Nat /\ EndTask(w)
  BY DEF ProbeFails, CandidatesInv, Working, TypeOK, Rows
<1>2. PICK s \in {"failed", "rejected"} : status' = [status EXCEPT ![candidate[w]] = s]
  BY DEF ProbeFails
<1>3. /\ retries' = [retries EXCEPT ![candidate[w]] = loaded[w].retries + 1]
      /\ UNCHANGED <<feed, source, evidence, rowLock, keyLock, sourceFeed, queued, validated>>
  BY DEF ProbeFails, lockVars
<1>4. RowTypes' /\ LockTypes'
  BY <1>1, <1>2, <1>3 DEF CandidatesInv, TypeOK, RowTypes, LockTypes, Statuses
<1> QED
  BY <1>1, <1>2, <1>3, <1>4, EndEffect DEF CandidatesInv, TypeOK, Ends, Live

LEMMA SaveFailsEffect ==
    ASSUME CandidatesInv, NEW w \in Tasks, SaveFails(w)
    PROVE  Ends(w)
<1>1. /\ EndTask(w) /\ validated \subseteq validated'
      /\ UNCHANGED <<status, feed, retries, source, evidence, rowLock, keyLock, sourceFeed, queued>>
  BY DEF SaveFails, rowVars, lockVars
<1>2. RowTypes' /\ LockTypes'
  BY <1>1 DEF CandidatesInv, TypeOK, RowTypes, LockTypes
<1> QED
  BY <1>1, <1>2, EndEffect DEF Ends

LEMMA AbortEffect ==
    ASSUME CandidatesInv, NEW t \in Tasks, Abort(t)
    PROVE  Ends(t)
<1>1. /\ EndTask(t)
      /\ UNCHANGED <<status, feed, retries, source, evidence, sourceFeed, queued, validated>>
      /\ rowLock' = [c \in Candidates |-> IF rowLock[c] = t THEN NoTask ELSE rowLock[c]]
      /\ keyLock' = [k \in Keys |-> IF keyLock[k] = t THEN NoTask ELSE keyLock[k]]
  BY DEF Abort, ReleaseLocks, rowVars
<1>2. RowTypes' /\ LockTypes'
  BY <1>1 DEF CandidatesInv, TypeOK, RowTypes, LockTypes
<1> QED
  BY <1>1, <1>2, EndEffect DEF Ends

LEMMA SaveScoreEffect ==
    ASSUME CandidatesInv, NEW w \in Tasks, SaveScore(w)
    PROVE  Ends(w)
<1> DEFINE c == candidate[w]
<1>1. c \in Candidates /\ status[c] # "none" /\ pc[w] = "probe" /\ EndTask(w)
  BY DEF SaveScore, CandidatesInv, Working
<1>2. PICK f \in Found(w) :
         /\ ~FeedTaken(w, f) /\ ~FeedAwaited(w, f)
         /\ feed' = [feed EXCEPT ![c] = Column(loaded[w].feed, @, f)]
         /\ validated' = validated \cup {<<c, f>>}
  BY DEF SaveScore
<1>3. PICK s \in {"pending", "rejected"} : status' = [status EXCEPT ![c] = s]
  BY DEF SaveScore
<1>4. UNCHANGED <<retries, source, evidence, rowLock, keyLock, sourceFeed, queued>>
  BY DEF SaveScore, lockVars
<1>5. f \in Feeds /\ loaded[w].feed \in Feeds \cup {NoFeed}
  BY <1>1, FoundFeeds DEF Rows
<1>6. RowTypes' /\ LockTypes'
  BY <1>1, <1>2, <1>3, <1>4, <1>5
  DEF CandidatesInv, TypeOK, RowTypes, LockTypes, Statuses, Column
<1>7. /\ feed'[c] = IF f = loaded[w].feed THEN feed[c] ELSE f
      /\ \A d \in Candidates \ {c} : feed'[d] = feed[d]
  BY <1>1, <1>2, <1>5 DEF CandidatesInv, TypeOK, Column
<1>8. feed'[c] # feed[c] =>
         <<c, feed'[c]>> \in validated' /\ ~InUse(feed'[c], c) /\ ~Flushed(feed'[c], c)
  BY <1>2, <1>7 DEF FeedTaken, FeedAwaited
<1>9. <<c, feed'[c]>> \in validated' \/ (feed'[c] = feed[c] /\ feed[c] # loaded[w].feed)
  BY <1>2, <1>7
<1>10. \A d \in Candidates : status'[d] # status[d] => d = c /\ status'[d] = s
  BY <1>1, <1>3 DEF CandidatesInv, TypeOK
<1>11. \A d \in Candidates : status'[d] # status[d] /\ status'[d] \in Live \cup {"pending"} =>
          /\ d = candidate[w] /\ pc[w] # "idle" /\ status'[d] = "pending"
          /\ \/ <<d, feed'[d]>> \in validated'
             \/ feed'[d] = feed[d] /\ feed[d] # loaded[w].feed
  BY <1>1, <1>9, <1>10 DEF Live
<1>12. \A d \in Candidates : feed'[d] # feed[d] =>
          /\ d = candidate[w] /\ <<d, feed'[d]>> \in validated'
          /\ ~InUse(feed'[d], d) /\ ~Flushed(feed'[d], d)
          /\ \A e \in Candidates \ {d} : feed'[e] = feed[e]
  BY <1>7, <1>8
<1>13. \A d \in Candidates : status[d] # "none" => status'[d] # "none"
  BY <1>10
<1>14. LocalTypes' /\ Others(w) /\ pc'[w] = "idle" /\ validated \subseteq validated'
  BY <1>1, <1>2, EndEffect
<1> QED
  BY <1>4, <1>6, <1>11, <1>12, <1>13, <1>14 DEF Ends

(* A promotion is committed: the row and its source at once.                *)
LEMMA CommitEffect ==
    ASSUME CandidatesInv, NEW t \in Tasks, Commit(t)
    PROVE  /\ RowTypes' /\ LocalTypes' /\ LockTypes' /\ Others(t)
           /\ pc[t] = "commit" /\ pc'[t] = "idle" /\ candidate[t] \in Candidates
           /\ UNCHANGED <<evidence, validated>> /\ ~SourceTaken(t)
           /\ status'[candidate[t]] = draft[t].status
           /\ feed'[candidate[t]] = IF draft[t].feed = loaded[t].feed THEN feed[candidate[t]]
                                    ELSE draft[t].feed
           /\ source'[candidate[t]] = IF draft[t].source = loaded[t].source
                                      THEN source[candidate[t]] ELSE draft[t].source
           /\ \A c \in Candidates \ {candidate[t]} :
                 status'[c] = status[c] /\ feed'[c] = feed[c] /\ source'[c] = source[c]
           /\ \A k \in Keys :
                 sourceFeed'[k] = IF keyLock[k] = t THEN draft[t].feed ELSE sourceFeed[k]
           /\ SourcesGrow
           /\ \A c \in Candidates : rowLock'[c] # rowLock[c] => rowLock[c] = t
           /\ \A k \in Keys : keyLock'[k] # keyLock[k] => keyLock[k] = t
<1> DEFINE c == candidate[t]
<1>1. c \in Candidates /\ pc[t] = "commit" /\ draft[t].status \in Live /\ draft[t].feed \in Feeds
  BY DEF Commit, CandidatesInv, Working, Promoting
<1>2. /\ EndTask(t) /\ ~SourceTaken(t)
      /\ status' = [status EXCEPT ![c] = draft[t].status]
      /\ feed' = [feed EXCEPT ![c] = Column(loaded[t].feed, @, draft[t].feed)]
      /\ source' = [source EXCEPT ![c] = Column(loaded[t].source, @, draft[t].source)]
      /\ sourceFeed' = [k \in Keys |-> IF keyLock[k] = t THEN draft[t].feed ELSE sourceFeed[k]]
      /\ rowLock' = [d \in Candidates |-> IF rowLock[d] = t THEN NoTask ELSE rowLock[d]]
      /\ keyLock' = [k \in Keys |-> IF keyLock[k] = t THEN NoTask ELSE keyLock[k]]
      /\ UNCHANGED <<retries, evidence, queued, validated>>
  BY DEF Commit, ReleaseLocks
<1>3. draft[t] \in DraftRows /\ Live \subseteq Statuses
  BY DEF CandidatesInv, TypeOK, Statuses
<1>4. RowTypes' /\ LockTypes'
  BY <1>1, <1>2, <1>3 DEF CandidatesInv, TypeOK, RowTypes, LockTypes, Column, DraftRows
<1>5. SourcesGrow
  BY <1>1, <1>2, CandidatesAssumption DEF SourcesGrow
<1>6. /\ feed'[c] = IF draft[t].feed = loaded[t].feed THEN feed[c] ELSE draft[t].feed
      /\ source'[c] = IF draft[t].source = loaded[t].source THEN source[c] ELSE draft[t].source
      /\ status'[c] = draft[t].status
      /\ \A d \in Candidates \ {c} :
            status'[d] = status[d] /\ feed'[d] = feed[d] /\ source'[d] = source[d]
  BY <1>1, <1>2 DEF CandidatesInv, TypeOK, Column
<1> QED
  BY <1>1, <1>2, <1>4, <1>5, <1>6, EndEffect

-----------------------------------------------------------------------------
(* The steps, as the four kinds that the invariants tell apart.             *)

ValidationBegins(w) == \E c \in Candidates : BeginValidation(w, c)
ApprovalBegins(o) == \E c \in Candidates : BeginApproval(o, c)
TaskEnds(t) ==
    \/ ProbeUnsafe(t) \/ ProbeFails(t) \/ SaveScore(t) \/ SaveFails(t)
    \/ Abort(t)

LEMMA NextKinds ==
    ASSUME Next
    PROVE  \/ OperatorStep
           \/ \E t \in Tasks :
                 \/ ValidationBegins(t) \/ AutoApprove(t) \/ ApprovalBegins(t)
                 \/ ChooseKey(t) \/ InsertSource(t) \/ Commit(t) \/ TaskEnds(t)
<1>1. ASSUME NEW w \in Workers, Validation(w) \/ Crash(w)
      PROVE  OperatorStep \/ ValidationBegins(w) \/ AutoApprove(w) \/ TaskEnds(w)
  BY <1>1 DEF Validation, Crash, OperatorStep, ValidationBegins, TaskEnds
<1>2. ASSUME NEW t \in Tasks, Promotion(t)
      PROVE  ChooseKey(t) \/ InsertSource(t) \/ Commit(t) \/ TaskEnds(t)
  BY <1>2 DEF Promotion, AbortTransaction, TaskEnds
<1>3. Workers \subseteq Tasks /\ Operators \subseteq Tasks
  BY DEF Tasks
<1>4. ASSUME NEW o \in Operators, NEW c \in Candidates, BeginApproval(o, c)
      PROVE  ApprovalBegins(o)
  BY <1>4 DEF ApprovalBegins
<1>5. CASE OperatorStep
  BY <1>5
<1>6. CASE \E w \in Workers : Validation(w) \/ Crash(w)
  BY <1>1, <1>3, <1>6
<1>7. CASE \E o \in Operators, c \in Candidates : BeginApproval(o, c)
  BY <1>3, <1>4, <1>7
<1>8. CASE \E t \in Tasks : Promotion(t)
  BY <1>2, <1>8
<1> QED
  BY <1>5, <1>6, <1>7, <1>8 DEF Next, OperatorStep

LEMMA EndsEffect ==
    ASSUME CandidatesInv, NEW t \in Tasks, TaskEnds(t)
    PROVE  Ends(t)
  BY ProbeUnsafeEffect, ProbeFailsEffect, SaveScoreEffect, SaveFailsEffect, AbortEffect
  DEF TaskEnds

(***************************************************************************)
(* The types, and that a task at work has its candidate.                    *)
(***************************************************************************)

TypesAfter == RowTypes' /\ LocalTypes' /\ LockTypes'

LEMMA TypesSuffice == TypesAfter => TypeOK'
  BY DEF TypesAfter, RowTypes, LocalTypes, LockTypes, TypeOK

(* The other tasks keep theirs; it is enough to look at the one that moves. *)
LEMMA WorkingFrame ==
    ASSUME CandidatesInv, NEW t \in Tasks, Others(t), TypesAfter,
           \A c \in Candidates : status[c] # "none" => status'[c] # "none",
           pc'[t] # "idle" => candidate'[t] \in Candidates /\ status'[candidate'[t]] # "none",
           pc'[t] \in Promoting => draft'[t].status \in Live /\ draft'[t].feed \in Feeds,
           pc'[t] = "insert" => key'[t] \in Keys
    PROVE  CandidatesInv'
<1>1. \A u \in Tasks :
         /\ pc'[u] # "idle" => candidate'[u] \in Candidates /\ status'[candidate'[u]] # "none"
         /\ pc'[u] \in Promoting => draft'[u].status \in Live /\ draft'[u].feed \in Feeds
         /\ pc'[u] = "insert" => key'[u] \in Keys
  <2>1. TAKE u \in Tasks
  <2>2. CASE u = t
    BY <2>2
  <2>3. CASE u # t
    BY <2>3 DEF Others, CandidatesInv, Working
  <2> QED
    BY <2>2, <2>3
<1> QED
  BY <1>1, TypesSuffice DEF CandidatesInv, Working, TypesAfter, LocalTypes

LEMMA WorkingAdvances ==
    ASSUME CandidatesInv, NEW t \in Tasks, Advances(t),
           pc'[t] \in Promoting => draft'[t].status \in Live /\ draft'[t].feed \in Feeds,
           pc'[t] = "insert" => key'[t] \in Keys
    PROVE  CandidatesInv'
<1>1. \A c \in Candidates : status[c] # "none" => status'[c] # "none"
  BY DEF Advances
<1>2. Others(t) /\ TypesAfter /\ candidate'[t] \in Candidates /\ status'[candidate'[t]] # "none"
  BY <1>1 DEF Advances, TypesAfter
<1> QED
  BY <1>1, <1>2, WorkingFrame

LEMMA CandidatesNext == CandidatesInv /\ [Next]_vars => CandidatesInv'
<1> SUFFICES ASSUME CandidatesInv, [Next]_vars
             PROVE  CandidatesInv'
  OBVIOUS
<1>1. CASE OperatorStep
  <2>1. OperatorEffect
    BY <1>1, OperatorSteps
  <2>2. TypesAfter
    BY <2>1
    DEF OperatorEffect, TypesAfter, LocalTypes, LockTypes, CandidatesInv, TypeOK, Working,
        taskVars, lockVars
  <2>3. \A c \in Candidates : status[c] # "none" => status'[c] # "none"
    BY <2>1 DEF OperatorEffect
  <2>4. UNCHANGED <<pc, candidate, draft, key>>
    BY <2>1 DEF OperatorEffect, taskVars
  <2> QED
    BY <2>2, <2>3, <2>4, TypesSuffice DEF CandidatesInv, Working
<1>2. ASSUME NEW t \in Tasks, ValidationBegins(t)
      PROVE  CandidatesInv'
  BY <1>2, BeginValidationEffect, WorkingAdvances DEF ValidationBegins, Promoting
<1>3. ASSUME NEW t \in Tasks, AutoApprove(t)
      PROVE  CandidatesInv'
  BY <1>3, AutoApproveEffect, WorkingAdvances
<1>4. ASSUME NEW t \in Tasks, ApprovalBegins(t)
      PROVE  CandidatesInv'
  BY <1>4, BeginApprovalEffect, WorkingAdvances DEF ApprovalBegins, Live
<1>5. ASSUME NEW t \in Tasks, ChooseKey(t)
      PROVE  CandidatesInv'
  BY <1>5, ChooseKeyEffect, WorkingAdvances DEF CandidatesInv, Working, Promoting
<1>6. ASSUME NEW t \in Tasks, InsertSource(t)
      PROVE  CandidatesInv'
  BY <1>6, InsertSourceEffect, WorkingAdvances DEF CandidatesInv, Working, Promoting
<1>7. ASSUME NEW t \in Tasks, Commit(t)
      PROVE  CandidatesInv'
  <2>1. /\ Others(t) /\ TypesAfter /\ pc'[t] = "idle"
        /\ \A c \in Candidates \ {candidate[t]} : status'[c] = status[c]
        /\ pc[t] = "commit" /\ status'[candidate[t]] = draft[t].status
    BY <1>7, CommitEffect DEF TypesAfter
  <2>2. draft[t].status # "none"
    BY <2>1 DEF CandidatesInv, Working, Promoting, Live
  <2>3. \A c \in Candidates : status[c] # "none" => status'[c] # "none"
    BY <2>1, <2>2
  <2> QED
    BY <2>1, <2>3, WorkingFrame DEF Promoting
<1>8. ASSUME NEW t \in Tasks, TaskEnds(t)
      PROVE  CandidatesInv'
  <2>1. Ends(t)
    BY <1>8, EndsEffect
  <2>2. /\ Others(t) /\ TypesAfter /\ pc'[t] = "idle"
        /\ \A c \in Candidates : status[c] # "none" => status'[c] # "none"
    BY <2>1 DEF Ends, TypesAfter
  <2> QED
    BY <2>2, WorkingFrame DEF Promoting
<1>9. CASE UNCHANGED vars
  BY <1>9 DEF vars, rowVars, lockVars, taskVars, CandidatesInv, TypeOK, Working
<1> QED
  BY <1>1, <1>2, <1>3, <1>4, <1>5, <1>6, <1>7, <1>8, <1>9, NextKinds

LEMMA CandidatesInvariant == Spec => []CandidatesInv
  BY CandidatesInit, CandidatesNext, PTL DEF Spec

(* In every reachable state, for any number of candidates, tasks and feeds, *)
(* rows, locks and the copies that sessions hold have their types.          *)
THEOREM CandidatesTypeCorrect == Spec => []TypeOK
<1>1. CandidatesInv => TypeOK
  BY DEF CandidatesInv
<1> QED
  BY <1>1, CandidatesInvariant, PTL

(***************************************************************************)
(* LiveHasSource: a source once found or inserted stays, and a task that    *)
(* read a row with a source finds it still has one.                         *)
(***************************************************************************)

Sourced ==
    /\ LiveHasSource
    /\ \A c \in Candidates : source[c] # NoSource => sourceFeed[source[c]] # NoFeed
    /\ \A t \in Tasks :
          /\ pc[t] # "idle" /\ loaded[t].source # NoSource => source[candidate[t]] # NoSource
          /\ pc[t] = "commit" =>
                /\ draft[t].source \in Keys
                /\ sourceFeed[draft[t].source] # NoFeed \/ keyLock[draft[t].source] = t

LEMMA SourcedInit == Init => Sourced
  BY CandidatesAssumption DEF Init, Sourced, LiveHasSource, Live

LEMMA SourcedAdvances ==
    ASSUME CandidatesInv, Sourced, NEW t \in Tasks, Advances(t),
           loaded'[t].source # NoSource => source[candidate'[t]] # NoSource,
           pc'[t] = "commit" =>
              /\ draft'[t].source \in Keys
              /\ sourceFeed[draft'[t].source] # NoFeed \/ keyLock'[draft'[t].source] = t
    PROVE  Sourced'
<1>1. UNCHANGED <<source, sourceFeed>>
  BY DEF Advances
<1>2. LiveHasSource'
  BY <1>1 DEF Advances, Sourced, LiveHasSource, Live
<1>3. ASSUME NEW u \in Tasks
      PROVE  /\ pc'[u] # "idle" /\ loaded'[u].source # NoSource
                   => source'[candidate'[u]] # NoSource
             /\ pc'[u] = "commit" =>
                   /\ draft'[u].source \in Keys
                   /\ sourceFeed'[draft'[u].source] # NoFeed \/ keyLock'[draft'[u].source] = u
  <2>1. CASE u = t
    BY <1>1, <2>1
  <2>2. CASE u # t
    <3>1. /\ pc'[u] = pc[u] /\ candidate'[u] = candidate[u]
          /\ loaded'[u] = loaded[u] /\ draft'[u] = draft[u]
      BY <2>2 DEF Advances, Others
    <3>2. \A k \in Keys : keyLock[k] = u => keyLock'[k] = u
      BY CandidatesAssumption DEF Advances
    <3> QED
      BY <1>1, <3>1, <3>2 DEF Sourced
  <2> QED
    BY <2>1, <2>2
<1> QED
  BY <1>1, <1>2, <1>3 DEF Sourced

(* What a step that ends task t leaves to the others.                       *)
LEMMA SourcedOthers ==
    ASSUME CandidatesInv, Sourced, NEW t \in Tasks, Others(t), pc'[t] = "idle", SourcesGrow,
           \A c \in Candidates : source[c] # NoSource => source'[c] # NoSource,
           \A k \in Keys : keyLock'[k] # keyLock[k] => keyLock[k] = t
    PROVE  \A u \in Tasks :
              /\ pc'[u] # "idle" /\ loaded'[u].source # NoSource
                    => source'[candidate'[u]] # NoSource
              /\ pc'[u] = "commit" =>
                    /\ draft'[u].source \in Keys
                    /\ sourceFeed'[draft'[u].source] # NoFeed \/ keyLock'[draft'[u].source] = u
<1>1. SUFFICES ASSUME NEW u \in Tasks \ {t}
               PROVE  /\ pc'[u] # "idle" /\ loaded'[u].source # NoSource
                            => source'[candidate'[u]] # NoSource
                      /\ pc'[u] = "commit" =>
                            /\ draft'[u].source \in Keys
                            /\ \/ sourceFeed'[draft'[u].source] # NoFeed
                               \/ keyLock'[draft'[u].source] = u
  OBVIOUS
<1>2. /\ pc'[u] = pc[u] /\ candidate'[u] = candidate[u]
      /\ loaded'[u] = loaded[u] /\ draft'[u] = draft[u]
  BY DEF Others
<1>3. pc[u] # "idle" => candidate[u] \in Candidates
  BY DEF CandidatesInv, Working
<1> QED
  BY <1>2, <1>3 DEF Sourced, SourcesGrow

LEMMA SourcedNext == CandidatesInv /\ Sourced /\ [Next]_vars => Sourced'
<1> SUFFICES ASSUME CandidatesInv, Sourced, [Next]_vars
             PROVE  Sourced'
  OBVIOUS
<1>1. CASE OperatorStep
  <2>1. OperatorEffect
    BY <1>1, OperatorSteps
  <2>2. SourcesGrow /\ UNCHANGED <<source, keyLock, pc, candidate, loaded, draft>>
    BY <2>1 DEF OperatorEffect, taskVars, lockVars
  <2>3. LiveHasSource'
    BY <2>1, <2>2 DEF OperatorEffect, SourcesGrow, Sourced, LiveHasSource, Live,
                      CandidatesInv, TypeOK
  <2> QED
    BY <2>2, <2>3 DEF SourcesGrow, Sourced, CandidatesInv, TypeOK
<1>2. ASSUME NEW t \in Tasks, ValidationBegins(t)
      PROVE  Sourced'
  <2>1. PICK c \in Candidates : BeginValidation(t, c)
    BY <1>2 DEF ValidationBegins
  <2>2. Advances(t) /\ pc'[t] = "probe" /\ loaded'[t].source = source[candidate'[t]]
    BY <2>1, BeginValidationEffect
  <2> QED
    BY <2>2, SourcedAdvances
<1>3. ASSUME NEW t \in Tasks, AutoApprove(t)
      PROVE  Sourced'
  <2>1. /\ Advances(t) /\ pc[t] = "probe" /\ loaded'[t] = loaded[t]
        /\ candidate'[t] = candidate[t]
        /\ pc'[t] = "commit" => /\ draft'[t].source \in Keys
                                /\ sourceFeed[draft'[t].source] # NoFeed
    BY <1>3, AutoApproveEffect
  <2>2. loaded'[t].source # NoSource => source[candidate'[t]] # NoSource
    BY <2>1 DEF Sourced
  <2> QED
    BY <2>1, <2>2, SourcedAdvances
<1>4. ASSUME NEW t \in Tasks, ApprovalBegins(t)
      PROVE  Sourced'
  <2>1. PICK c \in Candidates : BeginApproval(t, c)
    BY <1>4 DEF ApprovalBegins
  <2>2. /\ Advances(t) /\ loaded'[t].source = NoSource
        /\ pc'[t] = "commit" => /\ draft'[t].source \in Keys
                                /\ sourceFeed[draft'[t].source] # NoFeed
    BY <2>1, BeginApprovalEffect
  <2> QED
    BY <2>2, SourcedAdvances
<1>5. ASSUME NEW t \in Tasks, ChooseKey(t)
      PROVE  Sourced'
  BY <1>5, ChooseKeyEffect, SourcedAdvances DEF Sourced
<1>6. ASSUME NEW t \in Tasks, InsertSource(t)
      PROVE  Sourced'
  BY <1>6, InsertSourceEffect, SourcedAdvances DEF Sourced
<1>7. ASSUME NEW t \in Tasks, Commit(t)
      PROVE  Sourced'
  <2> DEFINE c == candidate[t]
  <2>1. /\ pc[t] = "commit" /\ pc'[t] = "idle" /\ c \in Candidates /\ Others(t) /\ SourcesGrow
        /\ source'[c] = IF draft[t].source = loaded[t].source THEN source[c] ELSE draft[t].source
        /\ \A d \in Candidates \ {c} : status'[d] = status[d] /\ source'[d] = source[d]
        /\ \A k \in Keys :
              sourceFeed'[k] = IF keyLock[k] = t THEN draft[t].feed ELSE sourceFeed[k]
        /\ \A k \in Keys : keyLock'[k] # keyLock[k] => keyLock[k] = t
        /\ source' \in [Candidates -> Keys \cup {NoSource}]
    BY <1>7, CommitEffect DEF RowTypes
  <2>2. draft[t].feed # NoFeed /\ draft[t].source \in Keys /\ draft[t].source # NoSource
    BY <2>1, CandidatesAssumption DEF CandidatesInv, Working, Promoting, Sourced
  <2>3. sourceFeed'[draft[t].source] # NoFeed
    BY <2>1, <2>2 DEF Sourced
  <2>4. source'[c] # NoSource /\ sourceFeed'[source'[c]] # NoFeed
    <3>1. CASE draft[t].source = loaded[t].source
      <4>1. source[c] # NoSource /\ source[c] \in Keys
        BY <2>1, <2>2, <3>1 DEF Sourced, CandidatesInv, TypeOK
      <4>2. sourceFeed[source[c]] # NoFeed
        BY <2>1, <4>1 DEF Sourced
      <4> QED
        BY <2>1, <3>1, <4>1, <4>2 DEF SourcesGrow
    <3>2. CASE draft[t].source # loaded[t].source
      BY <2>1, <2>2, <2>3, <3>2
    <3> QED
      BY <3>1, <3>2
  <2>5. \A d \in Candidates : source[d] # NoSource => source'[d] # NoSource
    BY <2>1, <2>4
  <2>6. \A d \in Candidates : source'[d] # NoSource => sourceFeed'[source'[d]] # NoFeed
    BY <2>1, <2>4 DEF Sourced, SourcesGrow
  <2>7. LiveHasSource'
    BY <2>1, <2>4, <2>6 DEF Sourced, LiveHasSource
  <2> QED
    BY <2>1, <2>5, <2>6, <2>7, SourcedOthers DEF Sourced
<1>8. ASSUME NEW t \in Tasks, TaskEnds(t)
      PROVE  Sourced'
  <2>1. Ends(t)
    BY <1>8, EndsEffect
  <2>2. /\ Others(t) /\ pc'[t] = "idle" /\ UNCHANGED <<source, sourceFeed>>
        /\ \A k \in Keys : keyLock'[k] # keyLock[k] => keyLock[k] = t
    BY <2>1 DEF Ends
  <2>3. LiveHasSource'
    BY <2>1, <2>2 DEF Ends, Sourced, LiveHasSource, Live
  <2>4. SourcesGrow
    BY <2>2 DEF SourcesGrow
  <2> QED
    BY <2>2, <2>3, <2>4, SourcedOthers DEF Sourced
<1>9. CASE UNCHANGED vars
  BY <1>9 DEF vars, rowVars, lockVars, taskVars, Sourced, LiveHasSource
<1> QED
  BY <1>1, <1>2, <1>3, <1>4, <1>5, <1>6, <1>7, <1>8, <1>9, NextKinds

(* A live candidate's source exists, whatever conflicts, deadlocks or dying *)
(* workers hit the tasks that promote it (promote_candidate and the commit).*)
THEOREM LiveCandidateHasSource == Spec => []LiveHasSource
<1>1. Sourced => LiveHasSource
  BY DEF Sourced
<1> QED
  BY <1>1, SourcedInit, SourcedNext, CandidatesInvariant, PTL DEF Spec

(***************************************************************************)
(* NothingShared: a feed that a task is about to give its candidate is      *)
(* nobody else's, neither committed nor on its way.                         *)
(***************************************************************************)

Replacing(t) == pc[t] \in Promoting /\ draft[t].feed # loaded[t].feed

Reserved ==
    /\ \A t \in Tasks : Replacing(t) =>
          /\ rowLock[candidate[t]] = t
          /\ \A d \in Candidates \ {candidate[t]} : feed[d] # draft[t].feed
    /\ \A t, u \in Tasks :
          Replacing(t) /\ Replacing(u) /\ candidate[t] # candidate[u]
              => draft[t].feed # draft[u].feed

Separate == NothingShared /\ Reserved

LEMMA SeparateInit == Init => Separate
  BY DEF Init, Separate, NothingShared, Reserved, Replacing, Promoting

(* A feed nobody has flushed is not what another task is about to write.    *)
LEMMA NotFlushed ==
    ASSUME CandidatesInv, Reserved, NEW c \in Candidates, NEW f, ~Flushed(f, c),
           NEW t \in Tasks, Replacing(t), candidate[t] # c
    PROVE  draft[t].feed # f
<1>1. candidate[t] \in Candidates /\ rowLock[candidate[t]] = t /\ t # NoTask
  BY CandidatesAssumption DEF Reserved, Replacing, Promoting, CandidatesInv, Working
<1> QED
  BY <1>1 DEF Flushed, Writes, Replacing

(* The feeds of the rows do not change: only task t may begin to replace.   *)
LEMMA SeparateAdvances ==
    ASSUME CandidatesInv, Separate, NEW t \in Tasks, Advances(t),
           Replacing(t)' =>
              /\ rowLock'[candidate'[t]] = t
              /\ \/ Replacing(t) /\ candidate'[t] = candidate[t] /\ draft'[t].feed = draft[t].feed
                 \/ ~InUse(draft'[t].feed, candidate'[t]) /\ ~Flushed(draft'[t].feed, candidate'[t])
    PROVE  Separate'
<1>1. NothingShared'
  BY DEF Separate, NothingShared, Advances
<1>2. \A u \in Tasks \ {t} :
         /\ pc'[u] = pc[u] /\ candidate'[u] = candidate[u]
         /\ loaded'[u] = loaded[u] /\ draft'[u] = draft[u]
         /\ Replacing(u)' <=> Replacing(u)
  BY DEF Advances, Others, Replacing
<1>3. \A u \in Tasks \ {t} : Replacing(u)' =>
         /\ rowLock'[candidate'[u]] = u
         /\ \A d \in Candidates \ {candidate'[u]} : feed'[d] # draft'[u].feed
  <2>1. SUFFICES ASSUME NEW u \in Tasks \ {t}, Replacing(u)
                 PROVE  /\ rowLock'[candidate[u]] = u
                        /\ \A d \in Candidates \ {candidate[u]} : feed'[d] # draft[u].feed
    BY <1>2
  <2>2. candidate[u] \in Candidates /\ rowLock[candidate[u]] = u /\ u # NoTask
    BY <2>1, CandidatesAssumption
    DEF Separate, Reserved, Replacing, Promoting, CandidatesInv, Working
  <2> QED
    BY <2>1, <2>2 DEF Advances, Separate, Reserved
<1>4. Replacing(t)' => \A d \in Candidates \ {candidate'[t]} : feed'[d] # draft'[t].feed
  BY DEF Advances, InUse, Separate, Reserved
<1>5. \A u \in Tasks \ {t} :
         Replacing(t)' /\ Replacing(u)' /\ candidate'[t] # candidate'[u]
             => draft'[t].feed # draft'[u].feed
  <2>1. SUFFICES ASSUME NEW u \in Tasks \ {t}, Replacing(t)', Replacing(u),
                        candidate'[t] # candidate[u]
                 PROVE  draft'[t].feed # draft[u].feed
    BY <1>2
  <2>2. CASE Replacing(t) /\ candidate'[t] = candidate[t] /\ draft'[t].feed = draft[t].feed
    BY <2>1, <2>2 DEF Separate, Reserved
  <2>3. CASE ~Flushed(draft'[t].feed, candidate'[t])
    BY <2>1, <2>3, NotFlushed DEF Advances, Separate
  <2> QED
    BY <2>1, <2>2, <2>3
<1>6. \A u, v \in Tasks \ {t} :
         Replacing(u)' /\ Replacing(v)' /\ candidate'[u] # candidate'[v]
             => draft'[u].feed # draft'[v].feed
  BY <1>2 DEF Separate, Reserved
<1>7. Reserved'
  BY <1>3, <1>4, <1>5, <1>6 DEF Reserved
<1> QED
  BY <1>1, <1>7 DEF Separate

(* Task t ends, or none moves, and rows get feeds that nobody has.          *)
LEMMA ReservedOthers ==
    ASSUME CandidatesInv, Separate, NEW T \in SUBSET Tasks,
           \A u \in T : /\ pc'[u] = pc[u] /\ candidate'[u] = candidate[u]
                        /\ loaded'[u] = loaded[u] /\ draft'[u] = draft[u],
           \A u \in Tasks \ T : pc'[u] = "idle",
           \A c \in Candidates : rowLock'[c] # rowLock[c] => rowLock[c] \notin T,
           \A c \in Candidates : feed'[c] # feed[c] =>
              \A u \in T : Replacing(u) /\ candidate[u] # c => draft[u].feed # feed'[c]
    PROVE  Reserved'
<1>1. \A u \in Tasks : Replacing(u)' => u \in T
  BY DEF Replacing, Promoting
<1>2. \A u \in T :
         /\ Replacing(u)' <=> Replacing(u)
         /\ candidate'[u] = candidate[u] /\ draft'[u] = draft[u]
  BY DEF Replacing
<1>3. \A u \in T : Replacing(u) =>
         /\ rowLock'[candidate[u]] = u
         /\ \A d \in Candidates \ {candidate[u]} : feed'[d] # draft[u].feed
  <2>1. SUFFICES ASSUME NEW u \in T, Replacing(u)
                 PROVE  /\ rowLock'[candidate[u]] = u
                        /\ \A d \in Candidates \ {candidate[u]} : feed'[d] # draft[u].feed
    OBVIOUS
  <2>2. candidate[u] \in Candidates /\ rowLock[candidate[u]] = u
    BY <2>1 DEF Separate, Reserved, Replacing, Promoting, CandidatesInv, Working
  <2>3. \A d \in Candidates \ {candidate[u]} : feed[d] # draft[u].feed
    BY <2>1 DEF Separate, Reserved
  <2> QED
    BY <2>1, <2>2, <2>3
<1>4. \A u, v \in T : Replacing(u) /\ Replacing(v) /\ candidate[u] # candidate[v]
                         => draft[u].feed # draft[v].feed
  BY DEF Separate, Reserved
<1> QED
  BY <1>1, <1>2, <1>3, <1>4 DEF Reserved

LEMMA SeparateNext == CandidatesInv /\ Separate /\ [Next]_vars => Separate'
<1> SUFFICES ASSUME CandidatesInv, Separate, [Next]_vars
             PROVE  Separate'
  OBVIOUS
<1>1. CASE OperatorStep
  <2>1. OperatorEffect
    BY <1>1, OperatorSteps
  <2>2. UNCHANGED <<source, rowLock, pc, candidate, loaded, draft>>
    BY <2>1 DEF OperatorEffect, taskVars, lockVars
  <2>3. NothingShared'
    BY <2>1, <2>2 DEF OperatorEffect, Separate, NothingShared, InUse
  <2>4. \A c \in Candidates : feed'[c] # feed[c] =>
           \A u \in Tasks : Replacing(u) /\ candidate[u] # c => draft[u].feed # feed'[c]
    <3>1. SUFFICES ASSUME NEW c \in Candidates, feed'[c] # feed[c],
                          NEW u \in Tasks, Replacing(u), candidate[u] # c
                   PROVE  draft[u].feed # feed'[c]
      OBVIOUS
    <3>2. draft[u].feed # NoFeed
      BY <3>1, CandidatesAssumption DEF Replacing, CandidatesInv, Working
    <3>3. feed'[c] # NoFeed => ~Flushed(feed'[c], c)
      BY <2>1, <3>1 DEF OperatorEffect
    <3> QED
      BY <3>1, <3>2, <3>3, NotFlushed DEF Separate
  <2>5. Reserved'
    BY <2>2, <2>4, ReservedOthers
  <2> QED
    BY <2>3, <2>5 DEF Separate
<1>2. ASSUME NEW t \in Tasks, ValidationBegins(t)
      PROVE  Separate'
  <2>1. Advances(t) /\ pc'[t] = "probe"
    BY <1>2, BeginValidationEffect DEF ValidationBegins
  <2> QED
    BY <2>1, SeparateAdvances DEF Replacing, Promoting
<1>3. ASSUME NEW t \in Tasks, AutoApprove(t)
      PROVE  Separate'
  <2>1. /\ Advances(t) /\ rowLock'[candidate'[t]] = t
        /\ draft'[t].feed # loaded'[t].feed =>
              ~InUse(draft'[t].feed, candidate'[t]) /\ ~Flushed(draft'[t].feed, candidate'[t])
    BY <1>3, AutoApproveEffect
  <2> QED
    BY <2>1, SeparateAdvances DEF Replacing
<1>4. ASSUME NEW t \in Tasks, ApprovalBegins(t)
      PROVE  Separate'
  <2>1. PICK c \in Candidates : BeginApproval(t, c)
    BY <1>4 DEF ApprovalBegins
  <2>2. Advances(t) /\ draft'[t].feed = loaded'[t].feed
    BY <2>1, BeginApprovalEffect
  <2> QED
    BY <2>2, SeparateAdvances DEF Replacing
<1>5. ASSUME NEW t \in Tasks, ChooseKey(t)
      PROVE  Separate'
  <2>1. /\ Advances(t) /\ pc[t] = "choose" /\ UNCHANGED <<candidate, loaded, draft, rowLock>>
    BY <1>5, ChooseKeyEffect DEF lockVars
  <2> QED
    BY <2>1, SeparateAdvances DEF Replacing, Promoting, Separate, Reserved
<1>6. ASSUME NEW t \in Tasks, InsertSource(t)
      PROVE  Separate'
  <2>1. /\ Advances(t) /\ pc[t] = "insert" /\ draft'[t].feed = draft[t].feed
        /\ UNCHANGED <<candidate, loaded, rowLock>>
    BY <1>6, InsertSourceEffect
  <2> QED
    BY <2>1, SeparateAdvances DEF Replacing, Promoting, Separate, Reserved
<1>7. ASSUME NEW t \in Tasks, Commit(t)
      PROVE  Separate'
  <2> DEFINE c == candidate[t]
  <2>1. /\ pc[t] = "commit" /\ pc'[t] = "idle" /\ c \in Candidates /\ Others(t)
        /\ feed'[c] = IF draft[t].feed = loaded[t].feed THEN feed[c] ELSE draft[t].feed
        /\ source'[c] = IF draft[t].source = loaded[t].source THEN source[c] ELSE draft[t].source
        /\ \A d \in Candidates \ {c} : feed'[d] = feed[d] /\ source'[d] = source[d]
        /\ ~SourceTaken(t)
        /\ \A d \in Candidates : rowLock'[d] # rowLock[d] => rowLock[d] = t
    BY <1>7, CommitEffect
  <2>2. \A d \in Candidates \ {c} : source'[d] = source'[c] => source'[d] = NoSource
    BY <2>1 DEF SourceTaken, Separate, NothingShared
  <2>3. \A d \in Candidates \ {c} : feed'[d] = feed'[c] => feed'[d] = NoFeed
    BY <2>1 DEF Replacing, Promoting, Separate, Reserved, NothingShared
  <2>4. NothingShared'
    BY <2>1, <2>2, <2>3 DEF Separate, NothingShared
  <2>5. \A d \in Candidates : feed'[d] # feed[d] =>
           \A u \in Tasks \ {t} : Replacing(u) /\ candidate[u] # d => draft[u].feed # feed'[d]
    BY <2>1 DEF Replacing, Promoting, Separate, Reserved
  <2>6. Reserved'
    <3> DEFINE T == Tasks \ {t}
    <3>1. T \in SUBSET Tasks /\ \A u \in Tasks \ T : pc'[u] = "idle"
      BY <2>1
    <3>2. \A u \in T : /\ pc'[u] = pc[u] /\ candidate'[u] = candidate[u]
                        /\ loaded'[u] = loaded[u] /\ draft'[u] = draft[u]
      BY <2>1 DEF Others
    <3>3. \A d \in Candidates : rowLock'[d] # rowLock[d] => rowLock[d] \notin T
      BY <2>1
    <3>4. \A d \in Candidates : feed'[d] # feed[d] =>
             \A u \in T : Replacing(u) /\ candidate[u] # d => draft[u].feed # feed'[d]
      BY <2>5
    <3> HIDE DEF T
    <3> QED
      BY <3>1, <3>2, <3>3, <3>4, ReservedOthers
  <2> QED
    BY <2>4, <2>6 DEF Separate
<1>8. ASSUME NEW t \in Tasks, TaskEnds(t)
      PROVE  Separate'
  <2>1. Ends(t)
    BY <1>8, EndsEffect
  <2>2. /\ Others(t) /\ pc'[t] = "idle" /\ UNCHANGED source
        /\ \A c \in Candidates : rowLock'[c] # rowLock[c] => rowLock[c] = t
    BY <2>1 DEF Ends
  <2>3. NothingShared'
    <3>1. ASSUME NEW c \in Candidates, NEW d \in Candidates, c # d, feed'[c] = feed'[d]
          PROVE  feed'[c] = NoFeed
      <4>0. \A e \in Candidates : feed'[e] # feed[e] =>
               /\ \A x \in Candidates \ {e} : feed[x] # feed'[e]
               /\ \A x \in Candidates \ {e} : feed'[x] = feed[x]
        BY <2>1 DEF Ends, InUse
      <4>1. CASE feed'[c] # feed[c]
        BY <3>1, <4>0, <4>1
      <4>2. CASE feed'[d] # feed[d]
        BY <3>1, <4>0, <4>2
      <4>3. CASE feed'[c] = feed[c] /\ feed'[d] = feed[d]
        BY <3>1, <4>3 DEF Separate, NothingShared
      <4> QED
        BY <4>1, <4>2, <4>3
    <3> QED
      BY <2>2, <3>1 DEF Separate, NothingShared
  <2>4. \A c \in Candidates : feed'[c] # feed[c] =>
           \A u \in Tasks \ {t} : Replacing(u) /\ candidate[u] # c => draft[u].feed # feed'[c]
    BY <2>1, NotFlushed DEF Ends, Separate
  <2>5. Reserved'
    BY <2>2, <2>4, ReservedOthers DEF Others
  <2> QED
    BY <2>3, <2>5 DEF Separate
<1>9. CASE UNCHANGED vars
  BY <1>9 DEF vars, rowVars, lockVars, taskVars, Separate, NothingShared, Reserved, Replacing
<1> QED
  BY <1>1, <1>2, <1>3, <1>4, <1>5, <1>6, <1>7, <1>8, <1>9, NextKinds

(* No two candidates ever have a source or a feed in common, although each  *)
(* task picks them from copies read before minutes of probing.              *)
THEOREM CandidatesShareNothing == Spec => []NothingShared
<1>1. Separate => NothingShared
  BY DEF Separate
<1> QED
  BY <1>1, SeparateInit, SeparateNext, CandidatesInvariant, PTL DEF Spec

(***************************************************************************)
(* LiveFeedsWereValidated: a row whose feed is no longer the one a task     *)
(* read has one that another task's probe found valid.                      *)
(***************************************************************************)

Checked ==
    /\ LiveFeedsWereValidated
    /\ \A t \in Tasks :
          /\ pc[t] # "idle" /\ feed[candidate[t]] # loaded[t].feed
                => <<candidate[t], feed[candidate[t]]>> \in validated
          /\ pc[t] \in Promoting => <<candidate[t], draft[t].feed>> \in validated

LEMMA CheckedInit == Init => Checked
  BY DEF Init, Checked, LiveFeedsWereValidated, Live, Promoting

(* A row keeps its feed, gets one that was probed, or is new: no task is at *)
(* work on a candidate without a row.                                       *)
FeedsProbed ==
    /\ validated \subseteq validated'
    /\ \A c \in Candidates : feed'[c] # feed[c] =>
          status[c] = "none" \/ <<c, feed'[c]>> \in validated'

LEMMA CheckedOthers ==
    ASSUME CandidatesInv, Checked, FeedsProbed, NEW u \in Tasks,
           pc'[u] = pc[u], candidate'[u] = candidate[u],
           loaded'[u] = loaded[u], draft'[u] = draft[u]
    PROVE  /\ pc'[u] # "idle" /\ feed'[candidate'[u]] # loaded'[u].feed
                 => <<candidate'[u], feed'[candidate'[u]]>> \in validated'
           /\ pc'[u] \in Promoting => <<candidate'[u], draft'[u].feed>> \in validated'
<1>1. pc[u] # "idle" => candidate[u] \in Candidates /\ status[candidate[u]] # "none"
  BY DEF CandidatesInv, Working
<1>2. CASE feed'[candidate[u]] = feed[candidate[u]]
  BY <1>2 DEF Checked, FeedsProbed
<1>3. CASE feed'[candidate[u]] # feed[candidate[u]]
  BY <1>1, <1>3 DEF Checked, FeedsProbed, Promoting
<1> QED
  BY <1>2, <1>3

LEMMA CheckedAdvances ==
    ASSUME CandidatesInv, Checked, NEW t \in Tasks, Advances(t),
           feed[candidate'[t]] # loaded'[t].feed
               => <<candidate'[t], feed[candidate'[t]]>> \in validated',
           pc'[t] \in Promoting => <<candidate'[t], draft'[t].feed>> \in validated'
    PROVE  Checked'
<1>1. UNCHANGED feed /\ FeedsProbed
  BY DEF Advances, FeedsProbed
<1>2. LiveFeedsWereValidated'
  BY <1>1 DEF Advances, Checked, LiveFeedsWereValidated, Live
<1>3. \A u \in Tasks :
         /\ pc'[u] # "idle" /\ feed'[candidate'[u]] # loaded'[u].feed
               => <<candidate'[u], feed'[candidate'[u]]>> \in validated'
         /\ pc'[u] \in Promoting => <<candidate'[u], draft'[u].feed>> \in validated'
  <2>1. TAKE u \in Tasks
  <2>2. CASE u = t
    BY <1>1, <2>2
  <2>3. CASE u # t
    BY <1>1, <2>3, CheckedOthers DEF Advances, Others
  <2> QED
    BY <2>2, <2>3
<1> QED
  BY <1>2, <1>3 DEF Checked

LEMMA CheckedEnds ==
    ASSUME CandidatesInv, Checked, FeedsProbed, LiveFeedsWereValidated',
           NEW t \in Tasks, Others(t), pc'[t] = "idle"
    PROVE  Checked'
<1>1. \A u \in Tasks :
         /\ pc'[u] # "idle" /\ feed'[candidate'[u]] # loaded'[u].feed
               => <<candidate'[u], feed'[candidate'[u]]>> \in validated'
         /\ pc'[u] \in Promoting => <<candidate'[u], draft'[u].feed>> \in validated'
  <2>1. TAKE u \in Tasks
  <2>2. CASE u = t
    BY <2>2 DEF Promoting
  <2>3. CASE u # t
    BY <2>3, CheckedOthers DEF Others
  <2> QED
    BY <2>2, <2>3
<1> QED
  BY <1>1 DEF Checked

LEMMA CheckedNext == CandidatesInv /\ Checked /\ [Next]_vars => Checked'
<1> SUFFICES ASSUME CandidatesInv, Checked, [Next]_vars
             PROVE  Checked'
  OBVIOUS
<1>1. CASE OperatorStep
  <2>1. OperatorEffect
    BY <1>1, OperatorSteps
  <2>2. FeedsProbed /\ UNCHANGED <<pc, candidate, loaded, draft>>
    BY <2>1 DEF OperatorEffect, FeedsProbed, taskVars
  <2>3. LiveFeedsWereValidated'
    BY <2>1 DEF OperatorEffect, Checked, LiveFeedsWereValidated, Live
  <2> QED
    BY <2>2, <2>3, CheckedOthers DEF Checked
<1>2. ASSUME NEW t \in Tasks, ValidationBegins(t)
      PROVE  Checked'
  <2>1. PICK c \in Candidates : BeginValidation(t, c)
    BY <1>2 DEF ValidationBegins
  <2>2. Advances(t) /\ pc'[t] = "probe" /\ loaded'[t].feed = feed[candidate'[t]]
    BY <2>1, BeginValidationEffect
  <2> QED
    BY <2>2, CheckedAdvances DEF Promoting
<1>3. ASSUME NEW t \in Tasks, AutoApprove(t)
      PROVE  Checked'
  <2>1. /\ Advances(t) /\ pc[t] = "probe" /\ loaded'[t] = loaded[t]
        /\ candidate'[t] = candidate[t] /\ <<candidate[t], draft'[t].feed>> \in validated'
    BY <1>3, AutoApproveEffect
  <2> QED
    BY <2>1, CheckedAdvances DEF Advances, Checked
<1>4. ASSUME NEW t \in Tasks, ApprovalBegins(t)
      PROVE  Checked'
  <2>1. PICK c \in Candidates : BeginApproval(t, c)
    BY <1>4 DEF ApprovalBegins
  <2>2. /\ Advances(t) /\ status[c] = "pending" /\ candidate'[t] = c
        /\ loaded'[t].feed = feed[c] /\ draft'[t].feed = feed[c]
    BY <2>1, BeginApprovalEffect
  <2>3. <<c, feed[c]>> \in validated'
    BY <2>2 DEF Advances, Checked, LiveFeedsWereValidated
  <2> QED
    BY <2>2, <2>3, CheckedAdvances
<1>5. ASSUME NEW t \in Tasks, ChooseKey(t)
      PROVE  Checked'
  <2>1. /\ Advances(t) /\ pc[t] = "choose" /\ UNCHANGED <<candidate, loaded, draft, validated>>
    BY <1>5, ChooseKeyEffect
  <2> QED
    BY <2>1, CheckedAdvances DEF Promoting, Checked
<1>6. ASSUME NEW t \in Tasks, InsertSource(t)
      PROVE  Checked'
  <2>1. /\ Advances(t) /\ pc[t] = "insert" /\ draft'[t].feed = draft[t].feed
        /\ UNCHANGED <<candidate, loaded, validated>>
    BY <1>6, InsertSourceEffect
  <2> QED
    BY <2>1, CheckedAdvances DEF Promoting, Checked
<1>7. ASSUME NEW t \in Tasks, Commit(t)
      PROVE  Checked'
  <2> DEFINE c == candidate[t]
  <2>1. /\ pc[t] = "commit" /\ pc'[t] = "idle" /\ c \in Candidates /\ Others(t)
        /\ feed'[c] = IF draft[t].feed = loaded[t].feed THEN feed[c] ELSE draft[t].feed
        /\ \A d \in Candidates \ {c} : status'[d] = status[d] /\ feed'[d] = feed[d]
        /\ UNCHANGED validated
    BY <1>7, CommitEffect
  <2>2. <<c, draft[t].feed>> \in validated
    BY <2>1 DEF Checked, Promoting
  <2>3. feed[c] # loaded[t].feed => <<c, feed[c]>> \in validated
    BY <2>1 DEF Checked
  <2>4. <<c, feed'[c]>> \in validated
    BY <2>1, <2>2, <2>3
  <2>5. FeedsProbed
    BY <2>1, <2>4 DEF FeedsProbed
  <2>6. LiveFeedsWereValidated'
    BY <2>1, <2>4 DEF Checked, LiveFeedsWereValidated
  <2> QED
    BY <2>1, <2>5, <2>6, CheckedEnds
<1>8. ASSUME NEW t \in Tasks, TaskEnds(t)
      PROVE  Checked'
  <2>1. Ends(t)
    BY <1>8, EndsEffect
  <2>2. FeedsProbed /\ Others(t) /\ pc'[t] = "idle"
    BY <2>1 DEF Ends, FeedsProbed
  <2>3. ASSUME NEW c \in Candidates, status'[c] \in Live \cup {"pending"}
        PROVE  <<c, feed'[c]>> \in validated'
    <3>1. CASE feed'[c] # feed[c]
      BY <2>1, <3>1 DEF Ends
    <3>2. CASE feed'[c] = feed[c] /\ status'[c] = status[c]
      BY <2>2, <2>3, <3>2 DEF FeedsProbed, Checked, LiveFeedsWereValidated
    <3>3. CASE feed'[c] = feed[c] /\ status'[c] # status[c]
      <4>1. \/ <<c, feed'[c]>> \in validated'
            \/ (c = candidate[t] /\ pc[t] # "idle" /\ feed[c] # loaded[t].feed)
        BY <2>1, <2>3, <3>3 DEF Ends
      <4> QED
        BY <2>2, <3>3, <4>1 DEF FeedsProbed, Checked
    <3> QED
      BY <3>1, <3>2, <3>3
  <2>4. LiveFeedsWereValidated'
    BY <2>3 DEF LiveFeedsWereValidated
  <2> QED
    BY <2>2, <2>4, CheckedEnds
<1>9. CASE UNCHANGED vars
  BY <1>9 DEF vars, rowVars, lockVars, taskVars, Checked, LiveFeedsWereValidated
<1> QED
  BY <1>1, <1>2, <1>3, <1>4, <1>5, <1>6, <1>7, <1>8, <1>9, NextKinds

(* What an operator may approve and what is live has a feed that a probe of *)
(* this candidate found valid, however validations and approvals overlap.   *)
THEOREM LiveFeedIsValid == Spec => []LiveFeedsWereValidated
<1>1. Checked => LiveFeedsWereValidated
  BY DEF Checked
<1> QED
  BY <1>1, CheckedInit, CheckedNext, CandidatesInvariant, PTL DEF Spec

(***************************************************************************)
(* AutoApprovedIsReferred: evidence is never deleted, so the count that     *)
(* passed the gate still bounds what the rows say.                          *)
(***************************************************************************)

Referred ==
    /\ AutoApprovedIsReferred
    /\ \A t \in Tasks :
          /\ pc[t] # "idle" => loaded[t].referrers <= Cardinality(Referrers(candidate[t]))
          /\ pc[t] \in Promoting /\ draft[t].status = "auto_approved" => loaded[t].referrers >= 2

LEMMA ReferredInit == Init => Referred
  BY DEF Init, Referred, AutoApprovedIsReferred, Promoting

LEMMA ReferrersGrow ==
    ASSUME evidence \subseteq evidence', NEW c \in Candidates
    PROVE  /\ Cardinality(Referrers(c)) \in Nat /\ Cardinality(Referrers(c)') \in Nat
           /\ Cardinality(Referrers(c)) <= Cardinality(Referrers(c)')
<1>1. IsFiniteSet(Referrers(c)') /\ Cardinality(Referrers(c)') \in Nat
  BY ReferrersOfArticles DEF Referrers
<1>2. Referrers(c) \subseteq Referrers(c)'
  BY DEF Referrers
<1> QED
  BY <1>1, <1>2, ReferrersFinite, FS_Subset

LEMMA ReferredAdvances ==
    ASSUME CandidatesInv, Referred, NEW t \in Tasks, Advances(t),
           loaded'[t].referrers <= Cardinality(Referrers(candidate'[t])),
           pc'[t] \in Promoting /\ draft'[t].status = "auto_approved"
               => loaded'[t].referrers >= 2
    PROVE  Referred'
<1>1. UNCHANGED evidence
  BY DEF Advances
<1>2. AutoApprovedIsReferred'
  BY <1>1 DEF Advances, Referred, AutoApprovedIsReferred, Referrers
<1>3. \A u \in Tasks :
         /\ pc'[u] # "idle" => loaded'[u].referrers <= Cardinality(Referrers(candidate'[u]))
         /\ pc'[u] \in Promoting /\ draft'[u].status = "auto_approved"
               => loaded'[u].referrers >= 2
  <2>1. TAKE u \in Tasks
  <2>2. CASE u = t
    BY <2>2
  <2>3. CASE u # t
    BY <2>3 DEF Advances, Others, Referred
  <2> QED
    BY <2>2, <2>3
<1> QED
  BY <1>1, <1>2, <1>3 DEF Referred, Referrers

LEMMA ReferredEnds ==
    ASSUME CandidatesInv, Referred, AutoApprovedIsReferred', UNCHANGED evidence,
           NEW t \in Tasks, Others(t), pc'[t] = "idle"
    PROVE  Referred'
<1>1. \A u \in Tasks :
         /\ pc'[u] # "idle" => loaded'[u].referrers <= Cardinality(Referrers(candidate'[u]))
         /\ pc'[u] \in Promoting /\ draft'[u].status = "auto_approved"
               => loaded'[u].referrers >= 2
  <2>1. TAKE u \in Tasks
  <2>2. CASE u = t
    BY <2>2 DEF Promoting
  <2>3. CASE u # t
    BY <2>3 DEF Others, Referred
  <2> QED
    BY <2>2, <2>3
<1> QED
  BY <1>1 DEF Referred, Referrers

LEMMA ReferredNext == CandidatesInv /\ Referred /\ [Next]_vars => Referred'
<1> SUFFICES ASSUME CandidatesInv, Referred, [Next]_vars
             PROVE  Referred'
  OBVIOUS
<1>1. CASE OperatorStep
  <2>1. OperatorEffect
    BY <1>1, OperatorSteps
  <2>2. evidence \subseteq evidence' /\ UNCHANGED <<pc, candidate, loaded, draft>>
    BY <2>1 DEF OperatorEffect, taskVars
  <2>3. \A c \in Candidates :
           /\ Cardinality(Referrers(c)) \in Nat /\ Cardinality(Referrers(c)') \in Nat
           /\ Cardinality(Referrers(c)) <= Cardinality(Referrers(c)')
    BY <2>2, ReferrersGrow
  <2>4. \A c \in Candidates : status'[c] = "auto_approved" => status[c] = "auto_approved"
    BY <2>1 DEF OperatorEffect
  <2>5. AutoApprovedIsReferred'
    BY <2>3, <2>4 DEF Referred, AutoApprovedIsReferred
  <2>6. \A t \in Tasks : pc[t] # "idle" => candidate[t] \in Candidates
    BY DEF CandidatesInv, Working
  <2>7. \A t \in Tasks : loaded[t].referrers \in Nat
    BY DEF CandidatesInv, TypeOK, Rows
  <2>8. \A t \in Tasks :
           pc[t] # "idle" => loaded[t].referrers <= Cardinality(Referrers(candidate[t])')
    BY <2>2, <2>3, <2>6, <2>7 DEF Referred
  <2> QED
    BY <2>2, <2>5, <2>8 DEF Referred
<1>2. ASSUME NEW t \in Tasks, ValidationBegins(t)
      PROVE  Referred'
  <2>1. PICK c \in Candidates : BeginValidation(t, c)
    BY <1>2 DEF ValidationBegins
  <2>2. /\ Advances(t) /\ pc'[t] = "probe"
        /\ loaded'[t].referrers = Cardinality(Referrers(candidate'[t]))
    BY <2>1, BeginValidationEffect
  <2>3. Cardinality(Referrers(candidate'[t])) \in Nat
    BY <2>2, ReferrersFinite DEF Advances
  <2> QED
    BY <2>2, <2>3, ReferredAdvances DEF Promoting
<1>3. ASSUME NEW t \in Tasks, AutoApprove(t)
      PROVE  Referred'
  <2>1. /\ Advances(t) /\ pc[t] = "probe" /\ loaded'[t] = loaded[t]
        /\ candidate'[t] = candidate[t] /\ loaded[t].referrers >= 2
    BY <1>3, AutoApproveEffect
  <2> QED
    BY <2>1, ReferredAdvances DEF Referred
<1>4. ASSUME NEW t \in Tasks, ApprovalBegins(t)
      PROVE  Referred'
  <2>1. PICK c \in Candidates : BeginApproval(t, c)
    BY <1>4 DEF ApprovalBegins
  <2>2. /\ Advances(t) /\ candidate'[t] = c /\ loaded'[t].referrers = 0
        /\ draft'[t].status = "approved"
    BY <2>1, BeginApprovalEffect
  <2>3. Cardinality(Referrers(c)) \in Nat
    BY ReferrersFinite
  <2> QED
    BY <2>2, <2>3, ReferredAdvances
<1>5. ASSUME NEW t \in Tasks, ChooseKey(t)
      PROVE  Referred'
  <2>1. /\ Advances(t) /\ pc[t] = "choose" /\ UNCHANGED <<candidate, loaded, draft>>
    BY <1>5, ChooseKeyEffect
  <2> QED
    BY <2>1, ReferredAdvances DEF Promoting, Referred
<1>6. ASSUME NEW t \in Tasks, InsertSource(t)
      PROVE  Referred'
  <2>1. /\ Advances(t) /\ pc[t] = "insert" /\ draft'[t].status = draft[t].status
        /\ UNCHANGED <<candidate, loaded>>
    BY <1>6, InsertSourceEffect
  <2> QED
    BY <2>1, ReferredAdvances DEF Promoting, Referred
<1>7. ASSUME NEW t \in Tasks, Commit(t)
      PROVE  Referred'
  <2> DEFINE c == candidate[t]
  <2>1. /\ pc[t] = "commit" /\ pc'[t] = "idle" /\ c \in Candidates /\ Others(t)
        /\ status'[c] = draft[t].status /\ UNCHANGED evidence
        /\ \A d \in Candidates \ {c} : status'[d] = status[d]
    BY <1>7, CommitEffect
  <2>2. Cardinality(Referrers(c)) \in Nat /\ loaded[t].referrers \in Nat
    BY <2>1, ReferrersFinite DEF CandidatesInv, TypeOK, Rows
  <2>3. draft[t].status = "auto_approved" => Cardinality(Referrers(c)) >= 2
    BY <2>1, <2>2 DEF Referred, Promoting
  <2>4. AutoApprovedIsReferred'
    BY <2>1, <2>3 DEF Referred, AutoApprovedIsReferred, Referrers
  <2> QED
    BY <2>1, <2>4, ReferredEnds
<1>8. ASSUME NEW t \in Tasks, TaskEnds(t)
      PROVE  Referred'
  <2>1. Ends(t)
    BY <1>8, EndsEffect
  <2>2. /\ Others(t) /\ pc'[t] = "idle" /\ UNCHANGED evidence
        /\ \A c \in Candidates : status'[c] = "auto_approved" => status[c] = "auto_approved"
    BY <2>1 DEF Ends, Live
  <2>3. AutoApprovedIsReferred'
    BY <2>2 DEF Referred, AutoApprovedIsReferred, Referrers
  <2> QED
    BY <2>2, <2>3, ReferredEnds
<1>9. CASE UNCHANGED vars
  BY <1>9 DEF vars, rowVars, lockVars, taskVars, Referred, AutoApprovedIsReferred, Referrers
<1> QED
  BY <1>1, <1>2, <1>3, <1>4, <1>5, <1>6, <1>7, <1>8, <1>9, NextKinds

(* What was approved without an operator is referred to by two sources, for *)
(* any outlinks of any articles, although the gate read an older count.     *)
THEOREM AutoApprovedWasReferred == Spec => []AutoApprovedIsReferred
<1>1. Referred => AutoApprovedIsReferred
  BY DEF Referred
<1> QED
  BY <1>1, ReferredInit, ReferredNext, CandidatesInvariant, PTL DEF Spec
=============================================================================
