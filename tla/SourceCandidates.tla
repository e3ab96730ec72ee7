-------------------------- MODULE SourceCandidates --------------------------
(***************************************************************************)
(* The life of a source candidate (src/src/ideas_hub/source_discovery.py,  *)
(* the /source-candidates handlers of api.py, the discovery tasks of       *)
(* worker.py): links found in crawled pages propose a domain, a Celery     *)
(* worker validates it, an operator or the quality gates make it a source. *)
(*                                                                         *)
(* A validation reads the row, commits "validating", talks to the network  *)
(* for minutes with no lock, and then writes what it decided.  The session *)
(* keeps the row as it was read (expire_on_commit=False), and an UPDATE    *)
(* carries only the columns whose value differs from that reading.         *)
(* Operators act on the same row meanwhile.                                *)
(*                                                                         *)
(* A candidate is named after its domain; a Source row after its domain    *)
(* key, the candidate's domain or the domain with the candidate's suffix.  *)
(***************************************************************************)
EXTENDS Naturals, FiniteSets

CONSTANTS
    Candidates,  \* registrable domains
    Feeds, NoFeed,
    Offers,      \* the feeds a probe of each domain may find valid
    Articles,
    Referrer,    \* the source each article belongs to
    Outlinks,    \* the domains each article links to
    Submissions, \* <<candidate, feed or NoFeed>> operators may submit
    Catalogue,   \* <<domain, feed>> operators may give a source, new or not
    Workers,     \* Celery workers running validations
    Operators,   \* requests to approve that may overlap
    NoTask, NoSource, NoCandidate,
    RetryLimit,  \* 3 in the code
    MaxQueued,   \* bound: validations of one candidate waiting in Redis
    MaxRetries,  \* bound: retry_count at which no validation is started
    MaxCrashes   \* bound: workers that die

Tasks == Workers \cup Operators
Keys == Candidates \X {"plain", "suffixed"}

ASSUME CandidatesAssumption ==
    /\ NoFeed \notin Feeds
    /\ Offers \in [Candidates -> SUBSET Feeds]
    /\ Outlinks \in [Articles -> SUBSET Candidates]
    /\ IsFiniteSet(Articles)
    /\ Submissions \subseteq Candidates \X (Feeds \cup {NoFeed})
    /\ Catalogue \subseteq Candidates \X Feeds
    /\ DOMAIN Referrer = Articles
    /\ Workers \cap Operators = {}
    /\ NoTask \notin Tasks
    /\ NoSource \notin Keys
    /\ NoCandidate \notin Candidates
    /\ RetryLimit \in Nat
    /\ MaxQueued \in Nat /\ MaxRetries \in Nat /\ MaxCrashes \in Nat

VARIABLES
    evidence,    \* SourceCandidateEvidence rows <<candidate, article>>
    status,      \* SourceCandidate.status, "none" = no row
    feed,        \* SourceCandidate.feed_url
    retries,     \* SourceCandidate.retry_count
    source,      \* SourceCandidate.source_id
    sourceFeed,  \* Source.feed_url by domain key, NoFeed = no row
    queued,      \* validation tasks in the broker
    pc,
    candidate,   \* the candidate each task works on
    loaded,      \* the row as the task's session read it
    draft,       \* the columns it is going to write
    key,         \* the domain of the Source it is going to insert
    rowLock,     \* the open transaction that has written the candidate
    keyLock,     \* the open transaction that has inserted the source
    validated,   \* history: <<candidate, feed>> a probe found valid
    crashes

rowVars == <<status, feed, retries, source>>
lockVars == <<rowLock, keyLock>>
taskVars == <<pc, candidate, loaded, draft, key>>
vars == <<rowVars, evidence, lockVars, taskVars, sourceFeed, queued, validated,
          crashes>>

Live == {"auto_approved", "approved"}
Statuses == {"none", "discovered", "validating", "pending", "rejected", "failed"} \cup Live

Referrers(c) == {Referrer[a] : a \in {b \in Articles : <<c, b>> \in evidence}}

(* A domain is active when a source has it, with or without a path. *)
Active(c) == \E k \in Keys : k[1] = c /\ sourceFeed[k] # NoFeed

NoRow == [feed |-> NoFeed, source |-> NoSource, retries |-> 0, referrers |-> 0]
NoDraft == [status |-> "none", feed |-> NoFeed, source |-> NoSource]

Init ==
    /\ evidence = {}
    /\ status = [c \in Candidates |-> "none"]
    /\ feed = [c \in Candidates |-> NoFeed]
    /\ retries = [c \in Candidates |-> 0]
    /\ source = [c \in Candidates |-> NoSource]
    /\ sourceFeed = [k \in Keys |-> NoFeed]
    /\ queued = [c \in Candidates |-> 0]
    /\ pc = [t \in Tasks |-> "idle"]
    /\ candidate = [t \in Tasks |-> NoCandidate]
    /\ loaded = [t \in Tasks |-> NoRow]
    /\ draft = [t \in Tasks |-> NoDraft]
    /\ key = [t \in Tasks |-> NoSource]
    /\ rowLock = [c \in Candidates |-> NoTask]
    /\ keyLock = [k \in Keys |-> NoTask]
    /\ validated = {}
    /\ crashes = 0

-----------------------------------------------------------------------------
(* Proposing candidates.                                                    *)

(* record_outbound_candidates, as its transaction commits: an upsert per    *)
(* domain that no source has; a row that exists keeps its status.           *)
RecordCandidates(a) ==
    LET proposed == {c \in Outlinks[a] : ~Active(c)} IN
    /\ \A c \in proposed : rowLock[c] = NoTask
    /\ evidence' = evidence \cup (proposed \X {a})
    /\ status' = [c \in Candidates |->
          IF c \in proposed /\ status[c] = "none" THEN "discovered" ELSE status[c]]
    /\ UNCHANGED <<feed, retries, source, lockVars, taskVars,
                   sourceFeed, queued, validated, crashes>>

(* uq_source_candidate_feed_url: an INSERT or UPDATE fails on a committed row *)
(* and waits for a transaction that has flushed the same feed.              *)
InUse(f, c) == \E d \in Candidates \ {c} : feed[d] = f
Writes(t, f) == draft[t].feed = f /\ loaded[t].feed # f
Flushed(f, c) == \E d \in Candidates \ {c} : rowLock[d] # NoTask /\ Writes(rowLock[d], f)

(* POST /source-candidates, with a feed nobody has validated or with none.  *)
CreateCandidate(c) ==
    /\ status[c] = "none" /\ ~Active(c)
    /\ \E f \in Feeds \cup {NoFeed} :
          /\ <<c, f>> \in Submissions
          /\ f # NoFeed => ~InUse(f, c) /\ ~Flushed(f, c)
          /\ feed' = [feed EXCEPT ![c] = f]
    /\ status' = [status EXCEPT ![c] = "discovered"]
    /\ UNCHANGED <<retries, source, evidence, lockVars, taskVars,
                   sourceFeed, queued, validated, crashes>>

(* POST /sources                                                            *)
CreateSource(c) ==
    /\ sourceFeed[<<c, "plain">>] = NoFeed /\ keyLock[<<c, "plain">>] = NoTask
    /\ \E f \in Feeds :
          /\ <<c, f>> \in Catalogue
          /\ sourceFeed' = [sourceFeed EXCEPT ![<<c, "plain">>] = f]
    /\ UNCHANGED <<rowVars, evidence, lockVars, taskVars, queued, validated, crashes>>

(* PATCH /sources: the feed of a source is edited; several may have the same. *)
UpdateSource(k) ==
    /\ sourceFeed[k] # NoFeed
    /\ \E f \in Feeds \ {sourceFeed[k]} :
          /\ <<k[1], f>> \in Catalogue
          /\ sourceFeed' = [sourceFeed EXCEPT ![k] = f]
    /\ UNCHANGED <<rowVars, evidence, lockVars, taskVars, queued, validated, crashes>>

-----------------------------------------------------------------------------
(* Queueing validations.                                                    *)

Eligible == {c \in Candidates : status[c] \in {"discovered", "failed"} /\ retries[c] < RetryLimit}

Enqueue(S) ==
    /\ \A c \in S : queued[c] < MaxQueued
    /\ queued' = [c \in Candidates |-> IF c \in S THEN queued[c] + 1 ELSE queued[c]]

(* discover_source_candidates_task                                          *)
DiscoveryCycle ==
    /\ Eligible # {}
    /\ Enqueue(Eligible)
    /\ UNCHANGED <<rowVars, evidence, lockVars, taskVars, sourceFeed, validated, crashes>>

(* POST /source-candidates/{id}/validate                                    *)
Rescan(c) ==
    /\ status[c] # "none" /\ rowLock[c] = NoTask
    /\ IF status[c] = "rejected"
       THEN /\ status' = [status EXCEPT ![c] = "discovered"]
            /\ retries' = [retries EXCEPT ![c] = 0]
       ELSE UNCHANGED <<status, retries>>
    /\ Enqueue({c})
    /\ UNCHANGED <<feed, source, evidence, lockVars, taskVars,
                   sourceFeed, validated, crashes>>

(* POST /source-candidates/{id}/reject                                      *)
Reject(c) ==
    /\ status[c] # "none" /\ rowLock[c] = NoTask
    /\ status' = [status EXCEPT ![c] = "rejected"]
    /\ UNCHANGED <<feed, retries, source, evidence, lockVars, taskVars,
                   sourceFeed, queued, validated, crashes>>

-----------------------------------------------------------------------------
(* validate_candidate                                                       *)

Deliver(c) ==
    /\ queued[c] > 0
    /\ queued' = [queued EXCEPT ![c] = @ - 1]

Goto(t, label) == pc' = [pc EXCEPT ![t] = label]

RefuseRejected(w, c) ==
    /\ pc[w] = "idle" /\ status[c] = "rejected"
    /\ Deliver(c)
    /\ UNCHANGED <<rowVars, evidence, lockVars, taskVars, sourceFeed, validated, crashes>>

(* Nothing is written, and no lock is awaited, when the row is "validating". *)
BeginValidation(w, c) ==
    /\ pc[w] = "idle" /\ status[c] \notin {"none", "rejected"}
    /\ rowLock[c] = NoTask \/ status[c] = "validating"
    /\ retries[c] < MaxRetries
    /\ Deliver(c)
    /\ status' = [status EXCEPT ![c] = "validating"]
    /\ candidate' = [candidate EXCEPT ![w] = c]
    /\ loaded' = [loaded EXCEPT ![w] =
          [feed |-> feed[c], source |-> source[c], retries |-> retries[c],
           referrers |-> Cardinality(Referrers(c))]]
    /\ Goto(w, "probe")
    /\ UNCHANGED <<feed, retries, source, evidence, lockVars, draft, key,
                   sourceFeed, validated, crashes>>

(* An UPDATE: a column is written when it differs from what the session read. *)
Column(read, row, new) == IF new = read THEN row ELSE new

EndTask(t) ==
    /\ Goto(t, "idle")
    /\ loaded' = [loaded EXCEPT ![t] = NoRow]
    /\ draft' = [draft EXCEPT ![t] = NoDraft]
    /\ key' = [key EXCEPT ![t] = NoSource]
    /\ candidate' = [candidate EXCEPT ![t] = NoCandidate]

(* UnsafeUrlError: the homepage, or a redirect, leads to a forbidden place. *)
ProbeUnsafe(w) ==
    LET c == candidate[w] IN
    /\ pc[w] = "probe" /\ rowLock[c] = NoTask
    /\ status' = [status EXCEPT ![c] = "rejected"]
    /\ EndTask(w)
    /\ UNCHANGED <<feed, retries, source, evidence, lockVars,
                   sourceFeed, queued, validated, crashes>>

(* No feed, or the network fails: counted from the value read at the start. *)
ProbeFails(w) ==
    LET c == candidate[w]
        n == loaded[w].retries + 1
    IN
    /\ pc[w] = "probe" /\ rowLock[c] = NoTask
    /\ retries' = [retries EXCEPT ![c] = n]
    /\ status' = [status EXCEPT ![c] = IF n < RetryLimit THEN "failed" ELSE "rejected"]
    /\ EndTask(w)
    /\ UNCHANGED <<feed, source, evidence, lockVars,
                   sourceFeed, queued, validated, crashes>>

Found(w) == Offers[candidate[w]] \cup ({loaded[w].feed} \ {NoFeed})

FeedNeverTaken(w, f) == FALSE
FeedTaken(w, f) == f # loaded[w].feed /\ InUse(f, candidate[w])
FeedAwaited(w, f) == f # loaded[w].feed /\ Flushed(f, candidate[w])

(* The score is below the gates: the candidate waits for an operator, or is *)
(* rejected below 60.                                                       *)
SaveScore(w) ==
    LET c == candidate[w] IN
    /\ pc[w] = "probe" /\ rowLock[c] = NoTask
    /\ \E f \in Found(w) :
          /\ ~FeedTaken(w, f) /\ ~FeedAwaited(w, f)
          /\ feed' = [feed EXCEPT ![c] = Column(loaded[w].feed, @, f)]
          /\ validated' = validated \cup {<<c, f>>}
    /\ \E s \in {"pending", "rejected"} : status' = [status EXCEPT ![c] = s]
    /\ EndTask(w)
    /\ UNCHANGED <<retries, source, evidence, lockVars,
                   sourceFeed, queued, crashes>>

(* The flush fails on the feed of another candidate.  The handler touches   *)
(* the expired row, which raises again: nothing is saved, not even "failed".*)
SaveFails(w) ==
    /\ pc[w] = "probe" /\ rowLock[candidate[w]] = NoTask
    /\ \E f \in Found(w) : FeedTaken(w, f) /\ validated' = validated \cup {<<candidate[w], f>>}
    /\ EndTask(w)
    /\ UNCHANGED <<rowVars, evidence, lockVars, sourceFeed, queued, crashes>>

PassesGatesOnce(w) == loaded[w].referrers >= 1
PassesGates(w) == loaded[w].referrers >= 2

(* promote_candidate: a source that has the feed already is taken as it is. *)
Existing(f) == {k \in Keys : sourceFeed[k] = f}
Drafts(t, s, f, k) == draft' = [draft EXCEPT ![t] = [status |-> s, feed |-> f, source |-> k]]
PromoteUnlinked(t, s, f) ==
    /\ Drafts(t, s, f, NoSource)
    /\ Goto(t, IF Existing(f) = {} THEN "choose" ELSE "commit")
PromoteFeed(t, s, f) ==
    /\ Drafts(t, s, f, f)
    /\ Goto(t, IF Existing(f) = {} THEN "choose" ELSE "commit")
Promote(t, s, f) ==
    \/ /\ Existing(f) = {}
       /\ Drafts(t, s, f, NoSource)
       /\ Goto(t, "choose")
    \/ \E k \in Existing(f) :
          /\ Drafts(t, "approved", f, k)
          /\ Goto(t, "commit")

(* The query in promote_candidate flushes the candidate and so locks it.    *)
AutoApprove(w) ==
    LET c == candidate[w] IN
    /\ pc[w] = "probe" /\ rowLock[c] = NoTask
    /\ PassesGates(w)
    /\ \E f \in Found(w) :
          /\ ~FeedTaken(w, f) /\ ~FeedAwaited(w, f)
          /\ Promote(w, "auto_approved", f)
          /\ validated' = validated \cup {<<c, f>>}
    /\ rowLock' = [rowLock EXCEPT ![c] = w]
    /\ UNCHANGED <<rowVars, evidence, keyLock, candidate, loaded, key,
                   sourceFeed, queued, crashes>>

ApprovableWithFeed(c) == feed[c] # NoFeed /\ source[c] = NoSource
Approvable(c) == status[c] = "pending" /\ feed[c] # NoFeed /\ source[c] = NoSource

(* POST /source-candidates/{id}/approve; a candidate that has a source is   *)
(* answered with it.                                                        *)
BeginApproval(o, c) ==
    /\ pc[o] = "idle"
    /\ Approvable(c)
    /\ candidate' = [candidate EXCEPT ![o] = c]
    /\ loaded' = [loaded EXCEPT ![o] =
          [feed |-> feed[c], source |-> NoSource, retries |-> 0, referrers |-> 0]]
    /\ Promote(o, "approved", feed[c])
    /\ UNCHANGED <<rowVars, evidence, lockVars, key, sourceFeed, queued, validated, crashes>>

ChooseKey(t) ==
    LET plain == <<candidate[t], "plain">> IN
    /\ pc[t] = "choose"
    /\ key' = [key EXCEPT ![t] =
          IF sourceFeed[plain] = NoFeed THEN plain ELSE <<candidate[t], "suffixed">>]
    /\ Goto(t, "insert")
    /\ UNCHANGED <<rowVars, evidence, lockVars, candidate, loaded, draft,
                   sourceFeed, queued, validated, crashes>>

InsertSource(t) ==
    /\ pc[t] = "insert"
    /\ keyLock[key[t]] = NoTask /\ sourceFeed[key[t]] = NoFeed
    /\ keyLock' = [keyLock EXCEPT ![key[t]] = t]
    /\ Drafts(t, draft[t].status, draft[t].feed, key[t])
    /\ Goto(t, "commit")
    /\ UNCHANGED <<rowVars, evidence, rowLock, candidate, loaded, key,
                   sourceFeed, queued, validated, crashes>>

ReleaseLocks(t) ==
    /\ rowLock' = [c \in Candidates |-> IF rowLock[c] = t THEN NoTask ELSE rowLock[c]]
    /\ keyLock' = [k \in Keys |-> IF keyLock[k] = t THEN NoTask ELSE keyLock[k]]

(* candidate.source_id is unique.                                           *)
SourceTaken(t) == \E d \in Candidates \ {candidate[t]} : source[d] = draft[t].source

Commit(t) ==
    LET c == candidate[t] IN
    /\ pc[t] = "commit"
    /\ rowLock[c] \in {t, NoTask}
    /\ ~SourceTaken(t)
    /\ status' = [status EXCEPT ![c] = draft[t].status]
    /\ feed' = [feed EXCEPT ![c] = Column(loaded[t].feed, @, draft[t].feed)]
    /\ source' = [source EXCEPT ![c] = Column(loaded[t].source, @, draft[t].source)]
    /\ sourceFeed' = [k \in Keys |-> IF keyLock[k] = t THEN draft[t].feed ELSE sourceFeed[k]]
    /\ ReleaseLocks(t)
    /\ EndTask(t)
    /\ UNCHANGED <<retries, evidence, queued, validated, crashes>>

(* The transaction fails: the API answers 500, the worker's task dies in    *)
(* its own exception handler.  The row keeps what was committed before.     *)
Abort(t) ==
    /\ ReleaseLocks(t)
    /\ EndTask(t)
    /\ UNCHANGED <<rowVars, evidence, sourceFeed, queued, validated>>

Conflicts(t) ==
    \/ pc[t] = "insert" /\ sourceFeed[key[t]] # NoFeed
    \/ pc[t] = "commit" /\ rowLock[candidate[t]] \in {t, NoTask} /\ SourceTaken(t)

(* A task that waits for the key waits for one that waits for the row.      *)
Deadlock(t) ==
    \E o \in Tasks \ {t} :
        \/ /\ pc[t] = "insert" /\ keyLock[key[t]] = o
           /\ pc[o] = "commit" /\ rowLock[candidate[o]] = t
        \/ /\ pc[o] = "insert" /\ keyLock[key[o]] = t
           /\ pc[t] = "commit" /\ rowLock[candidate[t]] = o

AbortTransaction(t) ==
    /\ Conflicts(t) \/ Deadlock(t)
    /\ Abort(t)
    /\ UNCHANGED crashes

Crash(w) ==
    /\ pc[w] # "idle"
    /\ crashes < MaxCrashes
    /\ crashes' = crashes + 1
    /\ Abort(w)

-----------------------------------------------------------------------------
Validation(w) ==
    \/ \E c \in Candidates : RefuseRejected(w, c) \/ BeginValidation(w, c)
    \/ ProbeUnsafe(w) \/ ProbeFails(w) \/ SaveScore(w) \/ SaveFails(w) \/ AutoApprove(w)

Promotion(t) == ChooseKey(t) \/ InsertSource(t) \/ Commit(t) \/ AbortTransaction(t)

Next ==
    \/ \E a \in Articles : RecordCandidates(a)
    \/ \E c \in Candidates : \/ CreateCandidate(c) \/ CreateSource(c)
                             \/ Rescan(c) \/ Reject(c)
    \/ \E k \in Keys : UpdateSource(k)
    \/ DiscoveryCycle
    \/ \E w \in Workers : Validation(w) \/ Crash(w)
    \/ \E o \in Operators, c \in Candidates : BeginApproval(o, c)
    \/ \E t \in Tasks : Promotion(t)

Spec == Init /\ [][Next]_vars

-----------------------------------------------------------------------------
(* Properties.                                                              *)

Rows == [feed : Feeds \cup {NoFeed}, source : Keys \cup {NoSource},
         retries : Nat, referrers : Nat]
DraftRows == [status : Statuses, feed : Feeds \cup {NoFeed}, source : Keys \cup {NoSource}]

(* Rows, locks and session copies have the values their columns allow.      *)
TypeOK ==
    /\ evidence \subseteq Candidates \X Articles
    /\ status \in [Candidates -> Statuses]
    /\ feed \in [Candidates -> Feeds \cup {NoFeed}]
    /\ retries \in [Candidates -> Nat]
    /\ source \in [Candidates -> Keys \cup {NoSource}]
    /\ sourceFeed \in [Keys -> Feeds \cup {NoFeed}]
    /\ queued \in [Candidates -> 0 .. MaxQueued]
    /\ pc \in [Tasks -> {"idle", "probe", "choose", "insert", "commit"}]
    /\ loaded \in [Tasks -> Rows] /\ draft \in [Tasks -> DraftRows]
    /\ rowLock \in [Candidates -> Tasks \cup {NoTask}]
    /\ keyLock \in [Keys -> Tasks \cup {NoTask}]

(* An auto-approved candidate is referred to by two sources, although the   *)
(* gate was passed on a count read before minutes of probing.               *)
AutoApprovedIsReferred ==
    \A c \in Candidates : status[c] = "auto_approved" => Cardinality(Referrers(c)) >= 2

(* What an operator may approve, and what went live, has a feed that a probe *)
(* of this very candidate found valid: neither the one typed in by hand nor *)
(* one read before a concurrent validation replaced it slips through.       *)
LiveFeedsWereValidated ==
    \A c \in Candidates :
        status[c] \in Live \cup {"pending"} => <<c, feed[c]>> \in validated

(* A live candidate's source exists: approval and promotion are committed   *)
(* together whatever conflicts, deadlocks or crashes hit the two writers.   *)
LiveHasSource ==
    \A c \in Candidates :
        status[c] \in Live => source[c] # NoSource /\ sourceFeed[source[c]] # NoFeed

(* Two candidates never share a source or a feed.                           *)
NothingShared ==
    \A c, d \in Candidates :
        c # d => /\ source[c] = source[d] => source[c] = NoSource
                 /\ feed[c] = feed[d] => feed[c] = NoFeed

(* "Rejected sources are not automatically proposed again": only a rescan,  *)
(* an operator's action, takes a candidate out of "rejected".               *)
RejectionSticks ==
    [][\A c \in Candidates :
          status[c] = "rejected" /\ status'[c] # "rejected"
              => status'[c] = "discovered" /\ retries'[c] = 0]_vars

(* "Transient failures retry": a candidate is "validating" only while some  *)
(* task is going to decide about it.                                        *)
NoValidationStranded ==
    \A c \in Candidates : status[c] = "validating" =>
        queued[c] > 0 \/ \E w \in Workers : pc[w] # "idle" /\ candidate[w] = c
=============================================================================
