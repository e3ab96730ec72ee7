------------------------------ MODULE Pipeline ------------------------------
(***************************************************************************)
(* The evidence pipeline of src/src/ideas_hub/pipeline.py: concurrent      *)
(* executions of crawl_source (Celery tasks and the synchronous API crawl) *)
(* and of backfill_opportunities, over PostgreSQL at its default isolation *)
(* level, READ COMMITTED.                                                  *)
(*                                                                         *)
(* A crawl is ONE transaction: each article is ingested in a savepoint,    *)
(* but nothing is visible to another task before the single commit at the  *)
(* end.  Every table therefore has its committed rows and, per task, the   *)
(* rows that task has written and not yet committed; a statement sees the  *)
(* committed rows and its own.  An UPDATE of a row another open            *)
(* transaction has written waits for that transaction, and so does an      *)
(* INSERT of a unique key it has inserted.                                 *)
(*                                                                         *)
(* A row is named after the page that founded it: an Article by its        *)
(* canonical URL, an Event by the article whose vector is its centroid, a  *)
(* Signal by its event.                                                    *)
(***************************************************************************)
EXTENDS Scoring, FiniteSets

CONSTANTS
    Crawls,      \* executions of crawl_source that may overlap
    Backfills,   \* executions of backfill_opportunities that may overlap
    NoTask,      \* a row nobody has locked
    Sources, NoSource,
    Urls,
    SourceOf,    \* the source each crawl works on
    Feed,        \* the URLs in each source's current feed window
    Rank,        \* the order in which a source's adapter lists them
    Limit,       \* the crawl's limit, used while a source has no article
    Canon,       \* the URL a fetch ends at, after redirects
    Hash,        \* content_hash of the page at a canonical URL
    Similar,     \* <<page, centroid page>>: similarity reaches the threshold
    RecentLimit, \* how many events an article is compared with, newest first
    MaxCrashes   \* bound: rollbacks of whole transactions, worker crashes

Tasks == Crawls \cup Backfills

ASSUME TasksAssumption ==
    /\ Crawls \cap Backfills = {}
    /\ NoTask \notin Tasks
    /\ NoSource \notin Sources
    /\ IsFiniteSet(Sources)
    /\ SourceOf \in [Crawls -> Sources]

ASSUME PagesAssumption ==
    /\ Urls # {} /\ IsFiniteSet(Urls)
    /\ Feed \in [Sources -> SUBSET Urls]
    /\ Rank \in [Sources -> [Urls -> Nat]]
    /\ Canon \in [Urls -> Urls]
    /\ DOMAIN Hash = Urls
    /\ Similar \subseteq Urls \X Urls
    /\ RecentLimit \in Nat \ {0}
    /\ Limit \in Nat
    /\ MaxCrashes \in Nat

VARIABLES
    articleSource,    \* Article: source_id of the row, NoSource if no row
    newArticles,      \* Article rows inserted and not committed, per task
    snapshots,        \* MinIO: <<source, content hash>> keys stored
    links,            \* EventArticle rows <<article, event>>
    newLinks,
    eventRow,         \* Event: article_count, source_count and last_seen_at
    eventDraft,       \* what the holder of the row's lock has written
    eventLock,        \* the open transaction that has written the row
    signalRow,        \* Signal: the counts it was computed from, eligibility
    signalDraft,
    signalLock,
    opportunities,    \* number of committed Opportunity rows of each signal
    newOpportunities, \* signals each task has an uncommitted Opportunity for
    pc,
    todo,             \* candidate_urls left, or eligible_ids left
    page,             \* the page being ingested
    event,            \* the event (or its signal) being worked on
    count,            \* article_count as the session read it
    touched,          \* event_ids whose signal is still to be refreshed
    crashes,
    clock             \* orders the instants at which an event was last seen

articleVars == <<articleSource, newArticles, snapshots>>
eventVars == <<links, newLinks, eventRow, eventDraft, eventLock>>
signalVars == <<signalRow, signalDraft, signalLock>>
opportunityVars == <<opportunities, newOpportunities>>
ingestVars == <<page, count>>
vars == <<articleVars, eventVars, signalVars, opportunityVars, pc, todo,
          ingestVars, event, touched, crashes, clock>>

NoEvent == [articles |-> 0, sources |-> 0, lastSeen |-> 0]
NoSignal == [articles |-> 0, sources |-> 0, strong |-> FALSE]
EventRows == [articles : Nat, sources : Nat, lastSeen : Nat]
SignalRows == [articles : Nat, sources : Nat, strong : BOOLEAN]

Stored == {a \in Urls : articleSource[a] # NoSource}

(* What a statement of task t sees: committed rows and its own. *)
SeenArticles(t) == Stored \cup newArticles[t]
SeenEvents(t) == {e \in Urls : eventRow[e].articles > 0 \/ eventLock[e] = t}
SeenEventCommitted(t, e) == eventRow[e]
SeenEvent(t, e) == IF eventLock[e] = t THEN eventDraft[e] ELSE eventRow[e]

(* Article.source_id as task t sees it. *)
SourceSeen(t, a) == IF a \in newArticles[t] THEN SourceOf[t] ELSE articleSource[a]

-----------------------------------------------------------------------------
(* Locks and deadlocks. *)

AwaitsArticle(t, o) == pc[t] = "insert" /\ page[t] \in newArticles[o]
AwaitsEvent(t, o) == pc[t] = "attach" /\ eventLock[event[t]] = o
AwaitsSignal(t, o) == pc[t] \in {"refresh", "lock"} /\ signalLock[event[t]] = o

(* Mutants: counts written at the end of the crawl, without the row lock; a *)
(* plain SELECT where the code has FOR UPDATE.                              *)
WaitsForNoEvent(t, o) == o # t /\ (AwaitsArticle(t, o) \/ AwaitsSignal(t, o))
WaitsForUpdateOnly(t, o) ==
    o # t /\ pc[t] # "lock"
          /\ (AwaitsArticle(t, o) \/ AwaitsEvent(t, o) \/ AwaitsSignal(t, o))

(* Task t's next statement waits for a row written by the open transaction o. *)
WaitsFor(t, o) ==
    o # t /\ (AwaitsArticle(t, o) \/ AwaitsEvent(t, o) \/ AwaitsSignal(t, o))

Blocked(t) == \E o \in Tasks : WaitsFor(t, o)

(* Task t is on a cycle of waiting transactions: PostgreSQL's detector      *)
(* fails the waiting statement of one of them.                              *)
Deadlocked(t) ==
    \E S \in SUBSET Tasks :
        /\ t \in S
        /\ \A x \in S : \E y \in S : WaitsFor(x, y)
        /\ \A y \in S : \E x \in S : WaitsFor(x, y)

-----------------------------------------------------------------------------
AnyUrl == CHOOSE u \in Urls : TRUE

Init ==
    /\ articleSource = [a \in Urls |-> NoSource]
    /\ newArticles = [t \in Tasks |-> {}]
    /\ snapshots = {}
    /\ links = {}
    /\ newLinks = [t \in Tasks |-> {}]
    /\ eventRow = [e \in Urls |-> NoEvent]
    /\ eventDraft = [e \in Urls |-> NoEvent]
    /\ eventLock = [e \in Urls |-> NoTask]
    /\ signalRow = [e \in Urls |-> NoSignal]
    /\ signalDraft = [e \in Urls |-> NoSignal]
    /\ signalLock = [e \in Urls |-> NoTask]
    /\ opportunities = [e \in Urls |-> 0]
    /\ newOpportunities = [t \in Tasks |-> {}]
    /\ pc = [t \in Tasks |-> "idle"]
    /\ todo = [t \in Tasks |-> {}]
    /\ page = [t \in Tasks |-> AnyUrl]
    /\ event = [t \in Tasks |-> AnyUrl]
    /\ count = [t \in Tasks |-> 0]
    /\ touched = [t \in Tasks |-> {}]
    /\ crashes = 0
    /\ clock = 0

Goto(t, label) == pc' = [pc EXCEPT ![t] = label]

-----------------------------------------------------------------------------
(* crawl_source: the feed window, then one article after another.           *)

HeadOfFeed(s) == {u \in Feed[s] :
               Cardinality({v \in Feed[s] : Rank[s][v] < Rank[s][u]}) < Limit}

(* An adapter lists its whole window, or its first entries for a source     *)
(* that has no article yet.                                                 *)
WindowHeadOnly(s) == HeadOfFeed(s)
Window(s) ==
    IF \E a \in Urls : articleSource[a] = s THEN Feed[s] ELSE HeadOfFeed(s)

StartCrawl(t) ==
    /\ pc[t] = "idle"
    /\ todo' = [todo EXCEPT ![t] = Window(SourceOf[t]) \ Stored]
    /\ Goto(t, "ingest")
    /\ UNCHANGED <<articleVars, eventVars, signalVars, opportunityVars,
                   ingestVars, event, touched, crashes, clock>>

Current(t) ==
    LET rank == Rank[SourceOf[t]]
    IN  CHOOSE u \in todo[t] : \A v \in todo[t] : rank[u] <= rank[v]

(* The rows the two dedupe queries of ingest_url look for.                  *)
IsKnownByUrl(t, u) == u \in SeenArticles(t) \/ Canon[u] \in SeenArticles(t)
IsKnown(t, u) ==
    \/ u \in SeenArticles(t)
    \/ \E a \in SeenArticles(t) : a = Canon[u] \/ Hash[a] = Hash[Canon[u]]

(* The URL at hand is done with: ingested, a duplicate, or a failure that   *)
(* the savepoint isolates.                                                  *)
NextUrl(t) ==
    /\ todo' = [todo EXCEPT ![t] = @ \ {Current(t)}]
    /\ Goto(t, "ingest")

SkipKnown(t) ==
    /\ pc[t] = "ingest" /\ todo[t] # {}
    /\ IsKnown(t, Current(t))
    /\ NextUrl(t)
    /\ UNCHANGED <<articleVars, eventVars, signalVars, opportunityVars,
                   ingestVars, event, touched, crashes, clock>>

FetchArticle(t) ==
    /\ pc[t] = "ingest" /\ todo[t] # {}
    /\ ~IsKnown(t, Current(t))
    /\ page' = [page EXCEPT ![t] = Canon[Current(t)]]
    /\ Goto(t, "store")
    /\ UNCHANGED <<articleVars, eventVars, signalVars, opportunityVars,
                   todo, count, event, touched, crashes, clock>>

FetchFails(t) ==
    /\ pc[t] = "ingest" /\ todo[t] # {}
    /\ Current(t) \notin SeenArticles(t)
    /\ NextUrl(t)
    /\ UNCHANGED <<articleVars, eventVars, signalVars, opportunityVars,
                   ingestVars, event, touched, crashes, clock>>

SnapshotKey(t) == <<SourceOf[t], Hash[page[t]]>>
MayPutText(t) == snapshots' \in {snapshots, snapshots \cup {SnapshotKey(t)}}
PutText(t) == snapshots' = snapshots \cup {SnapshotKey(t)}

(* The raw HTML goes to MinIO, outside the transaction, then the article is *)
(* embedded; either may raise.                                              *)
StoreSnapshot(t) ==
    /\ pc[t] = "store"
    /\ PutText(t)
    /\ Goto(t, "insert")
    /\ UNCHANGED <<articleSource, newArticles, eventVars, signalVars,
                   opportunityVars, todo, ingestVars, event, touched, crashes, clock>>

StoreFails(t) ==
    /\ pc[t] = "store"
    /\ MayPutText(t)
    /\ NextUrl(t)
    /\ UNCHANGED <<articleSource, newArticles, eventVars, signalVars,
                   opportunityVars, ingestVars, event, touched, crashes, clock>>

InsertArticle(t) ==
    /\ pc[t] = "insert"
    /\ ~Blocked(t)
    /\ page[t] \notin Stored
    /\ newArticles' = [newArticles EXCEPT ![t] = @ \cup {page[t]}]
    /\ Goto(t, "match")
    /\ UNCHANGED <<articleSource, snapshots, eventVars, signalVars,
                   opportunityVars, todo, ingestVars, event, touched, crashes, clock>>

(* uq_article_url: the row was committed after the dedupe query.            *)
InsertConflicts(t) ==
    /\ pc[t] = "insert"
    /\ ~Blocked(t)
    /\ page[t] \in Stored
    /\ NextUrl(t)
    /\ UNCHANGED <<articleVars, eventVars, signalVars, opportunityVars,
                   ingestVars, event, touched, crashes, clock>>

-----------------------------------------------------------------------------
(* attach_event                                                             *)

(* ORDER BY last_seen_at DESC LIMIT RecentLimit.                            *)
Newest(events, seen) ==
    {e \in events : Cardinality({f \in events : seen[f] > seen[e]}) < RecentLimit}
CandidatesOldest(t) ==
    {e \in SeenEvents(t) :
        Cardinality({f \in SeenEvents(t) :
                        SeenEvent(t, f).lastSeen < SeenEvent(t, e).lastSeen}) < RecentLimit}
Candidates(t) == Newest(SeenEvents(t), [e \in Urls |-> SeenEvent(t, e).lastSeen])

Matches(t) == {e \in Candidates(t) : <<page[t], e>> \in Similar}

(* The session reads the newest events and finds the closest, or none close *)
(* enough; a new event's id is not known to anyone else.                    *)
MatchEvent(t) ==
    /\ pc[t] = "match"
    /\ \E e \in IF Matches(t) = {} THEN {page[t]} ELSE Matches(t) :
          /\ event' = [event EXCEPT ![t] = e]
          /\ count' = [count EXCEPT ![t] = IF Matches(t) = {} THEN 0
                                           ELSE SeenEvent(t, e).articles]
    /\ Goto(t, "attach")
    /\ UNCHANGED <<articleVars, eventVars, signalVars, opportunityVars,
                   todo, page, touched, crashes, clock>>

LinksUnflushed(t, e) == {l \in links \cup newLinks[t] : l[2] = e}
LinksSeen(t, e) == {l \in links \cup newLinks[t] \cup {<<page[t], e>>} : l[2] = e}

(* UPDATE events SET article_count = <the count read> + 1, under the row    *)
(* lock that statement takes; then the distinct sources are counted.        *)
(* last_seen_at is stamped here, not before the wait as in the code: the    *)
(* order of two events can differ for it only when crawls overlap.          *)
AttachEvent(t) ==
    /\ pc[t] = "attach"
    /\ ~Blocked(t)
    /\ LET e == event[t] IN
          /\ newLinks' = [newLinks EXCEPT ![t] = @ \cup {<<page[t], e>>}]
          /\ eventLock' = [eventLock EXCEPT ![e] = t]
          /\ eventDraft' = [eventDraft EXCEPT ![e] =
                [articles |-> count[t] + 1,
                 sources |-> Cardinality({SourceSeen(t, l[1]) : l \in LinksSeen(t, e)}),
                 lastSeen |-> clock + 1]]
          /\ touched' = [touched EXCEPT ![t] = @ \cup {e}]
    /\ clock' = clock + 1
    /\ NextUrl(t)
    /\ UNCHANGED <<articleVars, links, eventRow, signalVars, opportunityVars,
                   ingestVars, event, crashes>>

NoSavepoint(t) == UNCHANGED newArticles
RollbackSavepoint(t) == newArticles' = [newArticles EXCEPT ![t] = @ \ {page[t]}]

(* PostgreSQL breaks a cycle of waits: the victim's statement fails, its    *)
(* savepoint is rolled back and the crawl goes on.                          *)
DeadlockVictim(t) ==
    /\ pc[t] \in {"insert", "attach"}
    /\ Deadlocked(t)
    /\ RollbackSavepoint(t)
    /\ NextUrl(t)
    /\ UNCHANGED <<articleSource, snapshots, eventVars, signalVars,
                   opportunityVars, ingestVars, event, touched, crashes, clock>>

-----------------------------------------------------------------------------
(* refresh_signal and build_opportunity, for every event the crawl touched. *)

PickEvent(t) ==
    /\ pc[t] = "ingest" /\ todo[t] = {}
    /\ \E e \in touched[t] :
          /\ event' = [event EXCEPT ![t] = e]
          /\ touched' = [touched EXCEPT ![t] = @ \ {e}]
    /\ Goto(t, "refresh")
    /\ UNCHANGED <<articleVars, eventVars, signalVars, opportunityVars,
                   todo, ingestVars, crashes, clock>>

(* Whether the score reaches the threshold depends on the clock and on the  *)
(* sources' trust; for an event this transaction has created, at its age of *)
(* one day at most, the counts may already exclude it.                      *)
MayBeStrong(t, e) ==
    LET seen == SeenEvent(t, e)
        young == YoungScore(seen.articles, seen.sources, 1000)
    IN  IF eventRow[e] = NoEvent /\ ~IsSignalEligible(young) THEN {FALSE} ELSE BOOLEAN

RefreshedNoBreadth(t, e, strong) ==
    [articles |-> SeenEvent(t, e).articles, strong |-> strong]
RefreshedStale(t, e, strong) ==
    [articles |-> eventRow[e].articles, sources |-> eventRow[e].sources,
     strong |-> strong]
Refreshed(t, e, strong) ==
    [articles |-> SeenEvent(t, e).articles, sources |-> SeenEvent(t, e).sources,
     strong |-> strong]

RefreshSignal(t) ==
    /\ pc[t] = "refresh"
    /\ ~Blocked(t)
    /\ \E strong \in MayBeStrong(t, event[t]) :
          /\ signalDraft' = [signalDraft EXCEPT ![event[t]] = Refreshed(t, event[t], strong)]
          /\ Goto(t, IF strong THEN "lock" ELSE "ingest")
    /\ signalLock' = [signalLock EXCEPT ![event[t]] = t]
    /\ UNCHANGED <<articleVars, eventVars, signalRow, opportunityVars,
                   todo, ingestVars, event, touched, crashes, clock>>

(* The flush sends no UPDATE, and takes no lock, when every feature and the *)
(* score are what the row already holds.                                    *)
RefreshUnchanged(t) ==
    /\ pc[t] = "refresh"
    /\ signalRow[event[t]] = Refreshed(t, event[t], signalRow[event[t]].strong)
    /\ Goto(t, IF signalRow[event[t]].strong THEN "lock" ELSE "ingest")
    /\ UNCHANGED <<articleVars, eventVars, signalVars, opportunityVars,
                   todo, ingestVars, event, touched, crashes, clock>>

HasOwnOpportunity(t, e) == e \in newOpportunities[t]
HasOpportunity(t, e) == opportunities[e] > 0 \/ e \in newOpportunities[t]

(* SELECT ... FOR UPDATE.  The ORM keeps the score the session has loaded   *)
(* and does not look at the locked row's; the opportunity query does run.   *)
LockSignal(t) ==
    /\ pc[t] = "lock"
    /\ ~Blocked(t)
    /\ signalLock' = [signalLock EXCEPT ![event[t]] = t]
    /\ signalDraft' = [signalDraft EXCEPT ![event[t]] =
          IF signalLock[event[t]] = t THEN @ ELSE signalRow[event[t]]]
    /\ Goto(t, IF ~HasOpportunity(t, event[t]) THEN "generate"
               ELSE IF t \in Crawls THEN "ingest" ELSE "commit")
    /\ UNCHANGED <<articleVars, eventVars, signalRow, opportunityVars,
                   todo, ingestVars, event, touched, crashes, clock>>

(* Generator, skeptic and judge answer, and the opportunity is inserted.    *)
Generate(t) ==
    /\ pc[t] = "generate"
    /\ newOpportunities' = [newOpportunities EXCEPT ![t] = @ \cup {event[t]}]
    /\ Goto(t, IF t \in Crawls THEN "ingest" ELSE "commit")
    /\ UNCHANGED <<articleVars, eventVars, signalVars, opportunities,
                   todo, ingestVars, event, touched, crashes, clock>>

(* One of the three model calls fails: a crawl goes on without it.          *)
GenerateFails(t) ==
    /\ t \in Crawls
    /\ pc[t] = "generate"
    /\ Goto(t, "ingest")
    /\ UNCHANGED <<articleVars, eventVars, signalVars, opportunityVars,
                   todo, ingestVars, event, touched, crashes, clock>>

-----------------------------------------------------------------------------
(* The end of a transaction.                                                *)

Release(lock, t) == [e \in Urls |-> IF lock[e] = t THEN NoTask ELSE lock[e]]
Clear(lock, draft, t, none) == [e \in Urls |-> IF lock[e] = t THEN none ELSE draft[e]]
Apply(lock, draft, row, t) == [e \in Urls |-> IF lock[e] = t THEN draft[e] ELSE row[e]]

(* Nothing of task t is left uncommitted, and it holds no lock.             *)
EndTransaction(t) ==
    /\ newArticles' = [newArticles EXCEPT ![t] = {}]
    /\ newLinks' = [newLinks EXCEPT ![t] = {}]
    /\ newOpportunities' = [newOpportunities EXCEPT ![t] = {}]
    /\ eventLock' = Release(eventLock, t)
    /\ eventDraft' = Clear(eventLock, eventDraft, t, NoEvent)
    /\ signalLock' = Release(signalLock, t)
    /\ signalDraft' = Clear(signalLock, signalDraft, t, NoSignal)
    /\ page' = [page EXCEPT ![t] = AnyUrl]
    /\ event' = [event EXCEPT ![t] = AnyUrl]
    /\ count' = [count EXCEPT ![t] = 0]
    /\ touched' = [touched EXCEPT ![t] = {}]

CommitRows(t) ==
    /\ articleSource' = [a \in Urls |-> SourceSeen(t, a)]
    /\ links' = links \cup newLinks[t]
    /\ eventRow' = Apply(eventLock, eventDraft, eventRow, t)
    /\ signalRow' = Apply(signalLock, signalDraft, signalRow, t)
    /\ opportunities' = [e \in Urls |-> IF e \in newOpportunities[t]
                                        THEN opportunities[e] + 1 ELSE opportunities[e]]
    /\ EndTransaction(t)

RollbackRows(t) ==
    /\ EndTransaction(t)
    /\ UNCHANGED <<articleSource, links, eventRow, signalRow, opportunities>>

CommitCrawl(t) ==
    /\ pc[t] = "ingest" /\ todo[t] = {} /\ touched[t] = {}
    /\ CommitRows(t)
    /\ Goto(t, "idle")
    /\ UNCHANGED <<snapshots, todo, crashes, clock>>

(* An exception that crawl_source does not catch, or the worker dies: the   *)
(* database drops everything the task had not committed.                    *)
Crash(t) ==
    /\ pc[t] # "idle"
    /\ crashes < MaxCrashes
    /\ crashes' = crashes + 1
    /\ RollbackRows(t)
    /\ todo' = [todo EXCEPT ![t] = {}]
    /\ Goto(t, "idle")
    /\ UNCHANGED <<snapshots, clock>>

-----------------------------------------------------------------------------
(* backfill_opportunities: one transaction per eligible signal.             *)

SelectEligible(t) ==
    /\ pc[t] = "idle"
    /\ todo' = [todo EXCEPT ![t] = {e \in Urls : signalRow[e].strong /\ opportunities[e] = 0}]
    /\ todo'[t] # {}
    /\ Goto(t, "load")
    /\ UNCHANGED <<articleVars, eventVars, signalVars, opportunityVars,
                   ingestVars, event, touched, crashes, clock>>

(* db.get reads the signal, which may have lost its eligibility meanwhile.  *)
LoadSignal(t) ==
    /\ pc[t] = "load"
    /\ \E e \in todo[t] :
          /\ todo' = [todo EXCEPT ![t] = @ \ {e}]
          /\ event' = [event EXCEPT ![t] = e]
          /\ Goto(t, IF signalRow[e].strong THEN "lock" ELSE "load")
    /\ UNCHANGED <<articleVars, eventVars, signalVars, opportunityVars,
                   ingestVars, touched, crashes, clock>>

CommitSignal(t) ==
    /\ pc[t] = "commit"
    /\ CommitRows(t)
    /\ Goto(t, "load")
    /\ UNCHANGED <<snapshots, todo, crashes, clock>>

(* A model call fails: this signal is rolled back, the next one is tried.   *)
BackfillFails(t) ==
    /\ pc[t] = "generate"
    /\ RollbackRows(t)
    /\ Goto(t, "load")
    /\ UNCHANGED <<snapshots, todo, crashes, clock>>

EndBackfill(t) ==
    /\ pc[t] = "load" /\ todo[t] = {}
    /\ Goto(t, "idle")
    /\ event' = [event EXCEPT ![t] = AnyUrl]
    /\ UNCHANGED <<articleVars, eventVars, signalVars, opportunityVars,
                   todo, ingestVars, touched, crashes, clock>>

-----------------------------------------------------------------------------
CrawlStep(t) ==
    \/ StartCrawl(t) \/ SkipKnown(t) \/ FetchArticle(t) \/ FetchFails(t)
    \/ StoreSnapshot(t) \/ StoreFails(t) \/ InsertArticle(t) \/ InsertConflicts(t)
    \/ MatchEvent(t) \/ AttachEvent(t) \/ DeadlockVictim(t)
    \/ PickEvent(t) \/ RefreshSignal(t) \/ RefreshUnchanged(t) \/ LockSignal(t)
    \/ Generate(t) \/ GenerateFails(t) \/ CommitCrawl(t)

BackfillStep(t) ==
    \/ SelectEligible(t) \/ LoadSignal(t) \/ LockSignal(t)
    \/ Generate(t) \/ CommitSignal(t) \/ BackfillFails(t) \/ EndBackfill(t)

Next ==
    \/ \E t \in Crawls : CrawlStep(t)
    \/ \E t \in Backfills : BackfillStep(t)
    \/ \E t \in Tasks : Crash(t)

Spec == Init /\ [][Next]_vars

(* Beat starts a crawl of every source again and again, and a running task  *)
(* goes on.  A publisher, MinIO or the model may fail, but not for ever.    *)
FairSpec ==
    /\ Spec
    /\ \A t \in Crawls : /\ WF_vars(CrawlStep(t))
                         /\ SF_vars(FetchArticle(t))
                         /\ SF_vars(StoreSnapshot(t))
                         /\ SF_vars(InsertArticle(t))
    /\ \A t \in Backfills : WF_vars(BackfillStep(t))
-----------------------------------------------------------------------------
(* Properties.                                                              *)

Labels == {"idle", "ingest", "store", "insert", "match", "attach", "refresh",
           "lock", "generate", "load", "commit"}

(* Every variable has the shape of the table or the local it stands for.    *)
TypeOK ==
    /\ articleSource \in [Urls -> Sources \cup {NoSource}]
    /\ newArticles \in [Tasks -> SUBSET Urls]
    /\ links \subseteq Urls \X Urls
    /\ newLinks \in [Tasks -> SUBSET (Urls \X Urls)]
    /\ eventRow \in [Urls -> EventRows]
    /\ eventDraft \in [Urls -> EventRows]
    /\ eventLock \in [Urls -> Tasks \cup {NoTask}]
    /\ signalRow \in [Urls -> SignalRows]
    /\ signalDraft \in [Urls -> SignalRows]
    /\ signalLock \in [Urls -> Tasks \cup {NoTask}]
    /\ opportunities \in [Urls -> Nat]
    /\ newOpportunities \in [Tasks -> SUBSET Urls]
    /\ pc \in [Tasks -> Labels]
    /\ todo \in [Tasks -> SUBSET Urls]
    /\ page \in [Tasks -> Urls]
    /\ event \in [Tasks -> Urls]
    /\ count \in [Tasks -> Nat]
    /\ touched \in [Tasks -> SUBSET Urls]
    /\ crashes \in 0 .. MaxCrashes
    /\ clock \in Nat

(* However crawls, backfills and crashes interleave, a signal never gets a  *)
(* second opportunity: FOR UPDATE makes check and insert one critical       *)
(* section that ends with the transaction (build_opportunity).              *)
AtMostOneOpportunity == \A e \in Urls : opportunities[e] <= 1

(* The task that holds a signal's lock and has an opportunity for it, or is *)
(* having the model write one.                                              *)
Claims(t, e) ==
    \/ e \in newOpportunities[t]
    \/ pc[t] = "generate" /\ event[t] = e
Owner(e) ==
    LET t == signalLock[e] IN IF t # NoTask /\ Claims(t, e) THEN t ELSE NoTask

Once == INSTANCE OpportunityOnce
            WITH Signals <- Urls, Nobody <- NoTask,
                 owner <- [e \in Urls |-> Owner(e)], made <- opportunities

(* The pipeline implements OpportunityOnce: claims exclude each other from  *)
(* the first model call to the end of the transaction, and all opportunities*)
(* of a crawl appear together or, after a crash, not at all.                *)
OpportunitiesAreClaimed == Once!Spec

(* A committed event's signal was computed from exactly the counts the      *)
(* event has: no crawl leaves an event it changed without a refresh, and no *)
(* refresh of an older reading is committed over a newer one.               *)
SignalMatchesEvent ==
    \A e \in Urls :
        /\ signalRow[e].articles = eventRow[e].articles
        /\ signalRow[e].sources = eventRow[e].sources

ArticlesOf(e) == {l[1] : l \in {k \in links : k[2] = e}}

(* source_count, re-counted under the event's row lock, is right for every  *)
(* committed event although article_count (ArticleCountExact) is not.       *)
SourceCountExact ==
    \A e \in Urls :
        eventRow[e].sources = Cardinality({articleSource[a] : a \in ArticlesOf(e)})

(* The evidence chain has no gap: each committed article is filed under     *)
(* exactly one event, that event is committed, and no link dangles, whatever*)
(* savepoints and transactions were rolled back on the way.                 *)
EveryArticleFiled ==
    /\ \A a \in Stored : Cardinality({l \in links : l[1] = a}) = 1
    /\ \A l \in links : l[1] \in Stored /\ eventRow[l[2]].articles > 0

(* "Raw HTML is saved to MinIO before analysis": the object a committed     *)
(* article's raw_object_key names exists, although MinIO takes no part in   *)
(* the transaction.                                                         *)
SnapshotKept == \A a \in Stored : <<articleSource[a], Hash[a]>> \in snapshots

(* Once ingestion is over a crawl is never on a cycle of waits: a deadlock  *)
(* costs an article (retried at the next crawl), never the whole crawl,     *)
(* which no savepoint would protect there.                                  *)
AnalyticsNeverDeadlock ==
    \A t \in Tasks : pc[t] \in {"refresh", "lock"} => ~Deadlocked(t)

(* article_count is the number of articles filed under the event.           *)
ArticleCountExact == \A e \in Urls : eventRow[e].articles = Cardinality(ArticlesOf(e))

Events == {e \in Urls : eventRow[e].articles > 0}
RecentEvents == Newest(Events, [e \in Urls |-> eventRow[e].lastSeen])

(* Of the events a story has, at most one is among the RecentLimit seen     *)
(* last: attach_event founds a second one only when RecentLimit others have *)
(* pushed the first out of its candidates, and that one never comes back.   *)
OneEventPerStory ==
    \A e, f \in RecentEvents : e # f => <<e, f>> \notin Similar

(* content_hash keeps syndicated copies out: no two articles have the same. *)
OneArticlePerContent == \A a, b \in Stored : Hash[a] = Hash[b] => a = b

Covered(u) == Canon[u] \in Stored \/ \E a \in Stored : Hash[a] = Hash[Canon[u]]

(* Once a source has an article, every entry of its feed window ends up in  *)
(* the article table, however many it lists beyond the crawl's limit and    *)
(* however often fetching, storing or whole crawls fail meanwhile.          *)
WindowIngested ==
    \A s \in Sources : \A u \in Feed[s] :
        (\E a \in Urls : articleSource[a] = s) ~> Covered(u)
=============================================================================
