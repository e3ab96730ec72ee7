# Ideas Hub in TLA+

Ideas Hub crawls news sources, files articles under events, scores the signal
of each event and, for strong signals, has a model write an opportunity.  It
also discovers new sources in the links of the articles it has crawled.  This
directory holds TLA+ models of that system, the configurations with which TLC
checks them and the theorems TLAPS proves about them.  `PROJECT.json` maps every
definition to the source lines it stands for.

    tlc -workers 2 -config Pipeline_concurrent.cfg MCPipeline
    tlc -workers 2 -config SourceRegistry.cfg MCSourceRegistry
    tlapm SourceCandidatesProofs.tla

## 1. Inventory

| Component | State it keeps | Operations | Hard behaviour | Module |
|---|---|---|---|---|
| Evidence pipeline (`pipeline.py`) | articles, events, event links, signals, opportunities (PostgreSQL), snapshots (MinIO) | `crawl_source`, `ingest_url`, `attach_event`, `refresh_signal`, `build_opportunity`, `backfill_opportunities` | overlapping crawls in long transactions, row locks, deadlocks, savepoints, values read before a lock | `Pipeline` |
| Source discovery and review (`source_discovery.py`, `/source-candidates` of `api.py`, tasks of `worker.py`) | candidates, evidence rows, sources | record, submit, validate, auto-approve, approve, reject, rescan, discovery cycle | minutes of probing between reading a row and writing it, operators on the same row, unique constraints, dead workers; inside a validation, several feeds fetched twice from servers that answer anything | `SourceCandidates` (rows and actors), `CandidateProbe` (one validation) |
| Crawl runs and jobs (`worker.py`, `api.py`) | `CrawlRun` rows, jobs in Redis | enqueue, approve, scheduled crawl, synchronous crawl, job execution | commit-publish-write order, workers overtaking handlers, lost and doubled jobs, failing failure handlers | `CrawlRuns` |
| Scoring (`pipeline.py`, `schemas.py`, `source_discovery.py`) | none | `signal_score`, `weighted_score`, `calculate_candidate_score`, gates | thresholds and rounding | `Scoring` |
| Safe fetching (`source_discovery.py`) | none | `normalize_url`, `validate_public_url`, `safe_fetch` | redirects, limits, which error ends what | in `CandidateProbe` |
| Source adapters (`source_adapters.py`) | none | feed and sitemap windows | cut, order, deduplication | the head-or-whole choice is in `Pipeline` |
| Source registry (`main.py`, `db.py`, `bootstrap.py`, `/sources`, Beat's round in `worker.py`) | the schema, the bucket, source rows, bootstrap and scheduled jobs | migrate, ensure bucket, seed, enqueue, create, rename, toggle, crawl round | several processes starting at once, dying between commit and publish, unique domains | `SourceRegistry` |
| Model gateway (`model_gateway.py`) | `ModelRun` rows | `structured` | records in the caller's transaction | a call succeeds or raises in `Pipeline`; its rows are not modelled |
| CMS console (`CmsConsole.js`, PATCH and list handlers of `api.py`) | copies of the lists, one form, one busy flag | toggle, save, submit, approve, reject, rescan, crawl | overlapping handlers sharing a flag, late, lost and reordered answers, old copies, several operators | `CmsConsole` |
| Crawler, object store, embeddings | - | fetch, put, embed | outcomes only | in `Pipeline` as outcomes |
| Settings, API schemas, public pages, infrastructure | - | - | none | not modelled (`weighted_score` is in `Scoring`) |

The components interact through the database and the job queue.  Celery Beat
publishes a crawl of every enabled source and, daily, a discovery cycle; the
API publishes crawls, validations and backfills and may crawl synchronously;
a crawl calls the source adapter, the crawler, MinIO, the embedding model, the
model gateway and, in a savepoint, `record_outbound_candidates`; a successful
validation publishes the first crawl of its source.  No component keeps locks
of its own: all coordination is PostgreSQL's, at READ COMMITTED.

What makes each component correct:

- pipeline: committed counts, links and signals agree with each other; one
  opportunity per signal; a snapshot behind each article; nothing of the feed
  window is missed; and, with one crawl at a time, one article per text and one
  event per story among the events seen last;
- discovery: what goes live was validated, by this candidate's own probe, with
  enough referrers, and has a source of its own; a rejection stays; a
  candidate is never stuck;
- a validation: no URL is requested whose check at that hop failed, one bad feed
  does not cost the site its validation, the best feed decides, and a decision
  comes;
- registry: a domain is registered once and bootstrapped at most once however
  many processes start, and every enabled source is crawled in the end;
- crawl runs: a row tells what happened to its job, a job has one row, a
  published run starts;
- console: no button stays disabled; a handler that fails leaves its form open,
  and one that succeeds closes the form it has stored (or one opened meanwhile,
  unsaved input included: that is what the code does); an old copy does not undo
  someone's edit; and what an operator changed is shown, as far as the ranked
  lists, cut at 200 rows, reach.

The hazards of the code, each at its line and with the property that would
catch it, are listed in `PROJECT.json`.

## 2. Modules

### Pipeline, MCPipeline

`Pipeline` models any number of overlapping executions of `crawl_source` and
`backfill_opportunities`.  Each table has its committed rows (`articleSource`,
`links`, `eventRow`, `signalRow`, `opportunities`) and what the open
transactions have written (`newArticles`, `newLinks`, `eventDraft` and
`signalDraft` under their locks, `newOpportunities`).  A statement sees the
committed rows and its own.  A crawl is one transaction with a savepoint per
article; `CommitCrawl` makes everything visible at once, `Crash` drops it.
`WaitsFor` is PostgreSQL's lock queue: an UPDATE or FOR UPDATE waits for the
holder of the row, an INSERT of a unique key for the transaction that has
inserted it.  When waits form a cycle the victim's statement fails and, during
ingestion, its savepoint is rolled back (`DeadlockVictim`).

One action stands for one statement, or for a run of statements nobody else can
interleave with: reading the events and choosing one (`MatchEvent`) is
separate from the UPDATE (`AttachEvent`), because the session keeps the
`article_count` it has read.  Likewise the signal is refreshed (`RefreshSignal`,
or `RefreshUnchanged` when the ORM has nothing to write), then locked
(`LockSignal`), then an opportunity is generated.  SQLAlchemy's identity map is
modelled where it matters: `SELECT ... FOR UPDATE` does not refresh attributes
the session holds.

An article is compared with the `RecentLimit` events seen last only (200 in
`pipeline.py:119`): `clock` counts the times an event was written, `lastSeen` of an
event row is the last of them (the code reads its clock just before the row lock is
waited for, so overlapping crawls could write two events' times the other way round;
the properties of the concurrent runs do not depend on it), and `Candidates` are the newest of the events the
task sees, its own uncommitted ones included.  So a story whose event has fallen
behind gets a second one, in the model as in the code.

Data are abstracted: pages are named, `Canon` says where a redirect ends, `Hash`
what text a page has, `Similar` which vectors are close.  Which of several
similar candidates is closest is left open.  For an event that a crawl has just
created `MayBeStrong` computes the score (`Scoring!YoungScore`); for an older one,
whose age and trust are not kept, whether it reaches the threshold is a choice.

`LockSignal` goes ahead on the score as the session loaded it, as the code does
(`pipeline.py:194-195`), so an opportunity may be built from a signal that has
become weak; and the content-hash check, which no constraint backs, lets two
overlapping crawls store two copies (`pipeline.py:57`).  No document excludes
either, and neither has a run.

### OpportunityOnce

The abstract promise behind `build_opportunity`: a task claims a signal nobody
has claimed and that has no opportunity, may give it up, and at the end of its
transaction all its claims become opportunities at once or none does.
`Pipeline!Once` instantiates it: a signal's owner is the task that holds its lock
and has an uncommitted opportunity for it or is having one written (`Owner`), and
`made` is the committed count.  `pipeline_concurrent` checks
`OpportunitiesAreClaimed` (that `Pipeline` implements it) on the small instance;
`PipelineProofs` proves it.

### SourceCandidates, MCSourceCandidates

Rows of candidates (`status`, `feed`, `retries`, `source`) and of sources
(`sourceFeed` by domain key).  A validation is `BeginValidation` (commits
"validating"), a probe without any lock, and one of its outcomes: `ProbeUnsafe`,
`ProbeFails`, `SaveScore`, `SaveFails`, or `AutoApprove`, which starts a
transaction that chooses a domain key, inserts the source and commits.  Approval
by an operator runs the same steps.  `loaded` is the row as the session read it
and `draft` what it is going to write; the UPDATE carries only the columns in
which they differ (`Column`, `Writes`).  `rowLock` and `keyLock` are the open
transaction's; unique constraints on the feed, the domain key and `source_id`
refuse or wait.  `RecordCandidates` is the recorder as its transaction commits.
`source_count` is not kept as a column: the only reader is the validation that
has just computed it.  How a probe arrives at its outcome is `CandidateProbe`.

### CandidateProbe, MCCandidateProbe, Scoring

`CandidateProbe` opens one validation up into its requests: the homepage, a probe
of each possible feed, and a second fetch of each feed found valid, which is
scored.  `Resolve`, `Redirect`, `RefuseUrl`, `RefuseRedirect` and `RequestFails` are
the loop of `safe_fetch`; a server may answer every request as it likes, also
differently the second time.  `FetchUnsafe` and `FetchFails` say what an exception
does in each of the three loops: a probe goes on, everything else ends the
validation.  `Allowed` are the URLs whose scheme, port and host may be public,
`Named` those whose host is a name: at each check DNS answers afresh for it, with
public addresses only, with some other one, or with nothing (`Lookups`), and the
last two refuse the URL, as in the code.  `lookup` is history, what the check of
the present hop has found.  The client looks the name up a second time when it
connects (`source_discovery.py:169`); the code does not compare the two answers,
the model has only the first, and nothing is claimed about the address that is
connected to.  A link that `urljoin` cannot parse raises outside the `try` around a
probe (lines 225 and 368) and ends the validation: `RequestFails` at the homepage.
Between validations the row is retried by discovery cycles and
rescanned by operators, one validation at a time.

`Scoring` has the four formulas over integers (scores in hundredths) and the
gates.  `CandidateProbe` and `Pipeline` use it.

### SourceRegistry, MCSourceRegistry

API processes run `lifespan`: `init_db` (read the schema, create what is missing,
which fails if another process has), `ensure_bucket` with its retries,
`seed_default_sources` (one read, one INSERT whose keys are held until the
commit, one commit), and a bootstrap job for each source created.  A process may
stop or die at any step and start again.  Operators create, rename and toggle
sources; `BeginRound` is the query of `crawl_enabled_sources_task` and
`PublishScheduled` its loop, which `RoundLost` may end early.  A source is named
after the domain it was created for, since its row may be renamed.

### CrawlRuns, MCCrawlRuns

A handler commits the row, publishes the job, and writes the job's id; a worker
takes the job (the broker may keep a copy), writes "running", crawls, and
writes the outcome.  Redis and Celery are external and modelled from their
configuration in `worker.py`: a job is acknowledged when it starts, so it dies
with its worker.  The crawl itself is one step here; its inside is `Pipeline`.

### CmsConsole, MCCmsConsole

`CmsConsole` models the browser side of `/cms` and the handlers it calls.
`rows` is the server's committed state; `shown`, `busy` and `editor` are the
React state of each console.  A click fills a task slot, sets `busy` and sends
its request; the server loads the row, commits the columns that differ from
what it loaded, and answers with the row as it is then; the answer replaces one
row (`toggleSource`, `updateOpportunity`) or makes the handler reload lists
(`saveSource`, `candidateAction`), each of which is read and received at its own
time.  A failed request ends the handler through its catch and finally branches,
and the other answers of a failed `Promise.all` still arrive.  A button's
`disabled` expression, with the copies it is computed from, is the guard of its
action.

Every list but that of the sources is ranked and cut at 200 rows (`api.py:114-121`,
`CmsConsole.js:182`; `ListLimit`).  Scores are not kept, so once there are more
rows than that an answer, and the page as first loaded, may leave out any of
them (`Pages`): a new candidate need not be in the list that is reloaded for it.
`setEditor(null)` closes whatever form is open; `overtaken` (history) are the
handlers that were already saving when the form was opened, whose answer
closes it too.

### Proof modules

`PipelineProofs`, `SourceCandidatesProofs`, `CandidateProbeProofs`,
`SourceRegistryProofs`, `CrawlRunsProofs`, `CmsConsoleProofs` and `ScoringProofs`
extend the modules they are named after (section 4).  `PipelineProofs` has the
types, the opportunities and the refinement; `PipelineEvidenceProofs` extends it
with articles, events, counts, signals, snapshots and deadlocks.

## 3. What TLC checks

| Run | Question | Result |
|---|---|---|
| `pipeline_concurrent` | Two crawls of two sources whose feeds overlap, three pages of one story, a backfill, one crash: at most one opportunity per signal, each claimed first (`OpportunityOnce`), a snapshot for every article? | holds, 229,932 states |
| `pipeline_shared_events` | Two crawls add pages to the same two events in opposite orders: do signals match their events, is every article filed, and where can deadlocks happen? | holds, 4,248,877 states |
| `pipeline_serial` | One crawl at a time, redirects and syndicated copies, three stories and two candidate events, crawl limit 2: are counts and dedupe exact, is the newest event of a story found, and is the window ingested? | holds, 39,492 states |
| `pipeline_lost_update` | Is `article_count` exact when crawls overlap? | violated |
| `source_candidates` | Can anything go live without validation, referrers, or a source of its own? | no, 1,549,689 states |
| `candidate_probe` | One candidate, servers that answer anything: what is requested, what an error costs, which feed decides, and does a decision come? | holds, 287,684 states |
| `candidate_rejection` | Does a rejection survive the validation it overlaps? | violated |
| `candidate_stranded` | Is a "validating" candidate always going to be decided? | violated |
| `crawl_runs` | Do rows and jobs stay matched when jobs start early, twice, or die? | holds, 60,486 states |
| `crawl_run_failure` | Is a crawl that raises recorded as failed? | violated |
| `source_registry` | Two API processes start on an empty or an old database and die anywhere while operators edit sources: is each domain seeded once, bootstrapped at most once, and is every enabled source crawled? | holds, 421,598 states |
| `cms_console` | Do two consoles with overlapping handlers and lost answers keep buttons, forms, edits and copies right? | holds, 297,679 states |

The passing properties, by hazard:

- `AtMostOneOpportunity`: `Opportunity.signal_id` is not unique, so only the
  row lock of `build_opportunity` keeps two tasks from both inserting.
  `OpportunitiesAreClaimed` says more: the claim lasts from the first model call
  to the end of the transaction, and a crawl's opportunities appear together.
- `SignalMatchesEvent`, `SourceCountExact`: the signal of a committed event was
  computed from the counts the event has, and `source_count` is right even
  though `article_count` may not be.
- `EveryArticleFiled`, `SnapshotKept`: savepoints, rollbacks and the object store
  outside the transaction leave no article without event, link or snapshot.
- `AnalyticsNeverDeadlock`: deadlocks are confined to ingestion, where a
  savepoint makes them cost one article instead of the crawl.
- `ArticleCountExact`, `OneEventPerStory`, `OneArticlePerContent` hold with one
  crawl at a time.  When crawls overlap none of them does: the first has a run,
  the other two (two events for one story, two copies of one text) are ruled
  out by no document and have none.  `OneEventPerStory` is about the `RecentLimit`
  events seen last: a second event of a story comes only when the first is no
  longer among them, and the first, never matched again, does not return.  Over
  all events it does not hold, with a single crawl either.
- `WindowIngested` (liveness): after the head-only bootstrap every entry of the
  window is eventually stored.
- `AutoApprovedIsReferred`, `LiveFeedsWereValidated`, `LiveHasSource`,
  `NothingShared`: see section 1.
- `OnlyCheckedRequested`: at each hop of a redirect chain the URL requested has
  passed a check of its own, on what DNS answered then; a check made of the first
  hop only would not do.  `ProbesAreIsolated`: a broken or forbidden feed that a
  page offers neither rejects the site nor counts as a failure (a link that is no
  URL at all does count: it raises before any probe).  `BestFeedDecides`: with several
  feeds scored in turn, the first of the best decides, with its own samples,
  entries and gates.  `EventuallyDecided` (liveness): redirect loops, errors and
  retries end in a decision.
- `SeedsOnce`, `BootstrapOnce`: processes that read the registry before each
  other's commit register no domain and bootstrap no source twice.
  `EverySourceCrawled` (liveness): a source whose bootstrap job was lost with its
  process, or whose round was lost, is still crawled again and again while it
  stays enabled.
- `SucceededHasCrawled`, `JobKeepsItsRow`, `TaskIdNamesJob`, `NeverQueuedAgain`,
  `PublishedRunStarts` (liveness): see section 1.
- `BusyIsOwned`, `ButtonsComeBack` (liveness): the busy flag belongs to a handler
  that is running, and goes away however its requests end.
- `QuickChangeKeepsText`: a toggle or status change from an old copy, overlapping
  a save, never undoes the saved fields (the PATCH names one field and the ORM
  writes only what it changed).  The reverse is not so: a form sends the
  enabled flag or status it was opened with.
- `FormClosesOnlyWhenStored`: whichever request of a save fails before the commit,
  its input stays on the screen.  A form that an answer closes is the one the
  handler has stored, or one opened while it was under way; the latter really
  happens (`CmsConsole.js:226`, `345`, `371`, `407`), and unsaved input is lost with it.
- `OwnChangesShown`: without overlap, failure or writes by others each action
  refreshes everything it changed, in each list; only a list that is full may
  lack a row.  With any of them a copy may stay old, since the console does not
  poll; `disturbed` names exactly these cases, and nothing is claimed of them.

### What the violations show

1. `attach_event` adds one to a count it read before waiting for the row lock
   (`pipeline.py:138`): an increment is lost, against "Event clustering and
   signal scoring are algorithmic and reproducible" (`README.md:183`).
2. A validation overwrites an operator's rejection (`source_discovery.py:524`).
3. A validation whose result cannot be saved strands its row, because the
   except branch reads an expired attribute (`source_discovery.py:523`).
4. For the same reason a crawl that raises is never recorded (`worker.py:59`,
   `api.py:340`): after the rollback `run.id` is expired, and an asynchronous
   session cannot load it lazily.

### Bounds, and why they are enough

- Pipeline: two crawls and a backfill are the smallest set in which a crawl
  conflicts with a crawl and a backfill with both.  Three pages of one story, one
  of them listed by both sources, make the crawls collide on the canonical URL,
  on the event and on its signal.  `pipeline_shared_events` leaves out backfill
  and crash and takes six pages: two found the events, which are then committed,
  and each crawl has one more for both, so that without the event locks the two
  would wait for each other's signals.  The serial run has more stories, a
  redirect and a copy, since crawls do not interleave.
  `MaxCrashes` is 1: a second crash starts from a state a first one can leave.
  `RecentLimit` is 2 instead of 200, and 1 in `pipeline_concurrent`: the three
  stories of the serial run and the events overlapping crawls found are more than
  that.  The backfill's limit of 100 is never reached.
- SourceCandidates: the second candidate exists to claim a feed and to conflict;
  `RetryLimit` is 2 instead of 3, `MaxRetries` and `MaxQueued` bound the two
  counters, `MaxCrashes` is 1.  An article of either of two sources gives 0, 1
  or 2 referrers around the gate's 2.
- CandidateProbe: four URLs (a homepage, a feed it offers, a feed at a literal
  address reached by redirects only, and one in the local network it offers too;
  the hosts of the first two are names, so that every check of them may turn out
  differently), four kinds of
  pages (no feed, a feed that passes every gate, one that does not, one without
  entries), 0 to 2 referrers around the gate's 2.  `MaxRedirects` is 3 as in the
  code, and so is `RetryLimit`.
- SourceRegistry: two processes are the smallest number that can seed at the same
  time; two default domains make a half-published bootstrap possible, a third
  domain is the operators'.  `MaxAttempts` is 2 instead of 8, `MaxRows` 2 (a second
  row for a domain whose first row was renamed), `MaxJobs` 1 (a full queue delays a
  publication, so how far the queue grows when rounds outrun the workers is not
  part of the model), `MaxIncidents` 1 (one change or one lost round).
- CrawlRuns: two rows, two jobs, two workers, two handlers, one crash and one
  duplicate.  When every row and job has been used nothing is left to do, so
  deadlock is not checked there: an idle system is a state the program reaches.
- CmsConsole: two consoles, two handlers in flight and two actions started
  (`MaxClicks`) cover each pair of overlapping actions, of one operator or of two,
  with every order and loss of their answers; one source that candidates
  become, one opportunity and two candidates, one of them there from the beginning
  (`Discovered`), give every kind of row.  `ListLimit` is 1, so submitting the other
  candidate makes the list overflow; the list of opportunities never does here.  A
  form is opened only while an action is left to start.  When the
  operators stop, nothing is left to do, so deadlock is not checked.

Symmetry (articles of `MCSourceCandidates`) is used in an invariant-only run.

### Fairness

`Pipeline!FairSpec` assumes that a started task goes on and that Beat starts
crawls again and again (weak fairness of each task's steps), and that fetching,
storing and inserting do not fail for ever (strong fairness of the success).
Crashes are bounded.  The liveness property is checked with one crawl: two crawls
could in principle be each other's deadlock victims for ever.  `CrawlRuns!FairSpec`
assumes weak fairness of workers that are up, which is what `celery worker` does.
`CandidateProbe!FairSpec` assumes that a validation goes on, since the client's
time-outs end every request, and that Beat runs discovery cycles again and again
(`CycleValidates`); no answer is assumed to be good, and nobody is assumed to
rescan.  `SourceRegistry!FairSpec` assumes that Beat's rounds begin and go on and
that workers take jobs; nobody is assumed to start an API process or keep it up.
`CmsConsole!FairSpec` assumes that every request is
answered or fails, since a browser ends a lost connection; nobody is assumed to
click.  `SourceCandidates` is checked for safety only.

## 4. What is proved

All theorems hold for every value of the constants that the named assumption of
the module allows: any number of tasks, candidates, domains, rows, jobs or
processes, and any bounds.  Each safety theorem follows from an inductive
invariant; every invariant was checked by TLC as an invariant of the module's run
before it was proved.

`Pipeline` (from `TasksAssumption`, `PagesAssumption`):

- `TypeCorrect`: `Spec => []TypeOK`, one step per action.
- `OneOpportunityPerSignal`: `Spec => []AtMostOneOpportunity`.  The property is not
  inductive: a state in which two tasks both hold an uncommitted opportunity for
  one signal satisfies it and leads out of it.  `OpportunityInv` adds what the lock
  gives: a task that has an uncommitted opportunity for a signal, or is about to
  generate one, holds the signal's lock; and there is no committed one then.
- `PipelineImplementsOnce`: `Spec => OpportunitiesAreClaimed`, the refinement.  With
  `OpportunityInv` the owner of a signal and the task that claims it are the same
  (`OwnerClaims`), so each action of `Pipeline` is a claim, a surrender, a
  publication, an abandonment or a stutter of `OpportunityOnce`.

In `PipelineEvidenceProofs`, for any number of crawls and backfills, deadlock victims
and crashes included:

- `PhaseInv` and `LockInv` say which locks a task has in which phase: a crawl keeps
  the lock of every event it has written; it writes signals only when ingestion is
  over, and only those of its own events; a backfill has the lock of the one signal
  it works on and writes no event.
- `AnalyticsIsDeadlockFree`: `AnalyticsNeverDeadlock`.  By `LockInv` an analysing crawl
  can wait for a backfill only, and a backfill that holds a lock waits for nobody.
- `SignalsAreCurrent`: `SignalMatchesEvent`, which by itself says nothing about open
  transactions.  `RefreshInv` adds that an event a crawl has written is still to be
  refreshed or has its new counts in the signal the crawl will commit, and that a
  backfill's copy of a signal keeps the counts.
- `SnapshotsAreKept`: `SnapshotKept`; `SnapshotInv` extends it to uncommitted articles
  and to the one about to be inserted.
- `ArticlesAreFiled`: `EveryArticleFiled`.  `ArticleInv`: an article is inserted by one
  task.  `FiledInv`: a task files its own articles only, each once, under events it
  has locked, but for the one it is filing now.
- `SourceCountsAreExact`: `SourceCountExact`.  `CountInv` extends it to event rows still
  uncommitted: `source_count` is computed from the links under the event's lock, where
  no other crawl can add one.

With one crawl at a time (`CrawlsAreSerial`: `Crawls` has at most one element; that
crawl runs again and again and any number of backfills overlap it):

- `SerialContentIsUnique`: `OneArticlePerContent`, from `ContentInv`;
- `SerialStoriesAreOne`: `OneEventPerStory`, for any `RecentLimit` and any number of
  events.  `SeenInv` bounds `lastSeen` by `clock`, `StoryInv` extends the property to
  what the crawl sees and is about to write: writing an event makes it the newest and
  brings no other one forward.  It needs that similarity is symmetric (`SimilarIsSymmetric`),
  as cosine similarity is;
- `SerialArticleCountIsExact`: `ArticleCountExact`, from `FounderInv` (an event contains
  the article that founded it) and `ArticleCountInv` (also a count just read is exact).

The hypothesis is the code's condition for these three, not a convenience:
`pipeline_lost_update` shows `ArticleCountExact` violated by two crawls, and the other
two fail in the same way (section 3).  The code does not enforce it.

`SourceCandidates` (from `CandidatesAssumption`), whose run has one worker and one
operator, for any number of both:

- `CandidatesTypeCorrect`: `TypeOK`, with `Working`: a task at work has a candidate
  with a row, and promotes a feed.
- `LiveCandidateHasSource`: `LiveHasSource`.  `Sourced` adds that a row with a source
  keeps one, also when a task that read the row earlier writes it, and that a task
  about to commit has a source that exists or that it has itself inserted.
- `CandidatesShareNothing`: `NothingShared`.  `Reserved` adds that a feed about to
  replace a candidate's is nobody else's, and that its task holds the row; two
  such tasks write different feeds, because the second would have waited
  (`Flushed`).
- `LiveFeedIsValid`: `LiveFeedsWereValidated`.  `Checked` adds that a row whose feed
  is not the one a task has read has a feed that another task's probe found valid:
  leaving an unchanged column out of the UPDATE is safe.
- `AutoApprovedWasReferred`: `AutoApprovedIsReferred`.  `Referred` bounds the count a
  task has read by the evidence there is, which only grows.

The proof has one lemma per action (what it does to rows, locks and the task that
moves) and, per invariant, one lemma about the tasks that do not move.

`CandidateProbe` (from `ProbeAssumption`): `ProbeTypeCorrect` (`ProbeInv` adds that a
candidate that has used its retries is rejected and idle, and that only a feed with
entries is sampled), `CheckedRequested`, `ProbeIsolation`, and
`DecidedByBestFeed`, whose `BestInv` says that `best` is the first of the greatest
results so far.

`SourceRegistry` (from `RegistryAssumption`): `RegistryTypeCorrect`; `SeededOnce`, with
`SeedInv`: processes that have inserted hold disjoint sets of domains, none of
them registered; `BootstrappedOnce`, with `BootstrapInv`: a row that a process has
still to enqueue has no bootstrap job, and no other process has it.

`CrawlRuns` (from `CrawlRunsAssumption`): `RunsTypeCorrect`, `SuccessIsCommitted`,
`JobsKeepTheirRows`, `StartedForGood` (`Spec => NeverQueuedAgain`, an action property),
`RunningRowNamesItsJob`.  `RunsInv` ties jobs to the rows they name and processes to
the rows they hold; `Crawled` adds that a process about to report has crawled;
`Matched` adds that at most one job names a row and that a row opened for a job
without one has one holder.

`CmsConsole` (from `CmsConsoleAssumption`, which says that the tables have no row in
common and that a list holds at least one), for any number of consoles, overlapping handlers and rows:

- `CmsConsoleTypes`: `TypeOK`.  `ConsoleInv` adds that each table keeps its kind of
  row, that a request names a row of the table its endpoint writes, that a row once
  loaded does not go, and that only a handler that reloads has lists under way.
- `ConsolesAreBusyWithTasks`: `BusyIsOwned`, inductive together with `ConsoleInv` (what
  is left of a failed reload has no label).
- `QuickChangesKeepTexts` (`Spec => QuickChangeKeepsText`), an action property, from
  `ConsoleInv`, and `FormsCloseWhenStored` (`Spec => FormClosesOnlyWhenStored`), from
  `OwnForms`: a handler that is saving was started from the form now open, or that
  form was opened after it (`overtaken`), or no form is open.
- `OwnChangesAreShown`: `OwnChangesShown`, which says nothing while a handler runs.
  `FreshInv` adds that an undisturbed console has at most one handler under way, shows
  every row but those the request of that handler may have changed (`Stale`) and those
  a full list lacks, and that the answers coming back to it are current; `FormRows`,
  that an opportunity whose form is open is still shown.

`Scoring` (no assumptions): `SignalScoreBounded`, `WeightedScoreBounded` and
`CandidateScoreBounded` (no score leaves its range, and regulatory risk never helps),
`FirstArticleIsWeak` (an event with one article stays below the threshold, whatever
the trust in its source), `GatesAreIndependent` (the score alone approves nobody).

Model-checked only: the liveness properties, which are out of the prover's reach
(`WindowIngested`, `PublishedRunStarts`, `EventuallyDecided`, `EverySourceCrawled`,
`ButtonsComeBack`).  Every safety and action property of a passing run is proved.
The violations are counterexamples, for which TLC is the proof.

## 5. Not modelled

- HTML extraction and feed parsing (libraries), embeddings (numerical: the
  similarity relation is a constant), prompts and the contents of model answers.
- `ModelRun` rows: `ModelGateway.structured` flushes the record of a failed call into
  the caller's transaction, where a rollback of the caller takes it along; no
  document says which failures are to be kept.
- The ageing of an event (`log1p` of its age in days) in its signal's score.
- Parsing in the source adapters: sitemap indexes, order by `lastmod`, the window
  limits.
- Article edits by operators (they touch columns nothing here reads, except that
  a renamed `canonical_url` could be crawled again).
- `record_outbound_candidates` runs in its own savepoint inside a crawl; its rows
  are in `SourceCandidates`, not in `Pipeline`, and the row locks it keeps until the
  crawl commits are not modelled.
- Two validations of one candidate at the same time in `CandidateProbe`, and workers
  that die during one; both are in `SourceCandidates`, where a validation's outcome
  is a choice.
- In `init_db`, domains that occur twice in an old table, on which the unique index
  cannot be created.
- The console without toasts, tabs, search, crawl-run rows and what workers do to
  candidates beyond deciding a new one; a list that fails to load with the page,
  which is then shown empty, is not an initial state.
- The second resolution of a host name, by the HTTP client when it connects after
  `validate_public_url` has resolved it: which address a request reaches.
- Scores of candidates and opportunities in the console: which rows a full list
  leaves out is open.
- Settings, API input validation, styles, public pages, deployment.

Things the models do because the code does, and that no document settles: a
temporary DNS failure rejects a candidate at once (`source_discovery.py:143`);
`retry_count` is never reset by a success; a default source whose domain is changed
by PATCH is seeded again at the next start; an approved source whose job could not
be published stays "queued".

## 6. Plan

Done: `Pipeline`, `SourceCandidates`, `CrawlRuns`, `CmsConsole`, `Scoring`,
`CandidateProbe`, `SourceRegistry`, `OpportunityOnce` and the proofs of section 4.

Next, most important first:

1. The recorder inside a crawl: its row locks in `SourceCandidates`, held until the
   crawl commits.
2. Two validations of one candidate, and the failures they count.
3. `ModelRun` rows in crawls and backfills; the windows of the source adapters.
