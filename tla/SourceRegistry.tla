--------------------------- MODULE SourceRegistry ---------------------------
(***************************************************************************)
(* The source registry from an empty or an older database on: API          *)
(* processes that start, stop and start again (lifespan in main.py,        *)
(* init_db in db.py, ObjectStore.ensure_bucket in storage.py,              *)
(* seed_default_sources in bootstrap.py), the operators' changes to        *)
(* sources (api.py), the crawl round that Beat starts (worker.py), and     *)
(* workers that crawl one source per job.                                  *)
(*                                                                         *)
(* A source is named <<domain, n>>: the n-th row created for that domain,  *)
(* which an operator may have changed since.                               *)
(***************************************************************************)
EXTENDS Naturals

CONSTANTS
    Apis,          \* API processes that may run at the same time
    Defaults,      \* domains of DEFAULT_SOURCES
    Others,        \* further domains
    NoDomain,      \* a row that does not exist
    MaxAttempts,   \* stop_after_attempt of ensure_bucket
    MaxRows,       \* bound: rows created for one domain
    MaxJobs,       \* bound: jobs of one source in the queue
    MaxIncidents   \* bound: changes by operators and lost crawl rounds

Domains == Defaults \cup Others
Rows == Domains \X (1 .. MaxRows)

ASSUME RegistryAssumption ==
    /\ NoDomain \notin Domains
    /\ Defaults \cap Others = {}
    /\ MaxAttempts \in Nat \ {0} /\ MaxRows \in Nat \ {0} /\ MaxJobs \in Nat \ {0}
    /\ MaxIncidents \in Nat

VARIABLES
    schema,      \* "none", "old" (without the candidates' domain index), "current"
    bucket,      \* whether the MinIO bucket exists
    domain,      \* Source.domain of each row
    enabled,     \* rows with Source.enabled and a feed_url: those a round crawls
    pc,          \* where each API process is in its lifespan
    attempts,    \* calls of ensure_bucket it has made
    missing,     \* the defaults that seed_default_sources found missing
    created,     \* the rows it has created and not yet enqueued
    jobs,        \* crawl_source jobs in the queue, per row
    bootstraps,  \* history: bootstrap jobs published for each row
    round,       \* the rows a crawl_enabled_sources task has still to publish
    incidents    \* changes by operators and lost rounds so far

storageVars == <<schema, bucket>>
sourceVars == <<domain, enabled>>
seedVars == <<missing, created>>
queueVars == <<jobs, bootstraps>>
vars == <<storageVars, sourceVars, pc, attempts, seedVars, queueVars, round, incidents>>

Exists(r) == domain[r] # NoDomain
InUse == {domain[r] : r \in {s \in Rows : Exists(s)}}
NewRow(d, r) ==
    /\ r[1] = d /\ ~Exists(r)
    /\ \A n \in 1 .. r[2] - 1 : Exists(<<d, n>>)

Init ==
    /\ schema \in {"none", "old"}
    /\ bucket = FALSE
    /\ domain = [r \in Rows |-> NoDomain]
    /\ enabled = {}
    /\ pc = [a \in Apis |-> "down"]
    /\ attempts = [a \in Apis |-> 0]
    /\ missing = [a \in Apis |-> {}]
    /\ created = [a \in Apis |-> {}]
    /\ jobs = [r \in Rows |-> 0]
    /\ bootstraps = [r \in Rows |-> 0]
    /\ round = {}
    /\ incidents = 0

Goto(a, label) == pc' = [pc EXCEPT ![a] = label]

-----------------------------------------------------------------------------
(* The lifespan of an API process.                                          *)

Start(a) ==
    /\ pc[a] = "down"
    /\ Goto(a, "schema")
    /\ UNCHANGED <<storageVars, sourceVars, attempts, seedVars, queueVars, round, incidents>>

(* Nothing of a process outlives it: it is stopped, reloaded or killed, or  *)
(* an exception leaves its lifespan.                                        *)
Ends(a) ==
    /\ Goto(a, "down")
    /\ attempts' = [attempts EXCEPT ![a] = 0]
    /\ missing' = [missing EXCEPT ![a] = {}]
    /\ created' = [created EXCEPT ![a] = {}]

Stop(a) ==
    /\ pc[a] # "down"
    /\ Ends(a)
    /\ UNCHANGED <<storageVars, sourceVars, queueVars, round, incidents>>

(* init_db finds out what there is, and then creates what there is not.     *)
ReadSchema(a) ==
    /\ pc[a] = "schema"
    /\ Goto(a, IF schema = "current" THEN "bucket" ELSE "migrate")
    /\ UNCHANGED <<storageVars, sourceVars, attempts, seedVars, queueVars, round, incidents>>

Migrate(a) ==
    /\ pc[a] = "migrate" /\ schema # "current"
    /\ schema' = "current"
    /\ Goto(a, "bucket")
    /\ UNCHANGED <<bucket, sourceVars, attempts, seedVars, queueVars, round, incidents>>

(* Another process has committed the same extension, tables and index.      *)
MigrationConflicts(a) ==
    /\ pc[a] = "migrate" /\ schema = "current"
    /\ Ends(a)
    /\ UNCHANGED <<storageVars, sourceVars, queueVars, round, incidents>>

ListBuckets(a) ==
    /\ pc[a] = "bucket"
    /\ Goto(a, IF bucket THEN "seed" ELSE "create")
    /\ UNCHANGED <<storageVars, sourceVars, attempts, seedVars, queueVars, round, incidents>>

CreateBucket(a) ==
    /\ pc[a] = "create" /\ ~bucket
    /\ bucket' = TRUE
    /\ Goto(a, "seed")
    /\ UNCHANGED <<schema, sourceVars, attempts, seedVars, queueVars, round, incidents>>

OneAttemptMore(a) == attempts[a] = MaxAttempts
LastAttempt(a) == attempts[a] + 1 = MaxAttempts

(* MinIO is not there, or another process has created the bucket since it   *)
(* was listed: tenacity calls ensure_bucket again.                          *)
BucketRetry(a) ==
    /\ pc[a] \in {"bucket", "create"}
    /\ ~LastAttempt(a)
    /\ attempts' = [attempts EXCEPT ![a] = @ + 1]
    /\ Goto(a, "bucket")
    /\ UNCHANGED <<storageVars, sourceVars, seedVars, queueVars, round, incidents>>

BucketFails(a) ==
    /\ pc[a] \in {"bucket", "create"}
    /\ LastAttempt(a)
    /\ Ends(a)
    /\ UNCHANGED <<storageVars, sourceVars, queueVars, round, incidents>>

-----------------------------------------------------------------------------
(* seed_default_sources: one read, one INSERT of all that is missing, one   *)
(* commit.  Its keys are taken from the INSERT on.                          *)

ReadDomains(a) ==
    /\ pc[a] = "seed"
    /\ missing' = [missing EXCEPT ![a] = Defaults \ InUse]
    /\ Goto(a, IF Defaults \subseteq InUse THEN "up" ELSE "insert")
    /\ UNCHANGED <<storageVars, sourceVars, attempts, created, queueVars, round, incidents>>

Holds(a, d) == pc[a] = "commit" /\ d \in missing[a]
Awaits(a, o) == o # a /\ \E d \in missing[a] : Holds(o, d)

IgnoresConflict(a) == FALSE
Conflicts(a) == missing[a] \cap InUse # {}

InsertSources(a) ==
    /\ pc[a] = "insert"
    /\ ~Conflicts(a)
    /\ \A o \in Apis : ~Awaits(a, o)
    /\ Goto(a, "commit")
    /\ UNCHANGED <<storageVars, sourceVars, attempts, seedVars, queueVars, round, incidents>>

(* Source.domain is unique, and somebody else has committed one of them:    *)
(* nothing is seeded and the process does not start.                        *)
SeedConflicts(a) ==
    /\ pc[a] = "insert"
    /\ Conflicts(a)
    /\ Ends(a)
    /\ UNCHANGED <<storageVars, sourceVars, queueVars, round, incidents>>

EnqueuesDefaults(rows) == {r \in Rows : domain'[r] \in Defaults}
Enqueues(rows) == rows

CommitSeed(a) ==
    /\ pc[a] = "commit"
    /\ \A d \in missing[a] : \E r \in Rows : NewRow(d, r)
    /\ LET rows == {r \in Rows : \E d \in missing[a] : NewRow(d, r)}
       IN  /\ domain' = [r \in Rows |-> IF r \in rows THEN r[1] ELSE domain[r]]
           /\ enabled' = enabled \cup rows
           /\ created' = [created EXCEPT ![a] = Enqueues(rows)]
    /\ missing' = [missing EXCEPT ![a] = {}]
    /\ Goto(a, "publish")
    /\ UNCHANGED <<storageVars, attempts, queueVars, round, incidents>>

Delay(r) ==
    /\ jobs[r] < MaxJobs
    /\ jobs' = [jobs EXCEPT ![r] = @ + 1]

PublishBootstrap(a) ==
    /\ pc[a] = "publish"
    /\ \E r \in created[a] :
          /\ Delay(r)
          /\ bootstraps' = [bootstraps EXCEPT ![r] = @ + 1]
          /\ created' = [created EXCEPT ![a] = @ \ {r}]
    /\ UNCHANGED <<storageVars, sourceVars, pc, attempts, missing, round, incidents>>

Started(a) ==
    /\ pc[a] = "publish" /\ created[a] = {}
    /\ Goto(a, "up")
    /\ UNCHANGED <<storageVars, sourceVars, attempts, seedVars, queueVars, round, incidents>>

-----------------------------------------------------------------------------
(* Operators.  A statement that needs a key which a seed is inserting waits *)
(* for its commit.                                                          *)

IsFree(d) == d \notin InUse /\ \A a \in Apis : ~Holds(a, d)

Incident == incidents < MaxIncidents /\ incidents' = incidents + 1

Change == (\E a \in Apis : pc[a] = "up") /\ Incident

CreateSource ==
    /\ Change
    /\ \E r \in Rows :
          /\ IsFree(r[1]) /\ NewRow(r[1], r)
          /\ domain' = [domain EXCEPT ![r] = r[1]]
          /\ enabled' \in {enabled, enabled \cup {r}}
    /\ UNCHANGED <<storageVars, pc, attempts, seedVars, queueVars, round>>

Rename ==
    /\ Change
    /\ \E r \in Rows, d \in Domains :
          /\ Exists(r) /\ IsFree(d)
          /\ domain' = [domain EXCEPT ![r] = d]
    /\ UNCHANGED <<storageVars, enabled, pc, attempts, seedVars, queueVars, round>>

Toggle ==
    /\ Change
    /\ \E r \in Rows :
          /\ Exists(r)
          /\ enabled' = IF r \in enabled THEN enabled \ {r} ELSE enabled \cup {r}
    /\ UNCHANGED <<storageVars, domain, pc, attempts, seedVars, queueVars, round>>

-----------------------------------------------------------------------------
(* crawl_enabled_sources, which Beat publishes each interval: one read,     *)
(* then a job per source.                                                   *)

BootstrappedSources == {r \in enabled : bootstraps[r] > 0}
EnabledSources == enabled

BeginRound ==
    /\ schema = "current" /\ round = {}
    /\ round' = EnabledSources
    /\ round' # {}
    /\ UNCHANGED <<storageVars, sourceVars, pc, attempts, seedVars, queueVars, incidents>>

PublishScheduled(r) ==
    /\ r \in round
    /\ Delay(r)
    /\ round' = round \ {r}
    /\ UNCHANGED <<storageVars, sourceVars, pc, attempts, seedVars, bootstraps, incidents>>

(* The worker dies or Redis fails, and the rest of the round is lost.       *)
RoundLost ==
    /\ round # {}
    /\ round' = {}
    /\ Incident
    /\ UNCHANGED <<storageVars, sourceVars, pc, attempts, seedVars, queueVars>>

(* A worker takes a job; what becomes of the crawl is Pipeline's part.       *)
TakeJob(r) ==
    /\ jobs[r] > 0
    /\ jobs' = [jobs EXCEPT ![r] = @ - 1]
    /\ UNCHANGED <<storageVars, sourceVars, pc, attempts, seedVars, bootstraps, round, incidents>>

-----------------------------------------------------------------------------
StartupStep(a) ==
    \/ ReadSchema(a) \/ Migrate(a) \/ MigrationConflicts(a)
    \/ ListBuckets(a) \/ CreateBucket(a) \/ BucketRetry(a) \/ BucketFails(a)
    \/ ReadDomains(a) \/ InsertSources(a) \/ SeedConflicts(a) \/ CommitSeed(a)
    \/ PublishBootstrap(a) \/ Started(a)

Next ==
    \/ \E a \in Apis : Start(a) \/ Stop(a) \/ StartupStep(a)
    \/ CreateSource \/ Rename \/ Toggle
    \/ BeginRound \/ RoundLost
    \/ \E r \in Rows : PublishScheduled(r) \/ TakeJob(r)

Spec == Init /\ [][Next]_vars

(* Beat starts round after round, their tasks go on, and workers take jobs. *)
(* Nobody is assumed to start an API process.                               *)
FairSpec ==
    /\ Spec
    /\ WF_vars(BeginRound)
    /\ \A r \in Rows : WF_vars(PublishScheduled(r)) /\ WF_vars(TakeJob(r))

-----------------------------------------------------------------------------
(* Properties.                                                              *)

(* Every variable has its shape, and what a process has not finished dies   *)
(* with it.                                                                 *)
TypeOK ==
    /\ schema \in {"none", "old", "current"}
    /\ bucket \in BOOLEAN
    /\ domain \in [Rows -> Domains \cup {NoDomain}]
    /\ enabled \subseteq {r \in Rows : Exists(r)}
    /\ pc \in [Apis -> {"down", "schema", "migrate", "bucket", "create", "seed",
                        "insert", "commit", "publish", "up"}]
    /\ attempts \in [Apis -> 0 .. MaxAttempts - 1]
    /\ missing \in [Apis -> SUBSET Defaults]
    /\ created \in [Apis -> SUBSET Rows]
    /\ jobs \in [Rows -> 0 .. MaxJobs]
    /\ bootstraps \in [Rows -> Nat]
    /\ round \subseteq Rows
    /\ incidents \in 0 .. MaxIncidents
    /\ \A a \in Apis : pc[a] # "publish" => created[a] = {}

(* "Reloads do not enqueue existing sources again": however many processes  *)
(* start, together or again and again, a source gets one bootstrap crawl.   *)
BootstrapOnce == \A r \in Rows : bootstraps[r] <= 1

(* "On the first start, the API idempotently seeds": however processes that *)
(* read the domains before each other's commit, hand-made sources and       *)
(* renamings overlap, no domain is in the registry twice.                   *)
SeedsOnce == \A r, s \in Rows : Exists(r) /\ r # s => domain[r] # domain[s]

(* Workers take jobs of a source that stays enabled again and again, also   *)
(* when the process that created it died between the commit and its         *)
(* bootstrap job: a round does not depend on what was published before.     *)
EverySourceCrawled ==
    \A r \in Rows : <>[](r \in enabled) => []<><<TakeJob(r)>>_vars
=============================================================================
