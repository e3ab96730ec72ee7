------------------------ MODULE SourceRegistryProofs ------------------------
(***************************************************************************)
(* No domain is seeded twice and no source bootstrapped twice, for every   *)
(* number of API processes, defaults and rows.                             *)
(***************************************************************************)
EXTENDS SourceRegistry, TLAPS

(* What an API process does to its own variables only.                      *)
LocalStep(a) ==
    /\ UNCHANGED <<domain, enabled, jobs, bootstraps, round, incidents>>
    /\ \E label \in {"down", "schema", "migrate", "bucket", "create", "seed", "insert", "up"} :
          pc' = [pc EXCEPT ![a] = label]
    /\ missing' = missing \/ missing' = [missing EXCEPT ![a] = {}]
          \/ missing' = [missing EXCEPT ![a] = Defaults \ InUse]
    /\ \/ created' = created /\ created[a] = {}
       \/ created' = [created EXCEPT ![a] = {}]
    /\ schema' \in {schema, "current"}
    /\ bucket' \in {bucket, TRUE}
    /\ \/ attempts' = attempts
       \/ attempts' = [attempts EXCEPT ![a] = 0]
       \/ attempts[a] + 1 # MaxAttempts /\ attempts' = [attempts EXCEPT ![a] = @ + 1]

LocalActions(a) ==
    \/ Start(a) \/ Stop(a)
    \/ ReadSchema(a) \/ Migrate(a) \/ MigrationConflicts(a)
    \/ ListBuckets(a) \/ CreateBucket(a) \/ BucketRetry(a) \/ BucketFails(a)
    \/ ReadDomains(a) \/ SeedConflicts(a) \/ Started(a)

LEMMA LocalSteps ==
    ASSUME TypeOK, NEW a \in Apis, LocalActions(a)
    PROVE  LocalStep(a)
<1> USE DEF LocalStep, TypeOK, Goto, Ends, storageVars, sourceVars, seedVars, queueVars
<1>1. CASE Start(a) \/ ReadSchema(a) \/ Migrate(a) \/ ListBuckets(a) \/ CreateBucket(a)
  BY <1>1 DEF Start, ReadSchema, Migrate, ListBuckets, CreateBucket
<1>2. CASE Stop(a) \/ MigrationConflicts(a) \/ BucketFails(a) \/ SeedConflicts(a)
  BY <1>2 DEF Stop, MigrationConflicts, BucketFails, SeedConflicts
<1>3. CASE BucketRetry(a)
  BY <1>3 DEF BucketRetry, LastAttempt
<1>4. CASE ReadDomains(a) \/ Started(a)
  BY <1>4 DEF ReadDomains, Started
<1> QED
  BY <1>1, <1>2, <1>3, <1>4 DEF LocalActions

LEMMA LocalType ==
    ASSUME TypeOK, NEW a \in Apis, LocalStep(a)
    PROVE  TypeOK'
<1>1. attempts' \in [Apis -> 0 .. MaxAttempts - 1]
  BY RegistryAssumption DEF LocalStep, TypeOK
<1>2. missing' \in [Apis -> SUBSET Defaults] /\ created' \in [Apis -> SUBSET Rows]
  BY DEF LocalStep, TypeOK
<1>3. \A b \in Apis : pc'[b] # "publish" => created'[b] = {}
  BY DEF LocalStep, TypeOK
<1>4. pc' \in [Apis -> {"down", "schema", "migrate", "bucket", "create", "seed",
                        "insert", "commit", "publish", "up"}]
  BY DEF LocalStep, TypeOK
<1>5. enabled' \subseteq {r \in Rows : Exists(r)'}
  BY DEF LocalStep, TypeOK, Exists
<1>6. schema' \in {"none", "old", "current"} /\ bucket' \in BOOLEAN
  BY DEF LocalStep, TypeOK
<1>7. UNCHANGED <<domain, jobs, bootstraps, round, incidents>>
  BY DEF LocalStep
<1> QED
  BY <1>1, <1>2, <1>3, <1>4, <1>5, <1>6, <1>7 DEF TypeOK

-----------------------------------------------------------------------------
(* The rows that a commit inserts: the next row of each missing domain.     *)
SeededRows(a) == {r \in Rows : \E d \in missing[a] : NewRow(d, r)}

LEMMA NextRowIsUnique ==
    ASSUME NEW d, NEW r \in Rows, NEW s \in Rows, NewRow(d, r), NewRow(d, s)
    PROVE  r = s
<1>1. PICK n \in 1 .. MaxRows : r = <<d, n>>
  BY DEF Rows, NewRow
<1>2. PICK m \in 1 .. MaxRows : s = <<d, m>>
  BY DEF Rows, NewRow
<1>3. ~(n < m)
  BY <1>1, <1>2, RegistryAssumption DEF NewRow
<1>4. ~(m < n)
  BY <1>1, <1>2, RegistryAssumption DEF NewRow
<1>5. n = m
  BY <1>3, <1>4, RegistryAssumption
<1> QED
  BY <1>1, <1>2, <1>5

LEMMA CommitEffect ==
    ASSUME TypeOK, NEW a \in Apis, CommitSeed(a)
    PROVE  /\ domain' = [r \in Rows |-> IF r \in SeededRows(a) THEN r[1] ELSE domain[r]]
           /\ enabled' = enabled \cup SeededRows(a)
           /\ created' = [created EXCEPT ![a] = SeededRows(a)]
           /\ missing' = [missing EXCEPT ![a] = {}]
           /\ pc[a] = "commit" /\ pc' = [pc EXCEPT ![a] = "publish"]
           /\ UNCHANGED <<schema, bucket, attempts, jobs, bootstraps, round, incidents>>
           /\ \A r \in SeededRows(a) : ~Exists(r) /\ r[1] \in missing[a] /\ r[1] # NoDomain
<1>1. \A r \in SeededRows(a) : ~Exists(r) /\ r[1] \in missing[a]
  BY DEF SeededRows, NewRow
<1>2. missing[a] \subseteq Defaults /\ NoDomain \notin Defaults
  BY RegistryAssumption DEF TypeOK, Domains
<1> QED
  BY <1>1, <1>2 DEF CommitSeed, SeededRows, Enqueues, Goto, storageVars, queueVars

LEMMA CommitType ==
    ASSUME TypeOK, NEW a \in Apis, CommitSeed(a)
    PROVE  TypeOK'
<1>1. SeededRows(a) \subseteq Rows
  BY DEF SeededRows
<1>2. domain' \in [Rows -> Domains \cup {NoDomain}]
  BY CommitEffect DEF TypeOK, Domains
<1>3. enabled' \subseteq {r \in Rows : Exists(r)'}
  BY <1>1, CommitEffect DEF TypeOK, Exists
<1>4. pc' \in [Apis -> {"down", "schema", "migrate", "bucket", "create", "seed",
                        "insert", "commit", "publish", "up"}]
  BY CommitEffect DEF TypeOK
<1>5. missing' \in [Apis -> SUBSET Defaults] /\ created' \in [Apis -> SUBSET Rows]
  BY <1>1, CommitEffect DEF TypeOK
<1>6. \A b \in Apis : pc'[b] # "publish" => created'[b] = {}
  BY CommitEffect DEF TypeOK
<1> QED
  BY <1>2, <1>3, <1>4, <1>5, <1>6, CommitEffect DEF TypeOK

(* Operators change the registry, and nothing else.                         *)
OperatorStep ==
    /\ UNCHANGED <<schema, bucket, pc, attempts, missing, created, jobs, bootstraps, round>>
    /\ incidents < MaxIncidents /\ incidents' = incidents + 1
    /\ \/ \E r \in Rows, d \in Domains :
             /\ IsFree(d) /\ domain' = [domain EXCEPT ![r] = d]
             /\ enabled' \in {enabled, enabled \cup {r}}
       \/ /\ UNCHANGED domain
          /\ \E r \in Rows : Exists(r) /\ enabled' \in {enabled \ {r}, enabled \cup {r}}

LEMMA OperatorSteps ==
    ASSUME TypeOK, CreateSource \/ Rename \/ Toggle
    PROVE  OperatorStep
<1>1. \A r \in Rows : r[1] \in Domains
  BY DEF Rows
<1>2. CASE CreateSource
  <2>1. PICK r \in Rows : /\ IsFree(r[1]) /\ NewRow(r[1], r)
                          /\ domain' = [domain EXCEPT ![r] = r[1]]
                          /\ enabled' \in {enabled, enabled \cup {r}}
    BY <1>2 DEF CreateSource
  <2> QED
    BY <1>1, <1>2, <2>1
    DEF CreateSource, OperatorStep, Change, Incident, storageVars, seedVars, queueVars
<1>3. CASE Rename
  BY <1>3 DEF Rename, OperatorStep, Change, Incident, storageVars, seedVars, queueVars
<1>4. CASE Toggle
  BY <1>4 DEF Toggle, OperatorStep, Change, Incident, storageVars, seedVars, queueVars
<1> QED
  BY <1>2, <1>3, <1>4

LEMMA OperatorType ==
    ASSUME TypeOK, OperatorStep
    PROVE  TypeOK'
<1>1. incidents' \in 0 .. MaxIncidents
  BY RegistryAssumption DEF OperatorStep, TypeOK
<1>2. domain' \in [Rows -> Domains \cup {NoDomain}]
  BY DEF OperatorStep, TypeOK
<1>3. enabled' \subseteq {r \in Rows : Exists(r)'}
  BY RegistryAssumption DEF OperatorStep, TypeOK, Exists
<1> QED
  BY <1>1, <1>2, <1>3 DEF OperatorStep, TypeOK

LEMMA BootstrapType ==
    ASSUME TypeOK, NEW a \in Apis, PublishBootstrap(a)
    PROVE  TypeOK'
<1>1. PICK s \in created[a] :
          /\ jobs[s] < MaxJobs /\ jobs' = [jobs EXCEPT ![s] = @ + 1]
          /\ bootstraps' = [bootstraps EXCEPT ![s] = @ + 1]
          /\ created' = [created EXCEPT ![a] = @ \ {s}]
  BY DEF PublishBootstrap, Delay
<1>2. s \in Rows
  BY <1>1 DEF TypeOK
<1>3. jobs' \in [Rows -> 0 .. MaxJobs] /\ bootstraps' \in [Rows -> Nat]
  BY <1>1, <1>2, RegistryAssumption DEF TypeOK
<1>4. created' \in [Apis -> SUBSET Rows]
  BY <1>1 DEF TypeOK
<1>5. \A b \in Apis : created[b] = {} => created'[b] = {}
  BY <1>1 DEF TypeOK
<1> QED
  BY <1>3, <1>4, <1>5 DEF PublishBootstrap, TypeOK, Exists, storageVars, sourceVars

(* A round, and the workers, touch the queue only.                          *)
QueueStep ==
    /\ UNCHANGED <<domain, enabled, pc, missing, created, bootstraps>>
    /\ BeginRound \/ RoundLost \/ \E r \in Rows : PublishScheduled(r) \/ TakeJob(r)

LEMMA QueueType ==
    ASSUME TypeOK, QueueStep
    PROVE  TypeOK'
<1> USE DEF storageVars, sourceVars, seedVars, queueVars
<1>1. CASE \E r \in Rows : PublishScheduled(r) \/ TakeJob(r)
  <2>1. PICK r \in Rows : PublishScheduled(r) \/ TakeJob(r)
    BY <1>1
  <2>2. jobs' \in [Rows -> 0 .. MaxJobs]
    BY <2>1, RegistryAssumption DEF PublishScheduled, Delay, TakeJob, TypeOK
  <2> QED
    BY <2>1, <2>2 DEF PublishScheduled, TakeJob, TypeOK, Exists
<1>2. CASE BeginRound
  <2>1. round' \subseteq Rows
    BY <1>2 DEF BeginRound, EnabledSources, TypeOK
  <2> QED
    BY <1>2, <2>1 DEF BeginRound, TypeOK, Exists
<1>3. CASE RoundLost
  <2>1. incidents' \in 0 .. MaxIncidents
    BY <1>3, RegistryAssumption DEF RoundLost, Incident, TypeOK
  <2> QED
    BY <1>3, <2>1 DEF RoundLost, TypeOK, Exists
<1> QED
  BY <1>1, <1>2, <1>3 DEF QueueStep

LEMMA InsertType ==
    ASSUME TypeOK, NEW a \in Apis, InsertSources(a)
    PROVE  TypeOK'
<1>1. pc' = [pc EXCEPT ![a] = "commit"] /\ pc[a] = "insert"
  BY DEF InsertSources, Goto
<1>2. pc' \in [Apis -> {"down", "schema", "migrate", "bucket", "create", "seed",
                        "insert", "commit", "publish", "up"}]
  BY <1>1 DEF TypeOK
<1>3. \A b \in Apis : pc'[b] # "publish" => created[b] = {}
  BY <1>1 DEF TypeOK
<1> QED
  BY <1>2, <1>3 DEF InsertSources, TypeOK, Exists, storageVars, sourceVars, seedVars, queueVars

(* Every step of Next by its kind.                                          *)
LEMMA NextCases ==
    ASSUME TypeOK, Next
    PROVE  \/ \E a \in Apis : LocalStep(a) \/ InsertSources(a) \/ CommitSeed(a)
                             \/ PublishBootstrap(a)
           \/ OperatorStep
           \/ QueueStep
<1>1. ASSUME NEW a \in Apis, Start(a) \/ Stop(a) \/ StartupStep(a)
      PROVE  LocalStep(a) \/ InsertSources(a) \/ CommitSeed(a) \/ PublishBootstrap(a)
  <2>1. LocalActions(a) \/ InsertSources(a) \/ CommitSeed(a) \/ PublishBootstrap(a)
    BY <1>1 DEF StartupStep, LocalActions
  <2> QED
    BY <2>1, LocalSteps
<1> QED
  BY <1>1, OperatorSteps DEF Next, QueueStep, BeginRound, RoundLost, PublishScheduled, TakeJob,
                             storageVars, sourceVars, seedVars, queueVars

LEMMA TypeNext == TypeOK /\ [Next]_vars => TypeOK'
<1>1. CASE UNCHANGED vars
  BY <1>1 DEF vars, storageVars, sourceVars, seedVars, queueVars, TypeOK, Exists
<1>2. CASE Next
  BY <1>2, NextCases, LocalType, InsertType, CommitType, BootstrapType, OperatorType, QueueType
<1> QED
  BY <1>1, <1>2

LEMMA TypeInit == Init => TypeOK
<1> SUFFICES ASSUME Init PROVE TypeOK
  OBVIOUS
<1>1. attempts \in [Apis -> 0 .. MaxAttempts - 1] /\ jobs \in [Rows -> 0 .. MaxJobs]
  BY RegistryAssumption DEF Init
<1>2. bootstraps \in [Rows -> Nat] /\ incidents \in 0 .. MaxIncidents
  BY RegistryAssumption DEF Init
<1>3. domain \in [Rows -> Domains \cup {NoDomain}] /\ enabled \subseteq {r \in Rows : Exists(r)}
  BY DEF Init
<1>4. /\ missing \in [Apis -> SUBSET Defaults] /\ created \in [Apis -> SUBSET Rows]
      /\ \A a \in Apis : created[a] = {}
  BY DEF Init
<1>5. pc \in [Apis -> {"down", "schema", "migrate", "bucket", "create", "seed",
                       "insert", "commit", "publish", "up"}]
  BY DEF Init
<1> QED
  BY <1>1, <1>2, <1>3, <1>4, <1>5 DEF Init, TypeOK

(* Every variable of the registry keeps its shape, whatever stops when.     *)
THEOREM RegistryTypeCorrect == Spec => []TypeOK
BY TypeInit, TypeNext, PTL DEF Spec

-----------------------------------------------------------------------------
(* What a process is about to insert is in nobody else's reach: not in the  *)
(* registry, and not in another uncommitted insert.                         *)
SeedInv ==
    /\ TypeOK
    /\ SeedsOnce
    /\ \A a \in Apis : pc[a] = "commit" => missing[a] \cap InUse = {}
    /\ \A a, b \in Apis : pc[a] = "commit" /\ pc[b] = "commit" /\ a # b
                           => missing[a] \cap missing[b] = {}

LEMMA InUseIs == ASSUME NEW d PROVE d \in InUse <=> \E r \in Rows : Exists(r) /\ domain[r] = d
BY DEF InUse

LEMMA SeedFrame ==
    ASSUME SeedInv, TypeOK', UNCHANGED domain,
           \A b \in Apis : pc'[b] = "commit" => pc[b] = "commit" /\ missing'[b] = missing[b]
    PROVE  SeedInv'
<1>1. InUse' = InUse /\ SeedsOnce'
  BY DEF SeedInv, SeedsOnce, InUse, Exists
<1> QED
  BY <1>1 DEF SeedInv

LEMMA SeedInsert ==
    ASSUME SeedInv, TypeOK', NEW a \in Apis, InsertSources(a)
    PROVE  SeedInv'
<1>1. /\ pc' = [pc EXCEPT ![a] = "commit"] /\ UNCHANGED <<domain, missing>>
      /\ missing[a] \cap InUse = {}
      /\ \A o \in Apis : o # a /\ pc[o] = "commit" => missing[a] \cap missing[o] = {}
  BY DEF InsertSources, Conflicts, Awaits, Holds, Goto, sourceVars, seedVars
<1>2. InUse' = InUse /\ SeedsOnce'
  BY <1>1 DEF SeedInv, SeedsOnce, InUse, Exists
<1> QED
  BY <1>1, <1>2 DEF SeedInv, TypeOK

LEMMA SeedCommit ==
    ASSUME SeedInv, TypeOK', NEW a \in Apis, CommitSeed(a)
    PROVE  SeedInv'
<1>1. /\ domain' = [r \in Rows |-> IF r \in SeededRows(a) THEN r[1] ELSE domain[r]]
      /\ missing' = [missing EXCEPT ![a] = {}]
      /\ pc[a] = "commit" /\ pc' = [pc EXCEPT ![a] = "publish"]
      /\ \A r \in SeededRows(a) : ~Exists(r) /\ r[1] \in missing[a] /\ r[1] # NoDomain
  BY CommitEffect DEF SeedInv
<1>2. missing[a] \cap InUse = {}
  BY <1>1 DEF SeedInv
<1>3. \A r, s \in SeededRows(a) : r # s => r[1] # s[1]
  BY NextRowIsUnique DEF SeededRows, NewRow
<1>4. SeedsOnce'
  <2> SUFFICES ASSUME NEW r \in Rows, NEW s \in Rows, Exists(r)', r # s
               PROVE  domain'[r] # domain'[s]
    BY DEF SeedsOnce
  <2>1. CASE r \in SeededRows(a) /\ s \in SeededRows(a)
    BY <1>1, <1>3, <2>1
  <2>2. CASE r \in SeededRows(a) /\ s \notin SeededRows(a)
    BY <1>1, <1>2, <2>2 DEF InUse, Exists
  <2>3. CASE r \notin SeededRows(a) /\ s \in SeededRows(a)
    BY <1>1, <1>2, <2>3 DEF InUse, Exists
  <2>4. CASE r \notin SeededRows(a) /\ s \notin SeededRows(a)
    BY <1>1, <2>4 DEF SeedInv, SeedsOnce, Exists
  <2> QED
    BY <2>1, <2>2, <2>3, <2>4
<1>5. InUse' \subseteq InUse \cup missing[a]
  BY <1>1 DEF InUse, Exists
<1>6. \A b \in Apis : pc'[b] = "commit" => b # a /\ pc[b] = "commit" /\ missing'[b] = missing[b]
  BY <1>1 DEF SeedInv, TypeOK
<1>7. ASSUME NEW b \in Apis, pc'[b] = "commit" PROVE missing'[b] \cap InUse' = {}
  <2>1. missing[b] \cap InUse = {} /\ missing[b] \cap missing[a] = {}
    BY <1>1, <1>6, <1>7 DEF SeedInv
  <2> QED
    BY <1>5, <1>6, <1>7, <2>1
<1> QED
  BY <1>4, <1>6, <1>7 DEF SeedInv

LEMMA SeedOperator ==
    ASSUME SeedInv, TypeOK', OperatorStep
    PROVE  SeedInv'
<1>1. CASE UNCHANGED domain
  BY <1>1, SeedFrame DEF OperatorStep
<1>2. ASSUME NEW r \in Rows, NEW d \in Domains, IsFree(d), domain' = [domain EXCEPT ![r] = d]
      PROVE  SeedInv'
  <2>1. UNCHANGED <<pc, missing>>
    BY DEF OperatorStep
  <2>2. d \notin InUse /\ \A a \in Apis : pc[a] = "commit" => d \notin missing[a]
    BY <1>2 DEF IsFree, Holds
  <2>3. d # NoDomain
    BY RegistryAssumption
  <2>4. \A s \in Rows : domain'[s] = IF s = r THEN d ELSE domain[s]
    BY <1>2 DEF SeedInv, TypeOK
  <2>5. SeedsOnce'
    BY <2>2, <2>3, <2>4 DEF SeedInv, SeedsOnce, InUse, Exists
  <2>6. InUse' \subseteq InUse \cup {d}
    BY <2>4 DEF InUse, Exists
  <2> QED
    BY <2>1, <2>2, <2>5, <2>6 DEF SeedInv
<1> QED
  BY <1>1, <1>2 DEF OperatorStep

LEMMA SeedNext == SeedInv /\ [Next]_vars => SeedInv'
<1> SUFFICES ASSUME SeedInv, [Next]_vars PROVE SeedInv'
  OBVIOUS
<1>0. TypeOK /\ TypeOK'
  BY TypeNext DEF SeedInv
<1>1. ASSUME NEW a \in Apis, LocalStep(a) PROVE SeedInv'
  <2>1. UNCHANGED domain
    BY <1>1 DEF LocalStep
  <2>2. \A b \in Apis : pc'[b] = "commit" => pc[b] = "commit" /\ missing'[b] = missing[b]
    BY <1>0, <1>1 DEF LocalStep, TypeOK
  <2> QED
    BY <1>0, <2>1, <2>2, SeedFrame
<1>2. ASSUME NEW a \in Apis, PublishBootstrap(a) PROVE SeedInv'
  BY <1>0, <1>2, SeedFrame DEF PublishBootstrap, sourceVars
<1>3. CASE QueueStep
  BY <1>0, <1>3, SeedFrame DEF QueueStep
<1>4. CASE UNCHANGED vars
  BY <1>0, <1>4, SeedFrame DEF vars, sourceVars, seedVars
<1> QED
  BY <1>0, <1>1, <1>2, <1>3, <1>4, NextCases, SeedInsert, SeedCommit, SeedOperator

(* No domain is ever in the registry twice: however many processes read the *)
(* domains before each other's commit, and whatever operators add or rename *)
(* in between, one insert wins and the others find the conflict.            *)
THEOREM SeededOnce == Spec => []SeedsOnce
<1>1. Init => SeedInv
  BY TypeInit DEF Init, SeedInv, SeedsOnce, Exists
<1>2. SeedInv => SeedsOnce
  BY DEF SeedInv
<1> QED
  BY <1>1, <1>2, SeedNext, PTL DEF Spec

-----------------------------------------------------------------------------
(* A row that a process has yet to enqueue exists, has no bootstrap job so  *)
(* far, and is in no other process's hands.                                 *)
BootstrapInv ==
    /\ TypeOK
    /\ \A a \in Apis : \A r \in created[a] : Exists(r) /\ bootstraps[r] = 0
    /\ \A a, b \in Apis : a # b => created[a] \cap created[b] = {}
    /\ \A r \in Rows : ~Exists(r) => bootstraps[r] = 0
    /\ BootstrapOnce

LEMMA BootstrapFrame ==
    ASSUME BootstrapInv, TypeOK', UNCHANGED bootstraps,
           \A r \in Rows : Exists(r) => Exists(r)',
           \A a \in Apis : created'[a] \subseteq created[a]
    PROVE  BootstrapInv'
<1>1. \A a \in Apis : created[a] \subseteq Rows
  BY DEF BootstrapInv, TypeOK
<1>2. BootstrapOnce'
  BY DEF BootstrapInv, BootstrapOnce
<1> QED
  BY <1>1, <1>2 DEF BootstrapInv

LEMMA BootstrapCommit ==
    ASSUME BootstrapInv, TypeOK', NEW a \in Apis, CommitSeed(a)
    PROVE  BootstrapInv'
<1>1. /\ domain' = [r \in Rows |-> IF r \in SeededRows(a) THEN r[1] ELSE domain[r]]
      /\ created' = [created EXCEPT ![a] = SeededRows(a)]
      /\ UNCHANGED bootstraps
      /\ \A r \in SeededRows(a) : ~Exists(r) /\ r[1] # NoDomain
  BY CommitEffect DEF BootstrapInv
<1>2. \A r \in Rows : Exists(r)' <=> Exists(r) \/ r \in SeededRows(a)
  BY <1>1 DEF Exists
<1>3. SeededRows(a) \subseteq Rows /\ \A b \in Apis : created[b] \subseteq Rows
  BY DEF SeededRows, BootstrapInv, TypeOK
<1>4. \A b \in Apis : created'[b] = IF b = a THEN SeededRows(a) ELSE created[b]
  BY <1>1 DEF BootstrapInv, TypeOK
<1>5. \A b \in Apis : \A r \in created'[b] : Exists(r)' /\ bootstraps'[r] = 0
  BY <1>1, <1>2, <1>3, <1>4 DEF BootstrapInv
<1>6. \A b, c \in Apis : b # c => created'[b] \cap created'[c] = {}
  BY <1>1, <1>4 DEF BootstrapInv
<1>7. \A r \in Rows : ~Exists(r)' => bootstraps'[r] = 0
  BY <1>1, <1>2 DEF BootstrapInv
<1>8. BootstrapOnce'
  BY <1>1 DEF BootstrapInv, BootstrapOnce
<1> QED
  BY <1>5, <1>6, <1>7, <1>8 DEF BootstrapInv

LEMMA BootstrapPublish ==
    ASSUME BootstrapInv, TypeOK', NEW a \in Apis, PublishBootstrap(a)
    PROVE  BootstrapInv'
<1>1. PICK s \in created[a] :
          /\ bootstraps' = [bootstraps EXCEPT ![s] = @ + 1]
          /\ created' = [created EXCEPT ![a] = @ \ {s}]
  BY DEF PublishBootstrap
<1>2. UNCHANGED domain
  BY DEF PublishBootstrap, sourceVars
<1>3. s \in Rows /\ Exists(s) /\ bootstraps[s] = 0
  BY <1>1 DEF BootstrapInv, TypeOK
<1>4. bootstraps'[s] = 1 /\ \A r \in Rows : r # s => bootstraps'[r] = bootstraps[r]
  BY <1>1, <1>3 DEF BootstrapInv, TypeOK
<1>5. \A b \in Apis : created'[b] = IF b = a THEN created[a] \ {s} ELSE created[b]
  BY <1>1 DEF BootstrapInv, TypeOK
<1>6. \A b \in Apis : created[b] \subseteq Rows /\ s \notin created'[b]
  BY <1>1, <1>5 DEF BootstrapInv, TypeOK
<1>7. \A b \in Apis : \A r \in created'[b] : Exists(r)' /\ bootstraps'[r] = 0
  BY <1>2, <1>4, <1>5, <1>6 DEF BootstrapInv, Exists
<1>8. \A b, c \in Apis : b # c => created'[b] \cap created'[c] = {}
  BY <1>5 DEF BootstrapInv
<1>9. \A r \in Rows : ~Exists(r)' => bootstraps'[r] = 0
  BY <1>2, <1>3, <1>4 DEF BootstrapInv, Exists
<1>10. BootstrapOnce'
  BY <1>4 DEF BootstrapInv, BootstrapOnce
<1> QED
  BY <1>7, <1>8, <1>9, <1>10 DEF BootstrapInv

LEMMA BootstrapNext == BootstrapInv /\ [Next]_vars => BootstrapInv'
<1> SUFFICES ASSUME BootstrapInv, [Next]_vars PROVE BootstrapInv'
  OBVIOUS
<1>0. TypeOK /\ TypeOK'
  BY TypeNext DEF BootstrapInv
<1>1. ASSUME NEW a \in Apis, LocalStep(a) PROVE BootstrapInv'
  <2>1. UNCHANGED <<domain, bootstraps>> /\ \A b \in Apis : created'[b] \subseteq created[b]
    BY <1>0, <1>1 DEF LocalStep, TypeOK
  <2> QED
    BY <1>0, <2>1, BootstrapFrame DEF Exists
<1>2. ASSUME NEW a \in Apis, InsertSources(a) PROVE BootstrapInv'
  BY <1>0, <1>2, BootstrapFrame DEF InsertSources, Exists, sourceVars, seedVars, queueVars
<1>3. CASE OperatorStep
  <2>1. UNCHANGED <<created, bootstraps>>
    BY <1>3 DEF OperatorStep
  <2>2. \A r \in Rows : Exists(r) => Exists(r)'
    BY <1>0, <1>3, RegistryAssumption DEF OperatorStep, Exists, TypeOK
  <2> QED
    BY <1>0, <2>1, <2>2, BootstrapFrame
<1>4. CASE QueueStep
  BY <1>0, <1>4, BootstrapFrame DEF QueueStep, Exists
<1>5. CASE UNCHANGED vars
  BY <1>0, <1>5, BootstrapFrame DEF vars, sourceVars, seedVars, queueVars, Exists
<1> QED
  BY <1>0, <1>1, <1>2, <1>3, <1>4, <1>5, NextCases, BootstrapCommit, BootstrapPublish

(* A source gets at most one bootstrap crawl, however often the API is      *)
(* started, reloaded or killed.                                             *)
THEOREM BootstrappedOnce == Spec => []BootstrapOnce
<1>1. Init => BootstrapInv
  BY TypeInit DEF Init, BootstrapInv, BootstrapOnce, Exists
<1>2. BootstrapInv => BootstrapOnce
  BY DEF BootstrapInv
<1> QED
  BY <1>1, <1>2, BootstrapNext, PTL DEF Spec
=============================================================================
