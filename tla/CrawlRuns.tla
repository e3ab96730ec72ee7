------------------------------ MODULE CrawlRuns ------------------------------
(***************************************************************************)
(* The life of a CrawlRun row and of the Celery job that executes it       *)
(* (crawl_source_task and crawl_enabled_sources_task of worker.py; the     *)
(* enqueue, approval and synchronous crawl handlers of api.py).            *)
(*                                                                         *)
(* A handler commits the row "queued", then publishes the job, then writes *)
(* the job's id into the row; a worker that takes the job meanwhile writes *)
(* the same row.  A job that names no row gets one when it starts.  What a *)
(* crawl collects and the row's outcome are two commits.                   *)
(*                                                                         *)
(* Redis and Celery are external: Celery acknowledges a job when it starts *)
(* (task_acks_late is not set), so a job dies with its worker; a job kept  *)
(* waiting longer than the broker's visibility timeout is delivered twice. *)
(***************************************************************************)
EXTENDS Naturals, FiniteSets

CONSTANTS
    Runs, NoRun,
    Jobs, NoJob,   \* Celery task ids
    Workers,
    Handlers,      \* API requests that may overlap
    MaxCrashes,    \* bound: workers and API processes that die
    MaxDuplicates  \* bound: jobs delivered twice

Processes == Workers \cup Handlers

ASSUME CrawlRunsAssumption ==
    /\ NoRun \notin Runs /\ NoJob \notin Jobs
    /\ Workers \cap Handlers = {}
    /\ MaxCrashes \in Nat /\ MaxDuplicates \in Nat

VARIABLES
    status,     \* CrawlRun.status, "none" = no row
    taskId,     \* CrawlRun.task_id
    broker,     \* jobs published and not yet taken
    names,      \* the row each published job names
    used,       \* task ids given out
    pc, run, job,
    crawled,    \* history: the runs whose crawl has committed
    raised,     \* history: the runs whose last execution raised
    executes,   \* history: <<job, run>>, a worker wrote "running" for the job
    lost,       \* history: jobs that died with their worker
    crashes, duplicates

rowVars == <<status, taskId>>
brokerVars == <<broker, names, used, duplicates>>
processVars == <<pc, run, job>>
historyVars == <<crawled, raised, executes, lost>>
vars == <<rowVars, brokerVars, processVars, historyVars, crashes>>

Init ==
    /\ status = [r \in Runs |-> "none"]
    /\ taskId = [r \in Runs |-> NoJob]
    /\ broker = {} /\ used = {}
    /\ names = [j \in Jobs |-> NoRun]
    /\ pc = [p \in Processes |-> "idle"]
    /\ run = [p \in Processes |-> NoRun]
    /\ job = [p \in Processes |-> NoJob]
    /\ crawled = {} /\ raised = {} /\ executes = {} /\ lost = {}
    /\ crashes = 0 /\ duplicates = 0

(* Fresh ids: a row's UUID is drawn before its INSERT, a job's by delay().  *)
UnusedRuns == {r \in Runs : status[r] = "none" /\ \A p \in Processes : run[p] # r}

Step(p, label, r, j) ==
    /\ pc' = [pc EXCEPT ![p] = label]
    /\ run' = [run EXCEPT ![p] = r]
    /\ job' = [job EXCEPT ![p] = j]

Stop(p) == Step(p, "idle", NoRun, NoJob)

-----------------------------------------------------------------------------
(* enqueue_source and approve_source_candidate: row, job, the job's id.     *)

EnqueueUncommitted(h, r) ==
    /\ Step(h, "publish", r, NoJob)
    /\ UNCHANGED status
EnqueueCommitted(h, r) ==
    /\ Step(h, "publish", r, NoJob)
    /\ status' = [status EXCEPT ![r] = "queued"]

EnqueueSource(h) ==
    /\ pc[h] = "idle"
    /\ \E r \in UnusedRuns : EnqueueCommitted(h, r)
    /\ UNCHANGED <<taskId, brokerVars, historyVars, crashes>>

Delay(j, r) ==
    /\ j \notin used
    /\ used' = used \cup {j}
    /\ names' = [names EXCEPT ![j] = r]
    /\ broker' = broker \cup {j}
    /\ UNCHANGED duplicates

Publish(h) ==
    /\ pc[h] = "publish"
    /\ \E j \in Jobs : Delay(j, run[h]) /\ Step(h, "note", run[h], j)
    /\ UNCHANGED <<rowVars, historyVars, crashes>>

(* Redis cannot be reached: the request fails, its row is committed.        *)
PublishFails(h) ==
    /\ pc[h] = "publish"
    /\ Stop(h)
    /\ UNCHANGED <<rowVars, brokerVars, historyVars, crashes>>

NoteWholeRow(r, j) ==
    /\ taskId' = [taskId EXCEPT ![r] = j]
    /\ status' = [status EXCEPT ![r] = "queued"]
NoteId(r, j) ==
    /\ taskId' = [taskId EXCEPT ![r] = j]
    /\ UNCHANGED status

(* Only task_id has changed in the handler's session, so only it is written. *)
NoteTask(h) ==
    /\ pc[h] = "note"
    /\ NoteId(run[h], job[h])
    /\ Stop(h)
    /\ UNCHANGED <<brokerVars, historyVars, crashes>>

(* crawl_enabled_sources_task, seeding, an auto-approval: a job without row. *)
Schedule ==
    /\ \E j \in Jobs : Delay(j, NoRun)
    /\ UNCHANGED <<rowVars, processVars, historyVars, crashes>>

-----------------------------------------------------------------------------
(* crawl_source_task                                                        *)

TakeJob(w) ==
    /\ pc[w] = "idle"
    /\ \E j \in broker :
          /\ \/ broker' = broker \ {j} /\ UNCHANGED duplicates
             \/ /\ duplicates < MaxDuplicates
                /\ duplicates' = duplicates + 1
                /\ UNCHANGED broker
          /\ \E r \in IF names[j] = NoRun THEN UnusedRuns ELSE {names[j]} :
                Step(w, "begin", r, j)
    /\ UNCHANGED <<rowVars, names, used, historyVars, crashes>>

LeaveTaskId(r, j) == UNCHANGED taskId
SetRunId(r, j) == taskId' = [taskId EXCEPT ![r] = r]
SetTaskId(r, j) == taskId' = [taskId EXCEPT ![r] = j]

(* The job's row, or a new one, becomes "running" and is committed.         *)
BeginRun(w) ==
    /\ pc[w] = "begin"
    /\ \E r \in IF names[job[w]] = NoRun \/ status[run[w]] # "none"
                 THEN {run[w]} ELSE UnusedRuns :
          /\ status' = [status EXCEPT ![r] = "running"]
          /\ SetTaskId(r, job[w])
          /\ executes' = executes \cup {<<job[w], r>>}
          /\ raised' = raised \ {r}
          /\ Step(w, "crawl", r, job[w])
    /\ UNCHANGED <<brokerVars, crawled, lost, crashes>>

(* run_source, the synchronous crawl of the API.                            *)
BeginSyncRun(h) ==
    /\ pc[h] = "idle"
    /\ \E r \in UnusedRuns :
          /\ status' = [status EXCEPT ![r] = "running"]
          /\ Step(h, "crawl", r, NoJob)
    /\ UNCHANGED <<taskId, brokerVars, historyVars, crashes>>

(* crawl_source commits what it has collected.                              *)
ReportEarly(p) ==
    /\ status' = [status EXCEPT ![run[p]] = "succeeded"]
    /\ UNCHANGED crawled
CommitCrawl(p) ==
    /\ crawled' = crawled \cup {run[p]}
    /\ UNCHANGED status

Crawl(p) ==
    /\ pc[p] = "crawl"
    /\ CommitCrawl(p)
    /\ Step(p, "report", run[p], job[p])
    /\ UNCHANGED <<taskId, brokerVars, raised, executes, lost, crashes>>

(* crawl_source raises.  The rollback expires the run, the handler reads    *)
(* run.id of the expired row outside a greenlet and raises in its turn:     *)
(* nothing is written (run_source does the same, and for ValueError only).  *)
CrawlRaises(p) ==
    /\ pc[p] = "crawl"
    /\ raised' = raised \cup {run[p]}
    /\ Stop(p)
    /\ UNCHANGED <<rowVars, brokerVars, crawled, executes, lost, crashes>>

ReportRun(p) ==
    /\ pc[p] = "report"
    /\ status' = [status EXCEPT ![run[p]] = "succeeded"]
    /\ Stop(p)
    /\ UNCHANGED <<taskId, brokerVars, historyVars, crashes>>

Crash(p) ==
    /\ pc[p] # "idle"
    /\ crashes < MaxCrashes
    /\ crashes' = crashes + 1
    /\ lost' = IF p \in Workers THEN lost \cup {job[p]} ELSE lost
    /\ Stop(p)
    /\ UNCHANGED <<rowVars, brokerVars, crawled, raised, executes>>

-----------------------------------------------------------------------------
ExecuteStep(p) == Crawl(p) \/ CrawlRaises(p) \/ ReportRun(p)
WorkerStep(w) == TakeJob(w) \/ BeginRun(w) \/ ExecuteStep(w)
HandlerStep(h) ==
    \/ EnqueueSource(h) \/ Publish(h) \/ PublishFails(h) \/ NoteTask(h)
    \/ BeginSyncRun(h) \/ ExecuteStep(h)

Next ==
    \/ Schedule
    \/ \E h \in Handlers : HandlerStep(h)
    \/ \E w \in Workers : WorkerStep(w)
    \/ \E p \in Processes : Crash(p)

Spec == Init /\ [][Next]_vars

(* Workers that are up take jobs and finish them; a crawl has timeouts.     *)
FairSpec == Spec /\ \A w \in Workers : WF_vars(WorkerStep(w))

-----------------------------------------------------------------------------
(* Properties.                                                              *)

(* Rows, jobs and processes have the values their columns allow.            *)
TypeOK ==
    /\ status \in [Runs -> {"none", "queued", "running", "succeeded"}]
    /\ taskId \in [Runs -> Jobs \cup {NoJob}]
    /\ broker \subseteq used /\ used \subseteq Jobs
    /\ names \in [Jobs -> Runs \cup {NoRun}]
    /\ pc \in [Processes -> {"idle", "publish", "note", "begin", "crawl", "report"}]
    /\ run \in [Processes -> Runs \cup {NoRun}]
    /\ job \in [Processes -> Jobs \cup {NoJob}]

(* A run is reported as succeeded only if its crawl has been committed,     *)
(* wherever a worker dies and however often the job is delivered.           *)
SucceededHasCrawled == \A r \in Runs : status[r] = "succeeded" => r \in crawled

(* A job that was published for a row is recorded in that row and no other: *)
(* a worker never overtakes the handler's commit and opens a second row.    *)
JobKeepsItsRow == \A e \in executes : names[e[1]] # NoRun => e[2] = names[e[1]]

(* task_id of a row names the job that runs it, although the handler writes *)
(* it after publishing, perhaps after the run has ended.                    *)
TaskIdNamesJob ==
    \A w \in Workers : pc[w] \in {"crawl", "report"} => taskId[run[w]] = job[w]

(* A row that has been started never reads "queued" again, although the     *)
(* handler still holds it as it was before it published the job.            *)
NeverQueuedAgain ==
    [][\A r \in Runs :
          status[r] \in {"running", "succeeded"} => status'[r] # "queued"]_vars

(* A row whose job was published is started, or its worker dies.            *)
PublishedRunStarts ==
    \A j \in Jobs, r \in Runs :
        names[j] = r ~>
            j \in lost \/ status[r] \in {"running", "succeeded"}

(* The handlers of worker.py and api.py mean to record a crawl that raises. *)
FailedRunRecorded == \A r \in raised : status[r] = "failed"
=============================================================================
