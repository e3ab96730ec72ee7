--------------------------- MODULE CrawlRunsProofs ---------------------------
(***************************************************************************)
(* For any number of rows, jobs, workers and requests, crashes and double  *)
(* deliveries included: a row that says "succeeded" has been crawled, rows *)
(* and jobs stay matched, and a row once started is never queued again.    *)
(***************************************************************************)
EXTENDS CrawlRuns, TLAPS

(* What every step but the one of process p leaves alone.                   *)
LEMMA StepFrame ==
    ASSUME TypeOK, NEW p \in Processes,
           NEW label \in {"idle", "publish", "note", "begin", "crawl", "report"},
           NEW r \in Runs \cup {NoRun}, NEW j \in Jobs \cup {NoJob},
           Step(p, label, r, j)
    PROVE  /\ pc' \in [Processes -> {"idle", "publish", "note", "begin", "crawl", "report"}]
           /\ run' \in [Processes -> Runs \cup {NoRun}]
           /\ job' \in [Processes -> Jobs \cup {NoJob}]
           /\ pc'[p] = label /\ run'[p] = r /\ job'[p] = j
           /\ \A q \in Processes \ {p} :
                 pc'[q] = pc[q] /\ run'[q] = run[q] /\ job'[q] = job[q]
  BY DEF TypeOK, Step

(* A process that is at work holds a row; a worker a job too.               *)
Holding ==
    \A p \in Processes :
        /\ pc[p] # "idle" => run[p] \in Runs
        /\ pc[p] \in {"publish", "note"} => p \in Handlers
        /\ pc[p] = "note" => job[p] \in Jobs
        /\ pc[p] = "begin" => p \in Workers
        /\ pc[p] # "idle" /\ p \in Workers => job[p] \in used

(* Jobs name rows that exist.                                               *)
Named ==
    /\ \A j \in Jobs : names[j] # NoRun => j \in used /\ status[names[j]] # "none"
    /\ \A p \in Processes : pc[p] \notin {"idle", "begin"} => status[run[p]] # "none"
    /\ \A w \in Workers :
          pc[w] # "idle" /\ names[job[w]] # NoRun => run[w] = names[job[w]]
    /\ \A e \in executes : e[1] \in used

RunsInv ==
    /\ TypeOK
    /\ Holding
    /\ Named

LEMMA RunsInit == Init => RunsInv
  BY CrawlRunsAssumption DEF Init, RunsInv, TypeOK, Holding, Named, Processes

(* Schedule and Publish: a job that did not exist is published for row r.   *)
LEMMA DelayType ==
    ASSUME RunsInv, NEW j \in Jobs, NEW r \in Runs \cup {NoRun}, Delay(j, r)
    PROVE  /\ broker' \subseteq used' /\ used' \subseteq Jobs
           /\ names' \in [Jobs -> Runs \cup {NoRun}]
           /\ used \subseteq used' /\ j \in used'
           /\ \A k \in Jobs : names'[k] = IF k = j THEN r ELSE names[k]
           /\ \A k \in used : names'[k] = names[k]
  BY DEF RunsInv, TypeOK, Delay

Grows == \A s \in Runs : status[s] # "none" => status'[s] # "none"

(* What process p may become, so that rows and jobs still match.            *)
Sound(p, label, r, j) ==
    /\ label # "idle" => r \in Runs
    /\ label \in {"publish", "note"} => p \in Handlers
    /\ label = "note" => j \in Jobs
    /\ label = "begin" => p \in Workers
    /\ label \notin {"idle", "begin"} => status'[r] # "none"
    /\ label # "idle" /\ p \in Workers => j \in used /\ (names[j] # NoRun => r = names[j])

LEMMA LocalStep ==
    ASSUME RunsInv, NEW p \in Processes,
           NEW label \in {"idle", "publish", "note", "begin", "crawl", "report"},
           NEW r \in Runs \cup {NoRun}, NEW j \in Jobs \cup {NoJob},
           Step(p, label, r, j), Sound(p, label, r, j), Grows,
           UNCHANGED <<names, used>>, \A e \in executes' : e[1] \in used
    PROVE  Holding' /\ Named'
<1> USE DEF RunsInv
<1>1. Holding'
  BY StepFrame DEF Holding, Sound
<1>2. \A k \in Jobs : names'[k] # NoRun => k \in used' /\ status'[names'[k]] # "none"
  BY DEF Named, Grows, TypeOK
<1>3. \A q \in Processes : pc'[q] \notin {"idle", "begin"} => status'[run'[q]] # "none"
  <2>1. TAKE q \in Processes
  <2>2. CASE q = p
    BY <2>2, StepFrame DEF Sound
  <2>3. CASE q # p
    <3>1. pc'[q] = pc[q] /\ run'[q] = run[q]
      BY <2>3, StepFrame
    <3> QED
      BY <3>1 DEF Holding, Named, Grows
  <2> QED
    BY <2>2, <2>3
<1>4. \A w \in Workers :
         pc'[w] # "idle" /\ names'[job'[w]] # NoRun => run'[w] = names'[job'[w]]
  <2>1. TAKE w \in Workers
  <2>2. w \in Processes
    BY DEF Processes
  <2>3. CASE w = p
    BY <2>3, StepFrame DEF Sound
  <2>4. CASE w # p
    BY <2>2, <2>4, StepFrame DEF Named
  <2> QED
    BY <2>3, <2>4
<1> QED
  BY <1>1, <1>2, <1>3, <1>4 DEF Named

LEMMA RunsSchedule ==
    ASSUME RunsInv, Schedule
    PROVE  RunsInv'
<1>1. PICK j \in Jobs : Delay(j, NoRun)
  BY DEF Schedule
<1>2. UNCHANGED <<status, taskId, pc, run, job, executes>>
  BY DEF Schedule, rowVars, processVars, historyVars
<1>3. TypeOK'
  BY <1>1, <1>2, DelayType DEF RunsInv, TypeOK
<1>4. Holding'
  BY <1>1, <1>2, DelayType DEF RunsInv, Holding
<1>5. Named'
  BY <1>1, <1>2, DelayType DEF RunsInv, Holding, Named, TypeOK, Processes
<1> QED
  BY <1>3, <1>4, <1>5 DEF RunsInv

LEMMA RunsEnqueue ==
    ASSUME RunsInv, NEW h \in Handlers, EnqueueSource(h)
    PROVE  RunsInv'
<1>1. PICK r \in UnusedRuns : EnqueueCommitted(h, r)
  BY DEF EnqueueSource
<1>2. r \in Runs /\ h \in Processes /\ h \notin Workers
  BY CrawlRunsAssumption DEF UnusedRuns, Processes
<1>3. /\ Step(h, "publish", r, NoJob)
      /\ status' = [status EXCEPT ![r] = "queued"]
      /\ UNCHANGED <<taskId, broker, names, used, executes>>
  BY <1>1 DEF EnqueueSource, EnqueueCommitted, brokerVars, historyVars
<1>4. Grows /\ status'[r] # "none"
  BY <1>2, <1>3 DEF RunsInv, TypeOK, Grows
<1>5. Sound(h, "publish", r, NoJob)
  BY <1>2, <1>4 DEF Sound
<1>6. Holding' /\ Named'
  BY <1>2, <1>3, <1>4, <1>5, LocalStep DEF RunsInv, Named
<1>7. TypeOK'
  BY <1>2, <1>3, StepFrame DEF RunsInv, TypeOK
<1> QED
  BY <1>6, <1>7 DEF RunsInv

(* Publish is a job for the handler's row, and then the handler's own step. *)
LEMMA RunsPublish ==
    ASSUME RunsInv, NEW h \in Handlers, Publish(h)
    PROVE  RunsInv'
<1>1. PICK j \in Jobs : Delay(j, run[h]) /\ Step(h, "note", run[h], j)
  BY DEF Publish
<1>2. /\ h \in Processes /\ h \notin Workers /\ pc[h] = "publish"
      /\ UNCHANGED <<status, taskId, executes>>
  BY CrawlRunsAssumption DEF Publish, Processes, rowVars, historyVars
<1>3. run[h] \in Runs /\ status[run[h]] # "none"
  BY <1>2 DEF RunsInv, Holding, Named
<1>4. TypeOK'
  BY <1>1, <1>2, <1>3, StepFrame, DelayType DEF RunsInv, TypeOK
<1>5. Holding'
  BY <1>1, <1>2, <1>3, StepFrame, DelayType DEF RunsInv, Holding
<1>6. \A k \in Jobs : names'[k] # NoRun => k \in used' /\ status'[names'[k]] # "none"
  BY <1>1, <1>2, <1>3, DelayType DEF RunsInv, Named
<1>7. \A q \in Processes : pc'[q] \notin {"idle", "begin"} => status'[run'[q]] # "none"
  <2>1. TAKE q \in Processes
  <2>2. CASE q = h
    BY <1>1, <1>2, <1>3, <2>2, StepFrame DEF RunsInv
  <2>3. CASE q # h
    BY <1>1, <1>2, <1>3, <2>3, StepFrame DEF RunsInv, Named, TypeOK
  <2> QED
    BY <2>2, <2>3
<1>8. \A w \in Workers :
         pc'[w] # "idle" /\ names'[job'[w]] # NoRun => run'[w] = names'[job'[w]]
  <2>1. TAKE w \in Workers
  <2>2. w \in Processes \ {h}
    BY <1>2 DEF Processes
  <2>3. pc'[w] = pc[w] /\ run'[w] = run[w] /\ job'[w] = job[w]
    BY <1>1, <1>2, <1>3, <2>2, StepFrame DEF RunsInv
  <2>4. pc[w] # "idle" => names'[job[w]] = names[job[w]]
    BY <1>1, <1>3, <2>2, DelayType DEF RunsInv, Holding
  <2> QED
    BY <2>3, <2>4 DEF RunsInv, Named
<1> QED
  BY <1>1, <1>2, <1>3, <1>4, <1>5, <1>6, <1>7, <1>8, DelayType DEF RunsInv, Named

(* A process that is done, or dies, lets go of its row and its job.         *)
LEMMA RunsStop ==
    ASSUME RunsInv, NEW p \in Processes, Stop(p),
           UNCHANGED <<status, taskId, broker, names, used, executes>>
    PROVE  RunsInv'
<1>1. Step(p, "idle", NoRun, NoJob)
  BY DEF Stop
<1>2. Sound(p, "idle", NoRun, NoJob) /\ Grows
  BY DEF Sound, Grows
<1>3. Holding' /\ Named'
  BY <1>1, <1>2, LocalStep DEF RunsInv, Named
<1>4. TypeOK'
  BY <1>1, StepFrame DEF RunsInv, TypeOK
<1> QED
  BY <1>3, <1>4 DEF RunsInv

LEMMA RunsNote ==
    ASSUME RunsInv, NEW h \in Handlers, NoteTask(h)
    PROVE  RunsInv'
<1>1. /\ h \in Processes /\ pc[h] = "note"
      /\ taskId' = [taskId EXCEPT ![run[h]] = job[h]]
      /\ Step(h, "idle", NoRun, NoJob)
      /\ UNCHANGED <<status, broker, names, used, executes>>
  BY DEF NoteTask, NoteId, Stop, Processes, brokerVars, historyVars
<1>2. Sound(h, "idle", NoRun, NoJob) /\ Grows
  BY <1>1 DEF Sound, Grows
<1>3. Holding' /\ Named'
  BY <1>1, <1>2, LocalStep DEF RunsInv, Named
<1>4. TypeOK'
  BY <1>1, StepFrame DEF RunsInv, Holding, TypeOK
<1> QED
  BY <1>3, <1>4 DEF RunsInv

LEMMA RunsSync ==
    ASSUME RunsInv, NEW h \in Handlers, BeginSyncRun(h)
    PROVE  RunsInv'
<1>1. PICK r \in UnusedRuns : /\ status' = [status EXCEPT ![r] = "running"]
                               /\ Step(h, "crawl", r, NoJob)
  BY DEF BeginSyncRun
<1>2. r \in Runs /\ h \in Processes /\ h \notin Workers
  BY CrawlRunsAssumption DEF UnusedRuns, Processes
<1>3. UNCHANGED <<taskId, broker, names, used, executes>>
  BY DEF BeginSyncRun, brokerVars, historyVars
<1>4. Grows /\ status'[r] # "none"
  BY <1>1, <1>2 DEF RunsInv, TypeOK, Grows
<1>5. Sound(h, "crawl", r, NoJob)
  BY <1>2, <1>4 DEF Sound
<1>6. Holding' /\ Named'
  BY <1>1, <1>2, <1>3, <1>4, <1>5, LocalStep DEF RunsInv, Named
<1>7. TypeOK'
  BY <1>1, <1>2, <1>3, StepFrame DEF RunsInv, TypeOK
<1> QED
  BY <1>6, <1>7 DEF RunsInv

LEMMA RunsTake ==
    ASSUME RunsInv, NEW w \in Workers, TakeJob(w)
    PROVE  RunsInv'
<1>1. PICK j \in broker :
         /\ broker' \subseteq broker
         /\ \E r \in IF names[j] = NoRun THEN UnusedRuns ELSE {names[j]} :
               Step(w, "begin", r, j)
  BY DEF TakeJob
<1>2. PICK r \in IF names[j] = NoRun THEN UnusedRuns ELSE {names[j]} : Step(w, "begin", r, j)
  BY <1>1
<1>3. j \in used /\ j \in Jobs /\ r \in Runs /\ (names[j] # NoRun => r = names[j])
  BY <1>1, <1>2 DEF RunsInv, TypeOK, UnusedRuns
<1>4. w \in Processes /\ UNCHANGED <<status, taskId, names, used, executes>>
  BY DEF TakeJob, Processes, rowVars, historyVars
<1>5. Sound(w, "begin", r, j) /\ Grows
  BY <1>3, <1>4 DEF Sound, Grows
<1>6. Holding' /\ Named'
  BY <1>2, <1>3, <1>4, <1>5, LocalStep DEF RunsInv, Named
<1>7. TypeOK'
  BY <1>1, <1>2, <1>3, <1>4, StepFrame DEF RunsInv, TypeOK
<1> QED
  BY <1>6, <1>7 DEF RunsInv

(* The row that BeginRun takes is always the one the worker already holds.  *)
LEMMA BeginEffect ==
    ASSUME RunsInv, NEW w \in Workers, BeginRun(w)
    PROVE  /\ pc[w] = "begin" /\ run[w] \in Runs /\ job[w] \in used /\ job[w] \in Jobs
           /\ names[job[w]] # NoRun => run[w] = names[job[w]]
           /\ status' = [status EXCEPT ![run[w]] = "running"]
           /\ taskId' = [taskId EXCEPT ![run[w]] = job[w]]
           /\ executes' = executes \cup {<<job[w], run[w]>>}
           /\ Step(w, "crawl", run[w], job[w])
           /\ UNCHANGED <<broker, names, used, crawled>>
<1>1. pc[w] = "begin" /\ w \in Processes
  BY DEF BeginRun, Processes
<1>2. run[w] \in Runs /\ job[w] \in used /\ job[w] \in Jobs
  BY <1>1 DEF RunsInv, Holding, TypeOK
<1>3. names[job[w]] # NoRun => run[w] = names[job[w]] /\ status[run[w]] # "none"
  BY <1>1, <1>2 DEF RunsInv, Named
<1>4. PICK r \in {run[w]} :
         /\ status' = [status EXCEPT ![r] = "running"]
         /\ SetTaskId(r, job[w])
         /\ executes' = executes \cup {<<job[w], r>>}
         /\ Step(w, "crawl", r, job[w])
  BY <1>3 DEF BeginRun
<1>5. UNCHANGED <<broker, names, used, crawled>>
  BY DEF BeginRun, brokerVars
<1> QED
  BY <1>1, <1>2, <1>3, <1>4, <1>5 DEF SetTaskId

LEMMA RunsBegin ==
    ASSUME RunsInv, NEW w \in Workers, BeginRun(w)
    PROVE  RunsInv'
<1>1. w \in Processes
  BY DEF Processes
<1>2. Grows /\ status'[run[w]] # "none"
  BY BeginEffect DEF RunsInv, TypeOK, Grows
<1>3. Sound(w, "crawl", run[w], job[w])
  BY <1>2, BeginEffect DEF Sound
<1>4. \A e \in executes' : e[1] \in used
  BY BeginEffect DEF RunsInv, Named
<1>5. Holding' /\ Named'
  BY <1>1, <1>2, <1>3, <1>4, BeginEffect, LocalStep
<1>6. TypeOK'
  BY <1>1, BeginEffect, StepFrame DEF RunsInv, TypeOK
<1> QED
  BY <1>5, <1>6 DEF RunsInv

LEMMA RunsCrawl ==
    ASSUME RunsInv, NEW p \in Processes, Crawl(p)
    PROVE  RunsInv'
<1>1. /\ pc[p] = "crawl" /\ Step(p, "report", run[p], job[p])
      /\ UNCHANGED <<status, taskId, broker, names, used, executes>>
  BY DEF Crawl, CommitCrawl, brokerVars
<1>2. run[p] \in Runs /\ status[run[p]] # "none"
  BY <1>1 DEF RunsInv, Holding, Named
<1>3. Grows /\ Sound(p, "report", run[p], job[p])
  BY <1>1, <1>2 DEF RunsInv, Holding, Named, Grows, Sound
<1>4. Holding' /\ Named'
  BY <1>1, <1>2, <1>3, LocalStep DEF RunsInv, TypeOK, Named
<1>5. TypeOK'
  BY <1>1, StepFrame DEF RunsInv, TypeOK
<1> QED
  BY <1>4, <1>5 DEF RunsInv

LEMMA RunsReport ==
    ASSUME RunsInv, NEW p \in Processes, ReportRun(p)
    PROVE  RunsInv'
<1>1. /\ pc[p] = "report" /\ Step(p, "idle", NoRun, NoJob)
      /\ status' = [status EXCEPT ![run[p]] = "succeeded"]
      /\ UNCHANGED <<taskId, broker, names, used, executes>>
  BY DEF ReportRun, Stop, brokerVars, historyVars
<1>2. Sound(p, "idle", NoRun, NoJob) /\ Grows
  BY <1>1 DEF Sound, Grows, RunsInv, TypeOK
<1>3. Holding' /\ Named'
  BY <1>1, <1>2, LocalStep DEF RunsInv, Named
<1>4. TypeOK'
  BY <1>1, StepFrame DEF RunsInv, TypeOK
<1> QED
  BY <1>3, <1>4 DEF RunsInv

LEMMA RunsNext == RunsInv /\ [Next]_vars => RunsInv'
<1> SUFFICES ASSUME RunsInv, [Next]_vars
             PROVE  RunsInv'
  OBVIOUS
<1>1. CASE Schedule
  BY <1>1, RunsSchedule
<1>2. ASSUME NEW h \in Handlers, HandlerStep(h)
      PROVE  RunsInv'
  <2>1. h \in Processes
    BY DEF Processes
  <2>2. CASE EnqueueSource(h) \/ Publish(h) \/ NoteTask(h) \/ BeginSyncRun(h)
    BY <2>2, RunsEnqueue, RunsPublish, RunsNote, RunsSync
  <2>3. CASE PublishFails(h)
    BY <2>1, <2>3, RunsStop DEF PublishFails, rowVars, brokerVars, historyVars
  <2>4. CASE CrawlRaises(h)
    BY <2>1, <2>4, RunsStop DEF CrawlRaises, rowVars, brokerVars
  <2>5. CASE Crawl(h) \/ ReportRun(h)
    BY <2>1, <2>5, RunsCrawl, RunsReport
  <2> QED
    BY <1>2, <2>2, <2>3, <2>4, <2>5 DEF HandlerStep, ExecuteStep
<1>3. ASSUME NEW w \in Workers, WorkerStep(w)
      PROVE  RunsInv'
  <2>1. w \in Processes
    BY DEF Processes
  <2>2. CASE TakeJob(w) \/ BeginRun(w)
    BY <2>2, RunsTake, RunsBegin
  <2>3. CASE CrawlRaises(w)
    BY <2>1, <2>3, RunsStop DEF CrawlRaises, rowVars, brokerVars
  <2>4. CASE Crawl(w) \/ ReportRun(w)
    BY <2>1, <2>4, RunsCrawl, RunsReport
  <2> QED
    BY <1>3, <2>2, <2>3, <2>4 DEF WorkerStep, ExecuteStep
<1>4. ASSUME NEW p \in Processes, Crash(p)
      PROVE  RunsInv'
  BY <1>4, RunsStop DEF Crash, rowVars, brokerVars
<1>5. CASE UNCHANGED vars
  BY <1>5 DEF vars, rowVars, brokerVars, processVars, historyVars,
              RunsInv, TypeOK, Holding, Named
<1> QED
  BY <1>1, <1>2, <1>3, <1>4, <1>5 DEF Next

LEMMA RunsInvariant == Spec => []RunsInv
  BY RunsInit, RunsNext, PTL DEF Spec

(* In every reachable state, for any number of rows, jobs, workers and      *)
(* requests, each column and each local has its type.                       *)
THEOREM RunsTypeCorrect == Spec => []TypeOK
<1>1. RunsInv => TypeOK
  BY DEF RunsInv
<1> QED
  BY <1>1, RunsInvariant, PTL

(***************************************************************************)
(* SucceededHasCrawled: a process that is about to report has crawled.      *)
(***************************************************************************)

Crawled ==
    /\ SucceededHasCrawled
    /\ \A p \in Processes : pc[p] = "report" => run[p] \in crawled


LEMMA CrawledNext == RunsInv /\ Crawled /\ [Next]_vars => Crawled'
<1> SUFFICES ASSUME RunsInv, Crawled, [Next]_vars
             PROVE  Crawled'
  OBVIOUS
<1>1. ASSUME NEW p \in Processes, NEW r \in Runs \cup {NoRun}, NEW j \in Jobs \cup {NoJob},
             NEW label \in {"idle", "publish", "note", "begin", "crawl"},
             Step(p, label, r, j), UNCHANGED crawled,
             \A s \in Runs : status'[s] = "succeeded" => status[s] = "succeeded"
      PROVE  Crawled'
  BY <1>1, StepFrame DEF RunsInv, Crawled, SucceededHasCrawled
<1>2. ASSUME UNCHANGED <<status, crawled, pc, run>>
      PROVE  Crawled'
  BY <1>2 DEF Crawled, SucceededHasCrawled
<1>3. ASSUME NEW p \in Processes, Stop(p), UNCHANGED <<status, crawled>>
      PROVE  Crawled'
  BY <1>1, <1>3 DEF Stop
<1>4. ASSUME NEW p \in Processes, Crawl(p)
      PROVE  Crawled'
  <2>1. /\ crawled' = crawled \cup {run[p]} /\ UNCHANGED status
        /\ Step(p, "report", run[p], job[p]) /\ pc[p] = "crawl"
    BY <1>4 DEF Crawl, CommitCrawl
  <2>2. \A q \in Processes : pc'[q] = "report" => run'[q] \in crawled'
    BY <2>1, StepFrame DEF RunsInv, TypeOK, Crawled
  <2> QED
    BY <2>1, <2>2 DEF Crawled, SucceededHasCrawled
<1>5. ASSUME NEW p \in Processes, ReportRun(p)
      PROVE  Crawled'
  <2>1. /\ pc[p] = "report" /\ Step(p, "idle", NoRun, NoJob)
        /\ status' = [status EXCEPT ![run[p]] = "succeeded"] /\ UNCHANGED crawled
    BY <1>5 DEF ReportRun, Stop, historyVars
  <2>2. SucceededHasCrawled'
    BY <2>1 DEF RunsInv, TypeOK, Crawled, SucceededHasCrawled
  <2>3. \A q \in Processes : pc'[q] = "report" => run'[q] \in crawled'
    BY <2>1, StepFrame DEF RunsInv, Crawled
  <2> QED
    BY <2>2, <2>3 DEF Crawled
<1>6. CASE Schedule \/ UNCHANGED vars
  BY <1>2, <1>6 DEF Schedule, vars, rowVars, processVars, historyVars
<1>7. ASSUME NEW h \in Handlers, HandlerStep(h)
      PROVE  Crawled'
  <2>1. h \in Processes
    BY DEF Processes
  <2>2. CASE EnqueueSource(h)
    <3>1. PICK r \in Runs : /\ Step(h, "publish", r, NoJob)
                            /\ status' = [status EXCEPT ![r] = "queued"]
      BY <2>2 DEF EnqueueSource, EnqueueCommitted, UnusedRuns
    <3> QED
      BY <1>1, <2>1, <2>2, <3>1 DEF EnqueueSource, historyVars, RunsInv, TypeOK
  <2>3. CASE Publish(h)
    BY <1>1, <2>1, <2>3 DEF Publish, rowVars, historyVars, RunsInv, TypeOK
  <2>4. CASE PublishFails(h) \/ NoteTask(h) \/ CrawlRaises(h)
    BY <1>3, <2>1, <2>4 DEF PublishFails, NoteTask, NoteId, CrawlRaises, rowVars, historyVars
  <2>5. CASE BeginSyncRun(h)
    <3>1. PICK r \in Runs : /\ Step(h, "crawl", r, NoJob)
                            /\ status' = [status EXCEPT ![r] = "running"]
      BY <2>5 DEF BeginSyncRun, UnusedRuns
    <3> QED
      BY <1>1, <2>1, <2>5, <3>1 DEF BeginSyncRun, historyVars, RunsInv, TypeOK
  <2> QED
    BY <1>4, <1>5, <1>7, <2>1, <2>2, <2>3, <2>4, <2>5 DEF HandlerStep, ExecuteStep
<1>8. ASSUME NEW w \in Workers, WorkerStep(w)
      PROVE  Crawled'
  <2>1. w \in Processes
    BY DEF Processes
  <2>2. CASE TakeJob(w)
    <3>1. PICK j \in broker, r \in Runs : Step(w, "begin", r, j)
      BY <2>2 DEF TakeJob, UnusedRuns, RunsInv, TypeOK
    <3> QED
      BY <1>1, <2>1, <2>2, <3>1 DEF TakeJob, rowVars, historyVars, RunsInv, TypeOK
  <2>3. CASE BeginRun(w)
    BY <1>1, <2>1, <2>3, BeginEffect DEF RunsInv, TypeOK
  <2>4. CASE CrawlRaises(w)
    BY <1>3, <2>1, <2>4 DEF CrawlRaises, rowVars
  <2> QED
    BY <1>4, <1>5, <1>8, <2>1, <2>2, <2>3, <2>4 DEF WorkerStep, ExecuteStep
<1>9. ASSUME NEW p \in Processes, Crash(p)
      PROVE  Crawled'
  BY <1>3, <1>9 DEF Crash, rowVars
<1> QED
  BY <1>6, <1>7, <1>8, <1>9 DEF Next

(* A run reported as succeeded has committed what it crawled, wherever      *)
(* workers and API processes die and however often a job is delivered.      *)
THEOREM SuccessIsCommitted == Spec => []SucceededHasCrawled
<1>1. Init => Crawled
  BY DEF Init, Crawled, SucceededHasCrawled
<1>2. Crawled => SucceededHasCrawled
  BY DEF Crawled
<1> QED
  BY <1>1, <1>2, RunsInvariant, CrawledNext, PTL DEF Spec

(***************************************************************************)
(* JobKeepsItsRow and NeverQueuedAgain.                                     *)
(***************************************************************************)

LEMMA NamesKept ==
    ASSUME RunsInv, [Next]_vars
    PROVE  /\ \A j \in used : names'[j] = names[j]
           /\ UNCHANGED executes \/ \E w \in Workers : BeginRun(w)
<1>1. CASE Schedule
  <2>1. PICK j \in Jobs : Delay(j, NoRun)
    BY <1>1 DEF Schedule
  <2> QED
    BY <1>1, <2>1, DelayType DEF Schedule, historyVars
<1>2. CASE \E h \in Handlers : Publish(h)
  <2>1. PICK h \in Handlers, j \in Jobs : Publish(h) /\ Delay(j, run[h])
    BY <1>2 DEF Publish
  <2>2. run[h] \in Runs
    BY <2>1 DEF Publish, Processes, RunsInv, Holding
  <2> QED
    BY <2>1, <2>2, DelayType DEF Publish, historyVars
<1>3. CASE \E w \in Workers : BeginRun(w)
  BY <1>3, BeginEffect
<1>4. CASE \E h \in Handlers : EnqueueSource(h) \/ PublishFails(h) \/ NoteTask(h) \/ BeginSyncRun(h)
  BY <1>4 DEF EnqueueSource, PublishFails, NoteTask, BeginSyncRun, brokerVars, historyVars
<1>5. CASE \E p \in Processes : Crawl(p) \/ CrawlRaises(p) \/ ReportRun(p) \/ Crash(p)
  BY <1>5 DEF Crawl, CrawlRaises, ReportRun, Crash, brokerVars, historyVars
<1>6. CASE \E w \in Workers : TakeJob(w)
  BY <1>6 DEF TakeJob, historyVars
<1>7. CASE UNCHANGED vars
  BY <1>7 DEF vars, brokerVars, historyVars
<1> QED
  BY <1>1, <1>2, <1>3, <1>4, <1>5, <1>6, <1>7
  DEF Next, HandlerStep, WorkerStep, ExecuteStep, Processes

(* A job published for a row is executed in that row, however the worker    *)
(* and the handler's transaction overlap.                                   *)
THEOREM JobsKeepTheirRows == Spec => []JobKeepsItsRow
<1>1. Init => JobKeepsItsRow
  BY DEF Init, JobKeepsItsRow
<1>2. RunsInv /\ JobKeepsItsRow /\ [Next]_vars => JobKeepsItsRow'
  <2> SUFFICES ASSUME RunsInv, JobKeepsItsRow, [Next]_vars
               PROVE  JobKeepsItsRow'
    OBVIOUS
  <2>1. \A e \in executes : names'[e[1]] # NoRun => e[2] = names'[e[1]]
    BY NamesKept DEF JobKeepsItsRow, RunsInv, Named
  <2>2. CASE UNCHANGED executes
    BY <2>1, <2>2 DEF JobKeepsItsRow
  <2>3. CASE \E w \in Workers : BeginRun(w)
    BY <2>1, <2>3, BeginEffect DEF JobKeepsItsRow
  <2> QED
    BY <2>2, <2>3, NamesKept
<1> QED
  BY <1>1, <1>2, RunsInvariant, PTL DEF Spec

(* No step, of a handler that writes back what it read before it published  *)
(* least of all, takes a started row back to the queue.                     *)
THEOREM StartedForGood == Spec => NeverQueuedAgain
<1> DEFINE NotQueuedAgain ==
      \A r \in Runs : status[r] \in {"running", "succeeded"} => status'[r] # "queued"
<1>1. ASSUME RunsInv, [Next]_vars
      PROVE  NotQueuedAgain
  <2>1. CASE Schedule \/ UNCHANGED vars
    BY <2>1 DEF Schedule, vars, rowVars
  <2>2. CASE \E h \in Handlers : EnqueueSource(h)
    BY <1>1, <2>2 DEF EnqueueSource, EnqueueCommitted, UnusedRuns, RunsInv, TypeOK
  <2>3. CASE \E h \in Handlers : Publish(h) \/ PublishFails(h) \/ NoteTask(h)
    BY <2>3 DEF Publish, PublishFails, NoteTask, NoteId, rowVars
  <2>4. CASE \E h \in Handlers : BeginSyncRun(h)
    BY <1>1, <2>4 DEF BeginSyncRun, UnusedRuns, RunsInv, TypeOK
  <2>5. CASE \E p \in Processes : Crawl(p) \/ CrawlRaises(p) \/ Crash(p)
    BY <2>5 DEF Crawl, CommitCrawl, CrawlRaises, Crash, rowVars
  <2>6. CASE \E p \in Processes : ReportRun(p)
    BY <1>1, <2>6 DEF ReportRun, RunsInv, TypeOK
  <2>7. CASE \E w \in Workers : TakeJob(w)
    BY <2>7 DEF TakeJob, rowVars
  <2>8. CASE \E w \in Workers : BeginRun(w)
    BY <1>1, <2>8, BeginEffect DEF RunsInv, TypeOK
  <2> QED
    BY <1>1, <2>1, <2>2, <2>3, <2>4, <2>5, <2>6, <2>7, <2>8
    DEF Next, HandlerStep, WorkerStep, ExecuteStep, Processes
<1>2. RunsInv /\ [Next]_vars => [NotQueuedAgain]_vars
  BY <1>1
<1> QED
  BY <1>2, RunsInvariant, PTL DEF Spec, NeverQueuedAgain

(***************************************************************************)
(* TaskIdNamesJob.  At most one job names a row, and a row opened for a job *)
(* that names none belongs to the worker that opened it: so whoever else    *)
(* writes a running row's task_id writes the same job.                      *)
(***************************************************************************)

OneJobPerRow == \A j, k \in Jobs : names[j] = names[k] /\ names[j] # NoRun => j = k

Enqueuing ==
    \A h \in Handlers :
        /\ pc[h] = "publish" => \A j \in Jobs : names[j] # run[h]
        /\ pc[h] = "note" => names[job[h]] = run[h]
        /\ pc[h] = "publish" => \A q \in Processes \ {h} : run[q] # run[h]

OwnsRow(w) == pc[w] # "idle" /\ names[job[w]] = NoRun

OwnRows ==
    \A w \in Workers : OwnsRow(w) =>
        /\ \A q \in Processes \ {w} : run[q] # run[w]
        /\ \A j \in Jobs : names[j] # run[w]

Matched == OneJobPerRow /\ Enqueuing /\ OwnRows /\ TaskIdNamesJob

(* Process p takes up row r, or keeps it, or has none.                      *)
LEMMA MatchedStep ==
    ASSUME RunsInv, Matched, NEW p \in Processes,
           NEW label \in {"idle", "publish", "begin", "crawl", "report"},
           NEW r \in Runs \cup {NoRun}, NEW j \in Jobs \cup {NoJob},
           Step(p, label, r, j), UNCHANGED names,
           label = "publish" \/ (p \in Workers /\ label # "idle" /\ names[j] = NoRun) =>
               /\ \A q \in Processes \ {p} : run[q] # r
               /\ \A k \in Jobs : names[k] # r,
           r # NoRun =>
               \A q \in Processes \ {p} :
                   pc[q] = "publish" \/ (q \in Workers /\ OwnsRow(q)) => run[q] # r,
           TaskIdNamesJob'
    PROVE  Matched'
<1>a. TypeOK /\ Holding
  BY DEF RunsInv
<1>b. r = NoRun => \A q \in Processes : pc[q] # "idle" => run[q] # r
  BY <1>a, CrawlRunsAssumption DEF Holding
<1>1. OneJobPerRow'
  BY DEF Matched, OneJobPerRow
<1>2. Enqueuing'
  <2> SUFFICES ASSUME NEW h \in Handlers
               PROVE  /\ pc'[h] = "publish" => \A k \in Jobs : names[k] # run'[h]
                      /\ pc'[h] = "note" => names[job'[h]] = run'[h]
                      /\ pc'[h] = "publish" => \A q \in Processes \ {h} : run'[q] # run'[h]
    BY DEF Enqueuing
  <2>1. h \in Processes
    BY DEF Processes
  <2>2. CASE h = p
    BY <1>a, <2>2, StepFrame
  <2>3. CASE h # p
    BY <1>a, <1>b, <2>1, <2>3, StepFrame DEF Matched, Enqueuing
  <2> QED
    BY <2>2, <2>3
<1>3. OwnRows'
  <2> SUFFICES ASSUME NEW w \in Workers, pc'[w] # "idle", names[job'[w]] = NoRun
               PROVE  /\ \A q \in Processes \ {w} : run'[q] # run'[w]
                      /\ \A k \in Jobs : names[k] # run'[w]
    BY DEF OwnRows, OwnsRow
  <2>1. w \in Processes
    BY DEF Processes
  <2>2. CASE w = p
    BY <1>a, <2>2, StepFrame
  <2>3. CASE w # p
    <3>1. OwnsRow(w) /\ run'[w] = run[w]
      BY <1>a, <2>1, <2>3, StepFrame DEF OwnsRow
    <3> QED
      BY <1>a, <1>b, <2>1, <2>3, <3>1, StepFrame DEF Matched, OwnRows, OwnsRow
  <2> QED
    BY <2>2, <2>3
<1> QED
  BY <1>1, <1>2, <1>3 DEF Matched

(* A row that no one has is neither named by a job nor held by a process.   *)
LEMMA UnusedIsFree ==
    ASSUME RunsInv, NEW r \in UnusedRuns
    PROVE  /\ r \in Runs /\ status[r] = "none"
           /\ \A q \in Processes : run[q] # r
           /\ \A j \in Jobs : names[j] # r
  BY CrawlRunsAssumption DEF UnusedRuns, RunsInv, Named

(* A step that neither starts a crawl nor writes a task_id.                 *)
LEMMA TaskIdFrame ==
    ASSUME RunsInv, Matched, NEW p \in Processes,
           NEW label \in {"idle", "publish", "note", "begin", "crawl", "report"},
           NEW r \in Runs \cup {NoRun}, NEW j \in Jobs \cup {NoJob},
           Step(p, label, r, j), UNCHANGED taskId,
           p \in Workers /\ label \in {"crawl", "report"} => taskId[r] = j
    PROVE  TaskIdNamesJob'
<1> SUFFICES ASSUME NEW w \in Workers, pc'[w] \in {"crawl", "report"}
             PROVE  taskId[run'[w]] = job'[w]
  BY DEF TaskIdNamesJob
<1>1. w \in Processes /\ TypeOK
  BY DEF Processes, RunsInv
<1>2. CASE w = p
  BY <1>1, <1>2, StepFrame
<1>3. CASE w # p
  BY <1>1, <1>3, StepFrame DEF Matched, TaskIdNamesJob
<1> QED
  BY <1>2, <1>3

LEMMA MatchedStop ==
    ASSUME RunsInv, Matched, NEW p \in Processes, Stop(p), UNCHANGED <<names, taskId>>
    PROVE  Matched'
<1>1. Step(p, "idle", NoRun, NoJob)
  BY DEF Stop
<1>2. TaskIdNamesJob'
  BY <1>1, TaskIdFrame
<1> QED
  BY <1>1, <1>2, MatchedStep

LEMMA MatchedSchedule ==
    ASSUME RunsInv, Matched, Schedule
    PROVE  Matched'
<1>1. PICK j \in Jobs : Delay(j, NoRun)
  BY DEF Schedule
<1>2. UNCHANGED <<taskId, pc, run, job>>
  BY DEF Schedule, rowVars, processVars
<1>3. /\ j \notin used
      /\ \A k \in Jobs : names'[k] = IF k = j THEN NoRun ELSE names[k]
  BY <1>1, DelayType DEF Delay
<1>4. OneJobPerRow'
  BY <1>3 DEF Matched, OneJobPerRow
<1>5. Enqueuing'
  <2>1. ASSUME NEW h \in Handlers, pc[h] = "publish", NEW k \in Jobs
        PROVE  names'[k] # run[h]
    BY <1>3, <2>1, CrawlRunsAssumption
    DEF Matched, Enqueuing, RunsInv, Holding, Processes
  <2>2. ASSUME NEW h \in Handlers, pc[h] = "note"
        PROVE  names'[job[h]] = run[h]
    <3>1. job[h] \in Jobs /\ run[h] \in Runs /\ names[job[h]] = run[h]
      BY <2>2 DEF Matched, Enqueuing, RunsInv, Holding, Processes
    <3> QED
      BY <1>3, <3>1, CrawlRunsAssumption DEF RunsInv, Named
  <2> QED
    BY <1>2, <2>1, <2>2 DEF Matched, Enqueuing
<1>6. OwnRows'
  <2> SUFFICES ASSUME NEW w \in Workers, pc[w] # "idle", names'[job[w]] = NoRun
               PROVE  /\ \A q \in Processes \ {w} : run[q] # run[w]
                      /\ \A k \in Jobs : names'[k] # run[w]
    BY <1>2 DEF OwnRows, OwnsRow
  <2>1. job[w] \in used /\ job[w] \in Jobs /\ run[w] \in Runs
    BY DEF RunsInv, Holding, Processes, TypeOK
  <2>2. OwnsRow(w)
    BY <1>3, <2>1 DEF OwnsRow
  <2> QED
    BY <1>3, <2>1, <2>2, CrawlRunsAssumption DEF Matched, OwnRows
<1>7. TaskIdNamesJob'
  BY <1>2 DEF Matched, TaskIdNamesJob
<1> QED
  BY <1>4, <1>5, <1>6, <1>7 DEF Matched

LEMMA MatchedPublish ==
    ASSUME RunsInv, Matched, NEW h \in Handlers, Publish(h)
    PROVE  Matched'
<1>1. PICK j \in Jobs : Delay(j, run[h]) /\ Step(h, "note", run[h], j)
  BY DEF Publish
<1>2. pc[h] = "publish" /\ UNCHANGED taskId /\ h \in Processes /\ h \notin Workers
  BY CrawlRunsAssumption DEF Publish, rowVars, Processes
<1>3. run[h] \in Runs /\ (\A q \in Processes \ {h} : run[q] # run[h])
      /\ \A k \in Jobs : names[k] # run[h]
  BY <1>2 DEF Matched, Enqueuing, RunsInv, Holding
<1>4. /\ j \notin used
      /\ \A k \in Jobs : names'[k] = IF k = j THEN run[h] ELSE names[k]
  BY <1>1, <1>3, DelayType DEF Delay
<1>5. /\ pc'[h] = "note" /\ run'[h] = run[h] /\ job'[h] = j
      /\ \A q \in Processes \ {h} :
            pc'[q] = pc[q] /\ run'[q] = run[q] /\ job'[q] = job[q]
  BY <1>1, <1>2, <1>3, StepFrame DEF RunsInv
<1>6. OneJobPerRow'
  BY <1>3, <1>4 DEF Matched, OneJobPerRow
<1>7. Enqueuing'
  <2> SUFFICES ASSUME NEW g \in Handlers
               PROVE  /\ pc'[g] = "publish" => \A k \in Jobs : names'[k] # run'[g]
                      /\ pc'[g] = "note" => names'[job'[g]] = run'[g]
                      /\ pc'[g] = "publish" => \A q \in Processes \ {g} : run'[q] # run'[g]
    BY DEF Enqueuing
  <2>1. g \in Processes
    BY DEF Processes
  <2>2. CASE g = h
    BY <1>4, <1>5, <2>2
  <2>3. CASE g # h
    <3>1. pc'[g] = pc[g] /\ run'[g] = run[g] /\ job'[g] = job[g] /\ run[g] # run[h]
      BY <1>3, <1>5, <2>1, <2>3
    <3>2. pc[g] = "note" => job[g] \in Jobs /\ job[g] # j
      <4>1. pc[g] = "note" => job[g] \in Jobs /\ names[job[g]] = run[g] /\ run[g] \in Runs
        BY <2>1 DEF Matched, Enqueuing, RunsInv, Holding
      <4> QED
        BY <1>4, <4>1, CrawlRunsAssumption DEF RunsInv, Named
    <3>3. \A q \in Processes \ {g} : run'[q] = run[q]
      BY <1>2, <1>5
    <3> QED
      BY <1>4, <3>1, <3>2, <3>3 DEF Matched, Enqueuing
  <2> QED
    BY <2>2, <2>3
<1>8. OwnRows'
  <2> SUFFICES ASSUME NEW w \in Workers, pc'[w] # "idle", names'[job'[w]] = NoRun
               PROVE  /\ \A q \in Processes \ {w} : run'[q] # run'[w]
                      /\ \A k \in Jobs : names'[k] # run'[w]
    BY DEF OwnRows, OwnsRow
  <2>1. w \in Processes \ {h}
    BY <1>2 DEF Processes
  <2>2. pc'[w] = pc[w] /\ run'[w] = run[w] /\ job'[w] = job[w] /\ run[w] # run[h]
    BY <1>3, <1>5, <2>1
  <2>3. job[w] \in used /\ job[w] \in Jobs
    BY <2>1, <2>2 DEF RunsInv, Holding, TypeOK
  <2>4. OwnsRow(w)
    BY <1>4, <2>2, <2>3 DEF OwnsRow
  <2>5. \A q \in Processes : run'[q] = run[q]
    BY <1>5
  <2> QED
    BY <1>4, <2>2, <2>4, <2>5 DEF Matched, OwnRows
<1>9. TaskIdNamesJob'
  BY <1>1, <1>2, <1>3, TaskIdFrame DEF RunsInv
<1> QED
  BY <1>6, <1>7, <1>8, <1>9 DEF Matched

LEMMA MatchedNote ==
    ASSUME RunsInv, Matched, NEW h \in Handlers, NoteTask(h)
    PROVE  Matched'
<1>1. /\ h \in Processes /\ pc[h] = "note" /\ h \notin Workers
      /\ taskId' = [taskId EXCEPT ![run[h]] = job[h]]
      /\ Step(h, "idle", NoRun, NoJob)
      /\ UNCHANGED names
  BY CrawlRunsAssumption DEF NoteTask, NoteId, Stop, Processes, brokerVars
<1>2. names[job[h]] = run[h] /\ run[h] \in Runs /\ job[h] \in Jobs
  BY <1>1 DEF Matched, Enqueuing, RunsInv, Holding
<1>3. ASSUME NEW w \in Workers, pc'[w] \in {"crawl", "report"}
      PROVE  taskId'[run'[w]] = job'[w]
  <2>1. w \in Processes \ {h}
    BY <1>1 DEF Processes
  <2>2. pc'[w] = pc[w] /\ run'[w] = run[w] /\ job'[w] = job[w]
    BY <1>1, <2>1, StepFrame DEF RunsInv
  <2>3. run[w] \in Runs /\ job[w] \in Jobs /\ taskId[run[w]] = job[w]
    BY <1>3, <2>1, <2>2 DEF Matched, TaskIdNamesJob, RunsInv, Holding, TypeOK
  <2>4. CASE run[w] = run[h]
    <3>1. ~OwnsRow(w)
      BY <1>1, <2>1, <2>4 DEF Matched, OwnRows
    <3>2. names[job[w]] = run[w] /\ names[job[w]] # NoRun
      BY <1>3, <2>1, <2>2, <3>1 DEF OwnsRow, RunsInv, Named
    <3>3. job[w] = job[h]
      BY <1>2, <2>3, <2>4, <3>2 DEF Matched, OneJobPerRow
    <3> QED
      BY <1>1, <1>2, <2>2, <2>4, <3>3 DEF RunsInv, TypeOK
  <2>5. CASE run[w] # run[h]
    BY <1>1, <1>2, <2>2, <2>3, <2>5 DEF RunsInv, TypeOK
  <2> QED
    BY <2>4, <2>5
<1>4. TaskIdNamesJob'
  BY <1>3 DEF TaskIdNamesJob
<1> QED
  BY <1>1, <1>4, MatchedStep

(* EnqueueSource and BeginSyncRun take up a fresh row.                      *)
LEMMA MatchedFresh ==
    ASSUME RunsInv, Matched, NEW h \in Handlers, NEW r \in UnusedRuns,
           NEW label \in {"publish", "crawl"},
           Step(h, label, r, NoJob), UNCHANGED <<names, taskId>>
    PROVE  Matched'
<1>1. h \in Processes /\ h \notin Workers /\ r \in Runs
  BY CrawlRunsAssumption DEF Processes, UnusedRuns
<1>2. TaskIdNamesJob'
  BY <1>1, TaskIdFrame
<1> QED
  BY <1>1, <1>2, UnusedIsFree, MatchedStep

LEMMA MatchedTake ==
    ASSUME RunsInv, Matched, NEW w \in Workers, TakeJob(w)
    PROVE  Matched'
<1>a. PICK j \in broker :
         \E r \in IF names[j] = NoRun THEN UnusedRuns ELSE {names[j]} : Step(w, "begin", r, j)
  BY DEF TakeJob
<1>1. PICK r \in IF names[j] = NoRun THEN UnusedRuns ELSE {names[j]} : Step(w, "begin", r, j)
  BY <1>a
<1>2. j \in used /\ j \in Jobs /\ r \in Runs /\ w \in Processes
  BY <1>1 DEF RunsInv, TypeOK, UnusedRuns, Processes
<1>3. UNCHANGED <<names, taskId>>
  BY DEF TakeJob, rowVars
<1>4. TaskIdNamesJob'
  BY <1>1, <1>2, <1>3, TaskIdFrame
<1>5. CASE names[j] = NoRun
  BY <1>1, <1>2, <1>3, <1>4, <1>5, UnusedIsFree, MatchedStep
<1>6. CASE names[j] # NoRun
  <2>1. \A q \in Processes \ {w} :
           pc[q] = "publish" \/ (q \in Workers /\ OwnsRow(q)) => run[q] # r
    <3>1. ASSUME NEW q \in Processes, pc[q] = "publish"
          PROVE  run[q] # r
      BY <1>1, <1>2, <1>6, <3>1 DEF RunsInv, Holding, Matched, Enqueuing
    <3>2. ASSUME NEW q \in Workers, OwnsRow(q)
          PROVE  run[q] # r
      BY <1>1, <1>2, <1>6, <3>2 DEF Matched, OwnRows
    <3> QED
      BY <3>1, <3>2
  <2> QED
    BY <1>1, <1>2, <1>3, <1>4, <1>6, <2>1, MatchedStep
<1> QED
  BY <1>5, <1>6

(* A process that goes on with its row and its job.                         *)
LEMMA MatchedGoesOn ==
    ASSUME RunsInv, Matched, NEW p \in Processes,
           pc[p] \in {"begin", "crawl", "report"}, NEW label \in {"crawl", "report"},
           Step(p, label, run[p], job[p]), UNCHANGED names, TaskIdNamesJob'
    PROVE  Matched'
<1>1. run[p] \in Runs /\ job[p] \in Jobs \cup {NoJob}
  BY DEF RunsInv, Holding, TypeOK
<1>2. p \in Workers /\ names[job[p]] = NoRun => OwnsRow(p)
  BY DEF OwnsRow
<1>3. ASSUME NEW q \in Processes \ {p}, pc[q] = "publish" \/ (q \in Workers /\ OwnsRow(q))
      PROVE  run[q] # run[p]
  <2>1. CASE pc[q] = "publish"
    BY <2>1 DEF RunsInv, Holding, Matched, Enqueuing
  <2>2. CASE q \in Workers /\ OwnsRow(q)
    BY <2>2 DEF Matched, OwnRows
  <2> QED
    BY <1>3, <2>1, <2>2
<1>4. p \in Workers /\ names[job[p]] = NoRun =>
         /\ \A q \in Processes \ {p} : run[q] # run[p]
         /\ \A k \in Jobs : names[k] # run[p]
  BY <1>2 DEF Matched, OwnRows
<1> QED
  BY <1>1, <1>3, <1>4, MatchedStep

LEMMA MatchedBegin ==
    ASSUME RunsInv, Matched, NEW w \in Workers, BeginRun(w)
    PROVE  Matched'
<1>1. w \in Processes
  BY DEF Processes
<1>2. ASSUME NEW v \in Workers, pc'[v] \in {"crawl", "report"}
      PROVE  taskId'[run'[v]] = job'[v]
  <2>1. v \in Processes
    BY DEF Processes
  <2>2. CASE v = w
    BY <1>1, <2>2, BeginEffect, StepFrame DEF RunsInv, TypeOK
  <2>3. CASE v # w
    <3>1. pc'[v] = pc[v] /\ run'[v] = run[v] /\ job'[v] = job[v]
      BY <1>1, <2>1, <2>3, BeginEffect, StepFrame DEF RunsInv
    <3>2. run[v] \in Runs /\ job[v] \in Jobs /\ taskId[run[v]] = job[v]
      BY <1>2, <2>1, <3>1 DEF Matched, TaskIdNamesJob, RunsInv, Holding, TypeOK
    <3>3. CASE run[v] = run[w]
      <4>1. ~OwnsRow(v) /\ ~OwnsRow(w)
        BY <1>1, <2>1, <2>3, <3>3 DEF Matched, OwnRows
      <4>2. names[job[v]] = run[v] /\ names[job[w]] = run[w] /\ names[job[v]] # NoRun
        BY <1>1, <1>2, <2>1, <3>1, <4>1, BeginEffect DEF OwnsRow, RunsInv, Named
      <4>3. job[v] = job[w]
        BY <3>2, <3>3, <4>2, BeginEffect DEF Matched, OneJobPerRow
      <4> QED
        BY <3>1, <3>3, <4>3, BeginEffect DEF RunsInv, TypeOK
    <3>4. CASE run[v] # run[w]
      BY <3>1, <3>2, <3>4, BeginEffect DEF RunsInv, TypeOK
    <3> QED
      BY <3>3, <3>4
  <2> QED
    BY <2>2, <2>3
<1>3. TaskIdNamesJob'
  BY <1>2 DEF TaskIdNamesJob
<1> QED
  BY <1>1, <1>3, BeginEffect, MatchedGoesOn

LEMMA MatchedCrawl ==
    ASSUME RunsInv, Matched, NEW p \in Processes, Crawl(p)
    PROVE  Matched'
<1>1. /\ pc[p] = "crawl" /\ Step(p, "report", run[p], job[p])
      /\ UNCHANGED <<names, taskId>>
  BY DEF Crawl, CommitCrawl, brokerVars
<1>2. run[p] \in Runs /\ job[p] \in Jobs \cup {NoJob}
  BY <1>1 DEF RunsInv, Holding, TypeOK
<1>3. p \in Workers => taskId[run[p]] = job[p]
  BY <1>1 DEF Matched, TaskIdNamesJob
<1>4. TaskIdNamesJob'
  BY <1>1, <1>2, <1>3, TaskIdFrame
<1> QED
  BY <1>1, <1>4, MatchedGoesOn

LEMMA MatchedNext == RunsInv /\ Matched /\ [Next]_vars => Matched'
<1> SUFFICES ASSUME RunsInv, Matched, [Next]_vars
             PROVE  Matched'
  OBVIOUS
<1>1. ASSUME NEW p \in Processes, Crawl(p) \/ CrawlRaises(p) \/ ReportRun(p) \/ Crash(p)
      PROVE  Matched'
  BY <1>1, MatchedCrawl, MatchedStop DEF CrawlRaises, ReportRun, Crash, rowVars, brokerVars
<1>2. ASSUME NEW h \in Handlers, HandlerStep(h)
      PROVE  Matched'
  <2>1. h \in Processes
    BY DEF Processes
  <2>2. CASE EnqueueSource(h)
    <3>1. PICK r \in UnusedRuns : Step(h, "publish", r, NoJob)
      BY <2>2 DEF EnqueueSource, EnqueueCommitted
    <3> QED
      BY <2>2, <3>1, MatchedFresh DEF EnqueueSource, brokerVars
  <2>3. CASE BeginSyncRun(h)
    <3>1. PICK r \in UnusedRuns : Step(h, "crawl", r, NoJob)
      BY <2>3 DEF BeginSyncRun
    <3> QED
      BY <2>3, <3>1, MatchedFresh DEF BeginSyncRun, brokerVars
  <2>4. CASE Publish(h) \/ NoteTask(h)
    BY <2>4, MatchedPublish, MatchedNote
  <2>5. CASE PublishFails(h)
    BY <2>1, <2>5, MatchedStop DEF PublishFails, rowVars, brokerVars
  <2> QED
    BY <1>1, <1>2, <2>1, <2>2, <2>3, <2>4, <2>5 DEF HandlerStep, ExecuteStep
<1>3. ASSUME NEW w \in Workers, WorkerStep(w)
      PROVE  Matched'
  BY <1>1, <1>3, MatchedTake, MatchedBegin DEF WorkerStep, ExecuteStep, Processes
<1>4. CASE Schedule
  BY <1>4, MatchedSchedule
<1>5. CASE UNCHANGED vars
  BY <1>5 DEF vars, rowVars, brokerVars, processVars, Matched, OneJobPerRow, Enqueuing,
              OwnRows, OwnsRow, TaskIdNamesJob
<1> QED
  BY <1>1, <1>2, <1>3, <1>4, <1>5 DEF Next

(* While a worker crawls, its row's task_id is its job's, whichever of the  *)
(* handler and the workers that hold the row wrote it last.                 *)
THEOREM RunningRowNamesItsJob == Spec => []TaskIdNamesJob
<1>1. Init => Matched
  BY DEF Init, Matched, OneJobPerRow, Enqueuing, OwnRows, OwnsRow, TaskIdNamesJob, Processes
<1>2. Matched => TaskIdNamesJob
  BY DEF Matched
<1> QED
  BY <1>1, <1>2, RunsInvariant, MatchedNext, PTL DEF Spec
=============================================================================
