----------------------- MODULE PipelineEvidenceProofs -----------------------
(***************************************************************************)
(* Theorems about the evidence Pipeline keeps, for every set of tasks,     *)
(* sources and pages: where snapshots are, under which event an article is *)
(* filed, what an event and its signal count, and who can wait for whom.   *)
(***************************************************************************)
EXTENDS PipelineProofs

-----------------------------------------------------------------------------
(* What a task can be doing, and which locks it has then.                   *)

Storing == {"store", "insert"}
Filing == {"match", "attach"}
Analysing == {"refresh", "lock", "generate"}

(* A crawl analyses when ingestion is over; a backfill ingests nothing.     *)
PhaseInv ==
    /\ \A b \in Backfills : pc[b] \in {"idle", "load", "lock", "generate", "commit"}
    /\ \A c \in Crawls :
          /\ pc[c] \in {"idle", "ingest"} \cup Storing \cup Filing \cup Analysing
          /\ pc[c] \in Analysing => todo[c] = {}

(* A crawl that has written a signal has ingested everything and holds the  *)
(* event, too; a backfill has the lock of the one signal it works on.       *)
LockInv ==
    /\ \A c \in Crawls : \A e \in touched[c] : eventLock[e] = c
    /\ \A c \in Crawls : pc[c] \in Analysing =>
          eventLock[event[c]] = c /\ event[c] \notin touched[c]
    /\ \A c \in Crawls : \A e \in Urls : signalLock[e] = c =>
          /\ eventLock[e] = c /\ e \notin touched[c]
          /\ pc[c] = "refresh" => event[c] # e
          /\ pc[c] \in Analysing \cup {"ingest"} /\ todo[c] = {}
    /\ \A b \in Backfills : \A e \in Urls :
          /\ eventLock[e] # b
          /\ signalLock[e] = b => pc[b] \in {"generate", "commit"} /\ event[b] = e

Agree(s, e) == s.articles = e.articles /\ s.sources = e.sources

(* A signal as crawl c will leave it when it commits.                       *)
SignalSeen(c, e) == IF signalLock[e] = c THEN signalDraft[e] ELSE signalRow[e]

(* An event that a crawl has written is still to be refreshed, or its signal*)
(* has the counts already; a backfill writes no signal, it only locks one.  *)
RefreshInv ==
    /\ SignalMatchesEvent
    /\ \A b \in Backfills : \A e \in Urls :
          signalLock[e] = b => Agree(signalDraft[e], signalRow[e])
    /\ \A c \in Crawls : \A e \in Urls : eventLock[e] = c =>
          \/ e \in touched[c]
          \/ pc[c] = "refresh" /\ event[c] = e
          \/ Agree(SignalSeen(c, e), eventDraft[e])

-----------------------------------------------------------------------------
(* Who has which article, and where it is filed.                            *)

(* An article is inserted by one task, and not yet when it is being stored. *)
ArticleInv ==
    /\ \A t \in Tasks : \A a \in newArticles[t] :
          /\ a \notin Stored
          /\ \A o \in Tasks : o # t => a \notin newArticles[o]
    /\ \A t \in Tasks : pc[t] \in Storing => page[t] \notin newArticles[t]
    /\ \A t \in Tasks : pc[t] \in Filing => page[t] \in newArticles[t]

FiledOnce(rows, a) == \E e \in Urls : \A f \in Urls : <<a, f>> \in rows <=> f = e

(* A task files its own articles, each once, under events it has locked; the*)
(* one it is filing now has no link yet.                                    *)
FiledInv ==
    /\ \A a, e \in Urls : <<a, e>> \in links => a \in Stored /\ eventRow[e].articles > 0
    /\ \A a \in Stored : FiledOnce(links, a)
    /\ \A t \in Tasks : \A a, e \in Urls : <<a, e>> \in newLinks[t] =>
          a \in newArticles[t] /\ eventLock[e] = t /\ ~(pc[t] \in Filing /\ page[t] = a)
    /\ \A t \in Tasks : \A a \in newArticles[t] :
          FiledOnce(newLinks[t], a) \/ (pc[t] \in Filing /\ page[t] = a)
    /\ \A e \in Urls : eventLock[e] # NoTask => eventDraft[e].articles > 0

FiledUnder(rows, e) == {a \in Urls : <<a, e>> \in rows}

(* The sources that report event e, as crawl c sees them.                   *)
SourcesOf(c, e) == {SourceSeen(c, a) : a \in FiledUnder(links \cup newLinks[c], e)}

CountInv ==
    /\ SourceCountExact
    /\ \A c \in Crawls : \A e \in Urls :
          eventLock[e] = c => eventDraft[e].sources = Cardinality(SourcesOf(c, e))

(* The snapshot of an article exists before its row does.                   *)
SnapshotInv ==
    /\ SnapshotKept
    /\ \A c \in Crawls : \A a \in newArticles[c] : <<SourceOf[c], Hash[a]>> \in snapshots
    /\ \A c \in Crawls : pc[c] = "insert" => SnapshotKey(c) \in snapshots

-----------------------------------------------------------------------------
(* Facts about kinds of steps that the proofs below share.                  *)

LEMMA TaskKinds ==
    /\ \A t \in Crawls : t \in Tasks /\ t \notin Backfills
    /\ \A t \in Backfills : t \in Tasks /\ t \notin Crawls
    /\ NoTask \notin Tasks
BY TasksAssumption DEF Tasks

(* A step of crawl t that is none of these writes no row of another table   *)
(* than the articles', and takes no lock.                                   *)
IngestStep(t) ==
    \/ StartCrawl(t) \/ SkipKnown(t) \/ FetchArticle(t) \/ FetchFails(t)
    \/ StoreSnapshot(t) \/ StoreFails(t) \/ InsertArticle(t) \/ InsertConflicts(t)
    \/ MatchEvent(t) \/ DeadlockVictim(t)

LEMMA PhaseInit == Init => PhaseInv
BY TaskKinds DEF Init, PhaseInv, Analysing

LEMMA PhaseNext == TypeInv /\ PhaseInv /\ [Next]_vars => PhaseInv'
<1> SUFFICES ASSUME TypeInv, PhaseInv, [Next]_vars
             PROVE  PhaseInv'
  OBVIOUS
<1> USE TaskKinds DEF TypeInv, TypeOK, PhaseInv, Storing, Filing, Analysing
<1>1. ASSUME NEW t \in Crawls, CrawlStep(t)
      PROVE  PhaseInv'
  <2>1. CASE IngestStep(t)
    BY <2>1 DEF IngestStep, StartCrawl, SkipKnown, FetchArticle, FetchFails,
        StoreSnapshot, StoreFails, InsertArticle, InsertConflicts, MatchEvent,
        DeadlockVictim, NextUrl, Goto
  <2>2. CASE AttachEvent(t) \/ PickEvent(t) \/ RefreshSignal(t) \/ RefreshUnchanged(t)
    BY <2>2 DEF AttachEvent, NextUrl, PickEvent, RefreshSignal, RefreshUnchanged, Goto
  <2>3. CASE LockSignal(t) \/ Generate(t) \/ GenerateFails(t) \/ CommitCrawl(t)
    BY <2>3 DEF LockSignal, Generate, GenerateFails, CommitCrawl, Goto
  <2> QED
    BY <1>1, <2>1, <2>2, <2>3 DEF CrawlStep, IngestStep
<1>2. ASSUME NEW t \in Backfills, BackfillStep(t)
      PROVE  PhaseInv'
  BY <1>2 DEF BackfillStep, SelectEligible, LoadSignal, LockSignal, Generate,
     CommitSignal, BackfillFails, EndBackfill, Goto
<1>3. ASSUME NEW t \in Tasks, Crash(t)
      PROVE  PhaseInv'
  BY <1>3 DEF Crash, Goto, Tasks
<1>4. CASE UNCHANGED vars
  BY <1>4 DEF vars
<1> QED
  BY <1>1, <1>2, <1>3, <1>4 DEF Next

-----------------------------------------------------------------------------
(* Locks.                                                                   *)

LEMMA IngestFrame ==
    ASSUME TypeInv, NEW t \in Crawls, IngestStep(t)
    PROVE  /\ UNCHANGED <<eventVars, signalVars, touched>>
           /\ pc[t] \notin Analysing
           /\ pc[t] = "ingest" => todo[t] # {}
           /\ pc'[t] \in {"ingest"} \cup Storing \cup Filing
           /\ \A o \in Tasks \ {t} :
                 /\ pc'[o] = pc[o] /\ todo'[o] = todo[o]
                 /\ page'[o] = page[o] /\ event'[o] = event[o]
<1> USE TaskKinds DEF TypeInv, TypeOK, Storing, Filing, Analysing, Goto,
        eventVars, signalVars, ingestVars
<1>1. CASE StartCrawl(t) \/ SkipKnown(t) \/ FetchArticle(t) \/ FetchFails(t)
  BY <1>1 DEF StartCrawl, SkipKnown, FetchArticle, FetchFails, NextUrl
<1>2. CASE StoreSnapshot(t) \/ StoreFails(t) \/ InsertArticle(t) \/ InsertConflicts(t)
  BY <1>2 DEF StoreSnapshot, StoreFails, InsertArticle, InsertConflicts, NextUrl
<1>3. CASE MatchEvent(t) \/ DeadlockVictim(t)
  BY <1>3 DEF MatchEvent, DeadlockVictim, NextUrl
<1> QED
  BY <1>1, <1>2, <1>3 DEF IngestStep

(* The end of t's transaction frees what t had locked and nothing else.     *)
LEMMA LocksReleased ==
    ASSUME TypeInv, NEW t \in Tasks, EndTransaction(t)
    PROVE  /\ \A e \in Urls : /\ eventLock'[e] # t /\ signalLock'[e] # t
                              /\ eventLock[e] = t => eventLock'[e] = NoTask
                              /\ eventLock[e] # t => eventLock'[e] = eventLock[e]
                              /\ signalLock[e] # t => signalLock'[e] = signalLock[e]
                              /\ eventLock[e] # t => eventDraft'[e] = eventDraft[e]
                              /\ signalLock[e] # t => signalDraft'[e] = signalDraft[e]
           /\ \A e \in Urls, o \in Tasks : eventLock'[e] = o <=> o # t /\ eventLock[e] = o
           /\ \A e \in Urls, o \in Tasks : signalLock'[e] = o <=> o # t /\ signalLock[e] = o
           /\ \A o \in Tasks \ {t} : event'[o] = event[o] /\ touched'[o] = touched[o]
                                     /\ page'[o] = page[o]
           /\ touched'[t] = {}
BY TaskKinds DEF TypeInv, TypeOK, EndTransaction, Release, Clear

LEMMA LockEnd ==
    ASSUME TypeInv, LockInv, NEW t \in Tasks, EndTransaction(t),
           NEW l \in {"idle", "load"}, Goto(t, l),
           \A o \in Tasks \ {t} : todo'[o] = todo[o]
    PROVE  LockInv'
<1>1. \A o \in Tasks \ {t} : pc'[o] = pc[o]
  BY DEF Goto, TypeInv, TypeOK
<1>2. pc'[t] \notin Analysing
  BY DEF Goto, TypeInv, TypeOK, Analysing
<1>3. \A o \in Tasks : touched[o] \subseteq Urls /\ event[o] \in Urls
  BY DEF TypeInv, TypeOK
<1> QED
  BY <1>1, <1>2, <1>3, LocksReleased, TaskKinds DEF LockInv

LEMMA LockInit == Init => LockInv
BY TaskKinds DEF Init, LockInv, Analysing

LEMMA LockNext == TypeInv /\ PhaseInv /\ LockInv /\ [Next]_vars => LockInv'
<1> SUFFICES ASSUME TypeInv, PhaseInv, LockInv, [Next]_vars
             PROVE  LockInv'
  OBVIOUS
<1>1. ASSUME NEW t \in Crawls, CrawlStep(t)
      PROVE  LockInv'
  <2> t \in Tasks /\ t \notin Backfills /\ t # NoTask
    BY TaskKinds
  <2>1. CASE IngestStep(t)
    <3>1. \A e \in Urls : signalLock[e] # t
      BY <2>1, IngestFrame DEF LockInv, PhaseInv, IngestStep
    <3>2. pc'[t] \notin Analysing
      BY <2>1, IngestFrame DEF Analysing, Storing, Filing
    <3> QED
      BY <2>1, <3>1, <3>2, IngestFrame, TaskKinds
      DEF LockInv, eventVars, signalVars
  <2>2. CASE AttachEvent(t)
    <3>1. \A e \in Urls : signalLock[e] # t
      BY <2>2 DEF AttachEvent, LockInv, Analysing
    <3>2. eventLock[event[t]] \in {t, NoTask} /\ event[t] \in Urls
      BY <2>2 DEF AttachEvent, Blocked, WaitsFor, AwaitsEvent, TypeInv, TypeOK
    <3>3. \A o \in Tasks \ {t} : /\ pc'[o] = pc[o] /\ todo'[o] = todo[o]
                                 /\ touched'[o] = touched[o] /\ event'[o] = event[o]
      BY <2>2 DEF AttachEvent, NextUrl, Goto, TypeInv, TypeOK
    <3>4. pc'[t] = "ingest" /\ touched'[t] = touched[t] \cup {event[t]}
      BY <2>2 DEF AttachEvent, NextUrl, Goto, TypeInv, TypeOK
    <3>5. UNCHANGED signalLock /\ eventLock' = [eventLock EXCEPT ![event[t]] = t]
      BY <2>2 DEF AttachEvent, signalVars
    <3> QED
      BY <3>1, <3>2, <3>3, <3>4, <3>5, TaskKinds DEF LockInv, TypeInv, TypeOK, Analysing
  <2>3. CASE PickEvent(t)
    <3>1. PICK e \in touched[t] : /\ event' = [event EXCEPT ![t] = e]
                                  /\ touched' = [touched EXCEPT ![t] = @ \ {e}]
      BY <2>3 DEF PickEvent
    <3>2. /\ UNCHANGED <<eventLock, signalLock, todo>> /\ todo[t] = {}
          /\ pc' = [pc EXCEPT ![t] = "refresh"]
      BY <2>3 DEF PickEvent, Goto, eventVars, signalVars
    <3>3. eventLock[e] = t /\ signalLock[e] # t
      BY TaskKinds DEF LockInv, TypeInv, TypeOK
    <3> QED
      BY <3>1, <3>2, <3>3, TaskKinds DEF LockInv, TypeInv, TypeOK, Analysing
  <2>4. CASE RefreshSignal(t)
    <3>1. signalLock[event[t]] \in {t, NoTask} /\ event[t] \in Urls
      BY <2>4, SignalLockFree DEF RefreshSignal, TypeInv, TypeOK
    <3>2. /\ UNCHANGED <<eventLock, todo, touched, event>> /\ pc[t] = "refresh"
          /\ signalLock' = [signalLock EXCEPT ![event[t]] = t]
          /\ \E l \in {"lock", "ingest"} : pc' = [pc EXCEPT ![t] = l]
      BY <2>4 DEF RefreshSignal, Goto, eventVars
    <3> QED
      BY <3>1, <3>2, TaskKinds DEF LockInv, PhaseInv, TypeInv, TypeOK, Analysing
  <2>5. CASE RefreshUnchanged(t) \/ Generate(t) \/ GenerateFails(t)
    <3>1. /\ UNCHANGED <<eventLock, signalLock, todo, touched, event>>
          /\ pc[t] \in {"refresh", "generate"}
          /\ \E l \in {"lock", "ingest"} : pc' = [pc EXCEPT ![t] = l]
      BY <2>5 DEF RefreshUnchanged, Generate, GenerateFails, Goto, eventVars, signalVars
    <3> QED
      BY <3>1, TaskKinds DEF LockInv, PhaseInv, TypeInv, TypeOK, Analysing
  <2>6. CASE LockSignal(t)
    <3>1. signalLock[event[t]] \in {t, NoTask} /\ event[t] \in Urls
      BY <2>6, SignalLockFree DEF LockSignal, TypeInv, TypeOK
    <3>2. /\ UNCHANGED <<eventLock, todo, touched, event>> /\ pc[t] = "lock"
          /\ signalLock' = [signalLock EXCEPT ![event[t]] = t]
          /\ \E l \in {"generate", "ingest"} : pc' = [pc EXCEPT ![t] = l]
      BY <2>6 DEF LockSignal, Goto, eventVars
    <3> QED
      BY <3>1, <3>2, TaskKinds DEF LockInv, PhaseInv, TypeInv, TypeOK, Analysing
  <2>7. CASE CommitCrawl(t)
    BY <2>7, LockEnd DEF CommitCrawl, CommitRows
  <2> QED
    BY <1>1, <2>1, <2>2, <2>3, <2>4, <2>5, <2>6, <2>7 DEF CrawlStep, IngestStep
<1>2. ASSUME NEW t \in Backfills, BackfillStep(t)
      PROVE  LockInv'
  <2> t \in Tasks /\ t \notin Crawls /\ t # NoTask
    BY TaskKinds
  <2>1. CASE SelectEligible(t) \/ LoadSignal(t) \/ EndBackfill(t)
    <3>1. /\ UNCHANGED <<eventLock, signalLock, touched>>
          /\ pc[t] \in {"idle", "load"}
          /\ \A o \in Tasks \ {t} : pc'[o] = pc[o] /\ todo'[o] = todo[o] /\ event'[o] = event[o]
      BY <2>1 DEF SelectEligible, LoadSignal, EndBackfill, Goto, eventVars, signalVars,
         TypeInv, TypeOK
    <3> QED
      BY <3>1, TaskKinds DEF LockInv
  <2>2. CASE LockSignal(t)
    <3>1. signalLock[event[t]] \in {t, NoTask} /\ event[t] \in Urls
      BY <2>2, SignalLockFree DEF LockSignal, TypeInv, TypeOK
    <3>2. /\ UNCHANGED <<eventLock, todo, touched, event>> /\ pc[t] = "lock"
          /\ signalLock' = [signalLock EXCEPT ![event[t]] = t]
          /\ \E l \in {"generate", "commit"} : pc' = [pc EXCEPT ![t] = l]
      BY <2>2 DEF LockSignal, Goto, eventVars
    <3> QED
      BY <3>1, <3>2, TaskKinds DEF LockInv, PhaseInv, TypeInv, TypeOK
  <2>3. CASE Generate(t)
    BY <2>3, TaskKinds DEF Generate, Goto, eventVars, signalVars, LockInv, TypeInv, TypeOK
  <2>4. CASE CommitSignal(t) \/ BackfillFails(t)
    BY <2>4, LockEnd DEF CommitSignal, CommitRows, BackfillFails, RollbackRows
  <2> QED
    BY <1>2, <2>1, <2>2, <2>3, <2>4 DEF BackfillStep
<1>3. ASSUME NEW t \in Tasks, Crash(t)
      PROVE  LockInv'
  <2>1. \A o \in Tasks \ {t} : todo'[o] = todo[o]
    BY <1>3 DEF Crash, TypeInv, TypeOK
  <2> QED
    BY <1>3, <2>1, LockEnd DEF Crash, RollbackRows
<1>4. CASE UNCHANGED vars
  BY <1>4 DEF vars, eventVars, signalVars, LockInv
<1> QED
  BY <1>1, <1>2, <1>3, <1>4 DEF Next

LEMMA BackfillsDoNotWait ==
    ASSUME TypeInv, LockInv, NEW b \in Backfills, NEW e \in Urls, signalLock[e] = b,
           NEW o \in Tasks
    PROVE  ~WaitsFor(b, o)
BY DEF LockInv, WaitsFor, AwaitsArticle, AwaitsEvent, AwaitsSignal

LEMMA NoDeadlock == TypeInv /\ LockInv => AnalyticsNeverDeadlock
<1> SUFFICES ASSUME TypeInv, LockInv, NEW t \in Tasks, pc[t] \in {"refresh", "lock"},
                    Deadlocked(t)
             PROVE  FALSE
  BY DEF AnalyticsNeverDeadlock
<1>1. PICK S \in SUBSET Tasks : t \in S /\ \A x \in S : \E y \in S : WaitsFor(x, y)
  BY DEF Deadlocked
<1>2. \A x \in Tasks : event[x] \in Urls
  BY DEF TypeInv, TypeOK
<1>3. ASSUME NEW x \in S, pc[x] \in {"refresh", "lock"}
      PROVE  \E y \in S : y # x /\ signalLock[event[x]] = y
  BY <1>1, <1>3 DEF WaitsFor, AwaitsArticle, AwaitsEvent, AwaitsSignal
(* A crawl awaits a signal only from a backfill, which does not wait.       *)
<1>4. ASSUME NEW c \in Crawls, c \in S, pc[c] \in {"refresh", "lock"}
      PROVE  FALSE
  <2>1. PICK y \in S : y # c /\ signalLock[event[c]] = y
    BY <1>3, <1>4
  <2>2. eventLock[event[c]] = c
    BY <1>4 DEF LockInv, Analysing
  <2>3. y \in Backfills
    BY <1>2, <1>4, <2>1, <2>2, TaskKinds DEF LockInv, Tasks
  <2> QED
    BY <1>1, <1>2, <1>4, <2>1, <2>3, BackfillsDoNotWait, TaskKinds
(* A backfill may await a crawl, but only one that is analysing.            *)
<1>5. ASSUME NEW b \in Backfills, b \in S, pc[b] \in {"refresh", "lock"}
      PROVE  FALSE
  <2>1. PICK y \in S : y # b /\ signalLock[event[b]] = y
    BY <1>3, <1>5
  <2>2. y \in Crawls
    BY <1>1, <1>2, <1>5, <2>1, BackfillsDoNotWait, TaskKinds DEF Tasks
  <2>3. pc[y] \in Analysing \cup {"ingest"}
    BY <1>2, <1>5, <2>1, <2>2, TaskKinds DEF LockInv
  <2>4. pc[y] \in {"refresh", "lock"}
    BY <1>1, <2>3 DEF Analysing, WaitsFor, AwaitsArticle, AwaitsEvent, AwaitsSignal
  <2> QED
    BY <1>4, <2>2, <2>4
<1> QED
  BY <1>1, <1>4, <1>5 DEF Tasks

(* Once a crawl has ingested, and in every backfill, no task is ever on a   *)
(* cycle of waits: build_opportunity and refresh_signal lock signals in no  *)
(* particular order, but the events' locks, taken before, already keep      *)
(* crawls apart, and a backfill commits before it locks another signal.     *)
THEOREM AnalyticsIsDeadlockFree == Spec => []AnalyticsNeverDeadlock
BY TypeInit, TypeNext, PhaseInit, PhaseNext, LockInit, LockNext, NoDeadlock, PTL DEF Spec

-----------------------------------------------------------------------------
(* Events and their signals.                                                *)

LEMMA RefreshInit == Init => RefreshInv
BY TaskKinds DEF Init, RefreshInv, SignalMatchesEvent, NoEvent, NoSignal

LEMMA CommitAgrees ==
    ASSUME TypeInv, LockInv, RefreshInv, NEW t \in Tasks, CommitRows(t),
           t \in Crawls => touched[t] = {},
           pc[t] \in {"ingest", "commit"}, NEW l \in {"idle", "load"}, Goto(t, l)
    PROVE  RefreshInv'
<1> USE TaskKinds DEF Agree
<1>1. \A e \in Urls : /\ eventRow'[e] = IF eventLock[e] = t THEN eventDraft[e] ELSE eventRow[e]
                      /\ signalRow'[e] = IF signalLock[e] = t THEN signalDraft[e] ELSE signalRow[e]
  BY DEF CommitRows, Apply
<1>2. EndTransaction(t)
  BY DEF CommitRows
<1>3. \A o \in Tasks \ {t} : pc'[o] = pc[o]
  BY DEF Goto, TypeInv, TypeOK
(* What t writes to a signal whose event it has not written is no change.   *)
<1>4. ASSUME NEW e \in Urls, eventLock[e] # t
      PROVE  Agree(signalRow'[e], signalRow[e])
  <2>1. CASE signalLock[e] = t
    <3>1. t \in Backfills
      BY <1>4, <2>1 DEF LockInv, Tasks
    <3> QED
      BY <1>1, <2>1, <3>1 DEF RefreshInv
  <2>2. CASE signalLock[e] # t
    BY <1>1, <2>2
  <2> QED
    BY <2>1, <2>2
<1>5. SignalMatchesEvent'
  <2> SUFFICES ASSUME NEW e \in Urls PROVE Agree(signalRow'[e], eventRow'[e])
    BY DEF SignalMatchesEvent
  <2>1. CASE eventLock[e] = t
    <3>1. t \in Crawls
      BY <2>1 DEF LockInv, Tasks
    <3>2. Agree(SignalSeen(t, e), eventDraft[e])
      BY <2>1, <3>1 DEF RefreshInv
    <3> QED
      BY <1>1, <2>1, <3>2 DEF SignalSeen
  <2>2. CASE eventLock[e] # t
    BY <1>1, <1>4, <2>2 DEF RefreshInv, SignalMatchesEvent
  <2> QED
    BY <2>1, <2>2
<1>6. ASSUME NEW b \in Backfills, NEW e \in Urls, signalLock'[e] = b
      PROVE  Agree(signalDraft'[e], signalRow'[e])
  BY <1>1, <1>2, <1>6, LocksReleased DEF RefreshInv
<1>7. ASSUME NEW c \in Crawls, NEW e \in Urls, eventLock'[e] = c
      PROVE  \/ e \in touched'[c]
             \/ pc'[c] = "refresh" /\ event'[c] = e
             \/ Agree(SignalSeen(c, e)', eventDraft'[e])
  <2>1. c # t /\ eventLock[e] = c
    BY <1>2, <1>7, LocksReleased
  <2>2. Agree(SignalSeen(c, e), eventDraft[e]) => Agree(SignalSeen(c, e)', eventDraft'[e])
    BY <1>2, <1>4, <2>1, LocksReleased DEF SignalSeen
  <2> QED
    BY <1>2, <1>3, <2>1, <2>2, LocksReleased DEF RefreshInv
<1> QED
  BY <1>5, <1>6, <1>7 DEF RefreshInv

LEMMA RollbackAgrees ==
    ASSUME TypeInv, LockInv, RefreshInv, NEW t \in Tasks, RollbackRows(t),
           NEW l \in {"idle", "load"}, Goto(t, l)
    PROVE  RefreshInv'
<1> USE TaskKinds DEF Agree
<1>1. EndTransaction(t) /\ UNCHANGED <<eventRow, signalRow>>
  BY DEF RollbackRows
<1>2. \A o \in Tasks \ {t} : pc'[o] = pc[o]
  BY DEF Goto, TypeInv, TypeOK
<1> QED
  BY <1>1, <1>2, LocksReleased DEF RefreshInv, SignalMatchesEvent, SignalSeen

LEMMA RefreshNext == TypeInv /\ LockInv /\ RefreshInv /\ [Next]_vars => RefreshInv'
<1> SUFFICES ASSUME TypeInv, LockInv, RefreshInv, [Next]_vars
             PROVE  RefreshInv'
  OBVIOUS
<1> USE TaskKinds DEF Agree
<1>1. ASSUME NEW t \in Crawls, CrawlStep(t)
      PROVE  RefreshInv'
  <2>1. CASE IngestStep(t)
    <3>1. pc[t] # "refresh"
      BY <2>1, IngestFrame DEF Analysing
    <3> QED
      BY <2>1, <3>1, IngestFrame
      DEF RefreshInv, SignalMatchesEvent, SignalSeen, eventVars, signalVars
  <2>2. CASE AttachEvent(t)
    <3>1. eventLock[event[t]] \in {t, NoTask} /\ event[t] \in Urls
      BY <2>2 DEF AttachEvent, Blocked, WaitsFor, AwaitsEvent, TypeInv, TypeOK
    <3>2. /\ UNCHANGED <<eventRow, signalRow, signalDraft, signalLock, event>>
          /\ eventLock' = [eventLock EXCEPT ![event[t]] = t]
          /\ \A e \in Urls \ {event[t]} : eventDraft'[e] = eventDraft[e]
          /\ touched' = [touched EXCEPT ![t] = @ \cup {event[t]}]
          /\ pc[t] = "attach" /\ pc' = [pc EXCEPT ![t] = "ingest"]
      BY <2>2 DEF AttachEvent, NextUrl, Goto, signalVars, TypeInv, TypeOK
    <3> QED
      BY <3>1, <3>2 DEF RefreshInv, SignalMatchesEvent, SignalSeen, TypeInv, TypeOK
  <2>3. CASE PickEvent(t)
    <3>1. PICK e \in touched[t] : /\ event' = [event EXCEPT ![t] = e]
                                  /\ touched' = [touched EXCEPT ![t] = @ \ {e}]
      BY <2>3 DEF PickEvent
    <3>2. /\ UNCHANGED <<eventVars, signalVars>>
          /\ pc[t] = "ingest" /\ pc' = [pc EXCEPT ![t] = "refresh"]
      BY <2>3 DEF PickEvent, Goto
    <3> QED
      BY <3>1, <3>2 DEF RefreshInv, SignalMatchesEvent, SignalSeen, eventVars, signalVars,
         TypeInv, TypeOK
  <2>4. CASE RefreshSignal(t)
    <3>1. PICK strong \in BOOLEAN :
             /\ signalDraft' = [signalDraft EXCEPT ![event[t]] = Refreshed(t, event[t], strong)]
             /\ pc' = [pc EXCEPT ![t] = IF strong THEN "lock" ELSE "ingest"]
      BY <2>4 DEF RefreshSignal, Goto, MayBeStrong
    <3>2. /\ UNCHANGED <<eventVars, signalRow, event, touched>> /\ pc[t] = "refresh"
          /\ signalLock' = [signalLock EXCEPT ![event[t]] = t]
      BY <2>4 DEF RefreshSignal
    <3>3. signalLock[event[t]] \in {t, NoTask} /\ event[t] \in Urls
      BY <2>4, SignalLockFree DEF RefreshSignal, TypeInv, TypeOK
    <3>4. Agree(Refreshed(t, event[t], strong), eventDraft[event[t]])
      BY <3>2 DEF LockInv, Analysing, Refreshed, SeenEvent
    <3> QED
      BY <3>1, <3>2, <3>3, <3>4 DEF RefreshInv, SignalMatchesEvent, SignalSeen, eventVars,
         TypeInv, TypeOK
  <2>5. CASE RefreshUnchanged(t)
    <3>1. /\ UNCHANGED <<eventVars, signalVars, event, touched>> /\ pc[t] = "refresh"
          /\ \A o \in Tasks \ {t} : pc'[o] = pc[o]
      BY <2>5 DEF RefreshUnchanged, Goto, TypeInv, TypeOK
    <3>2. Agree(signalRow[event[t]], eventDraft[event[t]])
      BY <2>5, <3>1 DEF RefreshUnchanged, LockInv, Analysing, Refreshed, SeenEvent
    <3>3. signalLock[event[t]] # t
      BY <3>1 DEF LockInv, TypeInv, TypeOK
    <3> QED
      BY <3>1, <3>2, <3>3 DEF RefreshInv, SignalMatchesEvent, SignalSeen, eventVars, signalVars
  <2>6. CASE LockSignal(t)
    <3>1. /\ UNCHANGED <<eventVars, signalRow, event, touched>> /\ pc[t] = "lock"
          /\ \A o \in Tasks \ {t} : pc'[o] = pc[o]
          /\ signalLock' = [signalLock EXCEPT ![event[t]] = t]
          /\ signalDraft' = [signalDraft EXCEPT ![event[t]] =
                               IF signalLock[event[t]] = t THEN @ ELSE signalRow[event[t]]]
      BY <2>6 DEF LockSignal, Goto, TypeInv, TypeOK
    <3>2. signalLock[event[t]] \in {t, NoTask} /\ event[t] \in Urls
      BY <2>6, SignalLockFree DEF LockSignal, TypeInv, TypeOK
    <3> QED
      BY <3>1, <3>2 DEF RefreshInv, SignalMatchesEvent, SignalSeen, eventVars, TypeInv, TypeOK
  <2>7. CASE Generate(t) \/ GenerateFails(t)
    <3>1. /\ UNCHANGED <<eventVars, signalVars, event, touched>> /\ pc[t] = "generate"
          /\ \A o \in Tasks \ {t} : pc'[o] = pc[o]
      BY <2>7 DEF Generate, GenerateFails, Goto, TypeInv, TypeOK
    <3> QED
      BY <3>1 DEF RefreshInv, SignalMatchesEvent, SignalSeen, eventVars, signalVars
  <2>8. CASE CommitCrawl(t)
    BY <2>8, CommitAgrees DEF CommitCrawl
  <2> QED
    BY <1>1, <2>1, <2>2, <2>3, <2>4, <2>5, <2>6, <2>7, <2>8 DEF CrawlStep, IngestStep
<1>2. ASSUME NEW t \in Backfills, BackfillStep(t)
      PROVE  RefreshInv'
  <2>1. CASE SelectEligible(t) \/ LoadSignal(t) \/ Generate(t) \/ EndBackfill(t)
    <3>1. /\ UNCHANGED <<eventVars, signalVars, touched>>
          /\ \A o \in Tasks \ {t} : pc'[o] = pc[o] /\ event'[o] = event[o]
      BY <2>1 DEF SelectEligible, LoadSignal, Generate, EndBackfill, Goto, TypeInv, TypeOK
    <3> QED
      BY <3>1 DEF RefreshInv, SignalMatchesEvent, SignalSeen, eventVars, signalVars
  <2>2. CASE LockSignal(t)
    <3>1. /\ UNCHANGED <<eventVars, signalRow, event, touched>> /\ pc[t] = "lock"
          /\ \A o \in Tasks \ {t} : pc'[o] = pc[o]
          /\ signalLock' = [signalLock EXCEPT ![event[t]] = t]
          /\ signalDraft' = [signalDraft EXCEPT ![event[t]] =
                               IF signalLock[event[t]] = t THEN @ ELSE signalRow[event[t]]]
      BY <2>2 DEF LockSignal, Goto, TypeInv, TypeOK
    <3>2. signalLock[event[t]] \in {t, NoTask} /\ event[t] \in Urls
      BY <2>2, SignalLockFree DEF LockSignal, TypeInv, TypeOK
    <3> QED
      BY <3>1, <3>2 DEF RefreshInv, SignalMatchesEvent, SignalSeen, eventVars, TypeInv, TypeOK
  <2>3. CASE CommitSignal(t)
    BY <2>3, CommitAgrees DEF CommitSignal
  <2>4. CASE BackfillFails(t)
    BY <2>4, RollbackAgrees DEF BackfillFails
  <2> QED
    BY <1>2, <2>1, <2>2, <2>3, <2>4 DEF BackfillStep
<1>3. ASSUME NEW t \in Tasks, Crash(t)
      PROVE  RefreshInv'
  BY <1>3, RollbackAgrees DEF Crash
<1>4. CASE UNCHANGED vars
  BY <1>4 DEF vars, eventVars, signalVars, RefreshInv, SignalMatchesEvent, SignalSeen
<1> QED
  BY <1>1, <1>2, <1>3, <1>4 DEF Next

(* No crawl leaves an event it has changed without a refresh of its signal, *)
(* and no refresh from older counts is committed over a newer one.          *)
THEOREM SignalsAreCurrent == Spec => []SignalMatchesEvent
<1>1. RefreshInv => SignalMatchesEvent
  BY DEF RefreshInv
<1> QED
  BY TypeInit, TypeNext, PhaseInit, PhaseNext, LockInit, LockNext, RefreshInit, RefreshNext,
     <1>1, PTL DEF Spec

-----------------------------------------------------------------------------
(* The steps that matter to articles, links and snapshots: those that file  *)
(* an article, and the end of a transaction.                                *)

FilingStep(t) ==
    \/ FetchArticle(t) \/ StoreSnapshot(t) \/ StoreFails(t) \/ InsertArticle(t)
    \/ InsertConflicts(t) \/ MatchEvent(t) \/ AttachEvent(t) \/ DeadlockVictim(t)

Ends(t) == \E l \in {"idle", "load"} : Goto(t, l)

Commits(t) ==
    /\ CommitRows(t) /\ UNCHANGED snapshots
    /\ pc[t] \notin Storing \cup Filing
    /\ Ends(t)

RollsBack(t) == RollbackRows(t) /\ UNCHANGED snapshots /\ Ends(t)

(* The task is not filing an article, before or after, and files nothing.   *)
Quiet(t) ==
    /\ UNCHANGED <<articleVars, eventVars, ingestVars>>
    /\ \A o \in Tasks \ {t} : event'[o] = event[o]
    /\ pc[t] \notin Storing \cup Filing
    /\ \E l \in Labels \ (Storing \cup Filing) : Goto(t, l)

LEMMA StepKinds ==
    ASSUME TypeInv, PhaseInv, [Next]_vars
    PROVE  \/ \E t \in Crawls : FilingStep(t)
           \/ \E t \in Tasks : Quiet(t) \/ Commits(t) \/ RollsBack(t)
           \/ UNCHANGED vars
<1> USE TaskKinds
<1> USE DEF Storing, Filing, Labels
<1>1. ASSUME NEW t \in Crawls, CrawlStep(t)
      PROVE  FilingStep(t) \/ Quiet(t) \/ Commits(t)
  <2>1. CASE StartCrawl(t) \/ SkipKnown(t) \/ FetchFails(t) \/ PickEvent(t)
    <3>1. UNCHANGED <<articleVars, eventVars, ingestVars>> /\ pc[t] \in {"idle", "ingest"}
      BY <2>1 DEF StartCrawl, SkipKnown, FetchFails, PickEvent
    <3>2. \A o \in Tasks \ {t} : event'[o] = event[o]
      BY <2>1 DEF StartCrawl, SkipKnown, FetchFails, PickEvent, TypeInv, TypeOK
    <3>3. \E l \in {"ingest", "refresh"} : Goto(t, l)
      BY <2>1 DEF StartCrawl, SkipKnown, FetchFails, PickEvent, NextUrl
    <3> QED
      BY <3>1, <3>2, <3>3 DEF Quiet
  <2>2. CASE RefreshSignal(t) \/ RefreshUnchanged(t)
    <3>1. /\ UNCHANGED <<articleVars, eventVars, ingestVars, event>> /\ pc[t] = "refresh"
          /\ \E l \in {"lock", "ingest"} : Goto(t, l)
      BY <2>2 DEF RefreshSignal, RefreshUnchanged
    <3> QED
      BY <3>1 DEF Quiet
  <2>3. CASE LockSignal(t) \/ Generate(t) \/ GenerateFails(t)
    <3>1. /\ UNCHANGED <<articleVars, eventVars, ingestVars, event>>
          /\ pc[t] \in {"lock", "generate"}
          /\ \E l \in {"generate", "ingest"} : Goto(t, l)
      BY <2>3 DEF LockSignal, Generate, GenerateFails
    <3> QED
      BY <3>1 DEF Quiet
  <2>4. CASE CommitCrawl(t)
    BY <2>4 DEF CommitCrawl, Commits, Ends
  <2> QED
    BY <1>1, <2>1, <2>2, <2>3, <2>4 DEF CrawlStep, FilingStep
<1>2. ASSUME NEW t \in Backfills, BackfillStep(t)
      PROVE  Quiet(t) \/ Commits(t) \/ RollsBack(t)
  <2>1. CASE SelectEligible(t) \/ LoadSignal(t) \/ EndBackfill(t)
    <3>1. /\ UNCHANGED <<articleVars, eventVars, ingestVars>> /\ pc[t] \in {"idle", "load"}
          /\ \E l \in {"load", "lock", "idle"} : Goto(t, l)
      BY <2>1 DEF SelectEligible, LoadSignal, EndBackfill
    <3>2. \A o \in Tasks \ {t} : event'[o] = event[o]
      BY <2>1 DEF SelectEligible, LoadSignal, EndBackfill, TypeInv, TypeOK
    <3> QED
      BY <3>1, <3>2 DEF Quiet
  <2>2. CASE LockSignal(t) \/ Generate(t)
    <3>1. /\ UNCHANGED <<articleVars, eventVars, ingestVars, event>>
          /\ pc[t] \in {"lock", "generate"}
          /\ \E l \in {"generate", "commit"} : Goto(t, l)
      BY <2>2 DEF LockSignal, Generate
    <3> QED
      BY <3>1 DEF Quiet
  <2>3. CASE CommitSignal(t)
    BY <2>3 DEF CommitSignal, Commits, Ends
  <2>4. CASE BackfillFails(t)
    BY <2>4 DEF BackfillFails, RollsBack, Ends
  <2> QED
    BY <1>2, <2>1, <2>2, <2>3, <2>4 DEF BackfillStep
<1>3. ASSUME NEW t \in Tasks, Crash(t)
      PROVE  RollsBack(t)
  BY <1>3 DEF Crash, RollsBack, Ends
<1> QED
  BY <1>1, <1>2, <1>3 DEF Next

(* What a filing step does to the tables, action by action.                 *)
LEMMA FilingFrame ==
    ASSUME TypeInv, NEW t \in Crawls, FilingStep(t)
    PROVE  /\ UNCHANGED <<articleSource, links, eventRow>>
           /\ \A o \in Tasks \ {t} : /\ newArticles'[o] = newArticles[o]
                                     /\ newLinks'[o] = newLinks[o]
                                     /\ pc'[o] = pc[o] /\ page'[o] = page[o]
           /\ snapshots \subseteq snapshots'
           /\ AttachEvent(t) \/ UNCHANGED eventVars
           /\ InsertArticle(t) \/ DeadlockVictim(t) \/ UNCHANGED newArticles
           /\ FetchArticle(t) \/ UNCHANGED page
           /\ InsertArticle(t) => pc[t] = "insert" /\ pc'[t] = "match"
           /\ MatchEvent(t) => pc[t] = "match" /\ pc'[t] = "attach"
           /\ FetchArticle(t) => pc[t] = "ingest" /\ pc'[t] = "store"
           /\ StoreSnapshot(t) => pc[t] = "store" /\ pc'[t] = "insert"
           /\ AttachEvent(t) => pc[t] = "attach" /\ pc'[t] = "ingest"
           /\ DeadlockVictim(t) => pc[t] \in {"insert", "attach"} /\ pc'[t] = "ingest"
           /\ StoreFails(t) \/ InsertConflicts(t) => pc[t] \in Storing /\ pc'[t] = "ingest"
<1> USE TaskKinds DEF TypeInv, TypeOK, Goto, NextUrl, Storing, eventVars, articleVars, ingestVars
<1>1. CASE FetchArticle(t)
  BY <1>1 DEF FetchArticle, StoreSnapshot, StoreFails, InsertArticle, InsertConflicts,
     MatchEvent, AttachEvent, DeadlockVictim
<1>2. CASE StoreSnapshot(t) \/ StoreFails(t)
  BY <1>2 DEF FetchArticle, StoreSnapshot, StoreFails, InsertArticle, InsertConflicts,
     MatchEvent, AttachEvent, DeadlockVictim, PutText, MayPutText
<1>3. CASE InsertArticle(t) \/ InsertConflicts(t)
  BY <1>3 DEF FetchArticle, StoreSnapshot, StoreFails, InsertArticle, InsertConflicts,
     MatchEvent, AttachEvent, DeadlockVictim
<1>4. CASE MatchEvent(t) \/ AttachEvent(t)
  BY <1>4 DEF FetchArticle, StoreSnapshot, StoreFails, InsertArticle, InsertConflicts,
     MatchEvent, AttachEvent, DeadlockVictim
<1>5. CASE DeadlockVictim(t)
  BY <1>5 DEF FetchArticle, StoreSnapshot, StoreFails, InsertArticle, InsertConflicts,
     MatchEvent, AttachEvent, DeadlockVictim, RollbackSavepoint
<1> QED
  BY <1>1, <1>2, <1>3, <1>4, <1>5 DEF FilingStep

(* What the end of a transaction does to the tables.                        *)
LEMMA EndFrame ==
    ASSUME TypeInv, NEW t \in Tasks, Commits(t) \/ RollsBack(t)
    PROVE  /\ newArticles' = [newArticles EXCEPT ![t] = {}]
           /\ newLinks' = [newLinks EXCEPT ![t] = {}]
           /\ pc'[t] \in {"idle", "load"} /\ UNCHANGED snapshots
           /\ EndTransaction(t)
           /\ \A o \in Tasks \ {t} : pc'[o] = pc[o] /\ page'[o] = page[o]
BY DEF Commits, RollsBack, CommitRows, RollbackRows, EndTransaction, Ends, Goto,
   TypeInv, TypeOK

LEMMA CommitFrame ==
    ASSUME TypeInv, NEW t \in Tasks, Commits(t)
    PROVE  /\ \A a \in newArticles[t] :
                 t \in Crawls /\ a \in Stored' /\ articleSource'[a] = SourceOf[t]
           /\ \A a \in Urls \ newArticles[t] : articleSource'[a] = articleSource[a]
           /\ Stored' = Stored \cup newArticles[t]
           /\ links' = links \cup newLinks[t]
           /\ \A e \in Urls : eventRow'[e] = IF eventLock[e] = t THEN eventDraft[e]
                                             ELSE eventRow[e]
<1>1. \A a \in Urls : articleSource'[a] = SourceSeen(t, a)
  BY DEF Commits, CommitRows
<1>2. newArticles[t] \subseteq Urls /\ (newArticles[t] # {} => t \in Crawls)
  BY DEF TypeInv, TypeOK, Tasks
<1>3. t \in Crawls => SourceOf[t] # NoSource
  BY TasksAssumption
<1>4. Stored' = Stored \cup newArticles[t]
  BY <1>1, <1>2, <1>3 DEF Stored, SourceSeen
<1> QED
  BY <1>1, <1>2, <1>3, <1>4 DEF Commits, CommitRows, SourceSeen, Apply

-----------------------------------------------------------------------------
(* Snapshots.                                                               *)

LEMMA SnapshotInit == Init => SnapshotInv
BY TaskKinds DEF Init, SnapshotInv, SnapshotKept, Stored

LEMMA SnapshotNext == TypeInv /\ PhaseInv /\ SnapshotInv /\ [Next]_vars => SnapshotInv'
<1> SUFFICES ASSUME TypeInv, PhaseInv, SnapshotInv, [Next]_vars
             PROVE  SnapshotInv'
  OBVIOUS
<1> USE TaskKinds DEF SnapshotInv, SnapshotKept
<1>1. ASSUME NEW t \in Crawls, FilingStep(t)
      PROVE  SnapshotInv'
  <2>1. SnapshotKept'
    BY <1>1, FilingFrame DEF Stored
  <2>2. ASSUME NEW c \in Crawls, NEW a \in newArticles'[c]
        PROVE  <<SourceOf[c], Hash[a]>> \in snapshots'
    <3>1. CASE a \in newArticles[c]
      BY <1>1, <3>1, FilingFrame
    <3>2. CASE a \notin newArticles[c]
      <4>1. c = t /\ InsertArticle(t) /\ a = page[t] /\ pc[t] = "insert"
        BY <1>1, <2>2, <3>2, FilingFrame
        DEF InsertArticle, DeadlockVictim, RollbackSavepoint, TypeInv, TypeOK
      <4> QED
        BY <4>1, <1>1, FilingFrame DEF SnapshotKey
    <3> QED
      BY <3>1, <3>2
  <2>3. ASSUME NEW c \in Crawls, pc'[c] = "insert"
        PROVE  SnapshotKey(c)' \in snapshots'
    <3>1. CASE c # t
      BY <1>1, <2>3, <3>1, FilingFrame DEF SnapshotKey
    <3>2. CASE c = t
      <4>1. StoreSnapshot(t)
        BY <1>1, <2>3, <3>2, FilingFrame DEF FilingStep
      <4> QED
        BY <3>2, <4>1 DEF StoreSnapshot, PutText, SnapshotKey, ingestVars
    <3> QED
      BY <3>1, <3>2
  <2> QED
    BY <2>1, <2>2, <2>3
<1>2. ASSUME NEW t \in Tasks, Quiet(t)
      PROVE  SnapshotInv'
  <2>1. \A c \in Crawls : pc'[c] = "insert" => pc[c] = "insert"
    BY <1>2 DEF Quiet, Goto, Storing, TypeInv, TypeOK
  <2> QED
    BY <1>2, <2>1 DEF Quiet, articleVars, ingestVars, Stored, SnapshotKey
<1>3. ASSUME NEW t \in Tasks, Commits(t)
      PROVE  SnapshotInv'
  <2>1. SnapshotKept'
    <3> SUFFICES ASSUME NEW a \in Stored'
                 PROVE  <<articleSource'[a], Hash[a]>> \in snapshots'
      OBVIOUS
    <3>1. CASE a \in newArticles[t]
      BY <1>3, <3>1, CommitFrame, EndFrame
    <3>2. CASE a \notin newArticles[t]
      <4>1. a \in Stored /\ articleSource'[a] = articleSource[a]
        BY <1>3, <3>2, CommitFrame DEF Stored
      <4> QED
        BY <1>3, <4>1, EndFrame
    <3> QED
      BY <3>1, <3>2
  <2> QED
    BY <1>3, <2>1, EndFrame DEF SnapshotKey, TypeInv, TypeOK
<1>4. ASSUME NEW t \in Tasks, RollsBack(t)
      PROVE  SnapshotInv'
  <2>1. UNCHANGED articleSource
    BY <1>4 DEF RollsBack, RollbackRows
  <2> QED
    BY <1>4, <2>1, EndFrame DEF SnapshotKey, Stored, TypeInv, TypeOK
<1>5. CASE UNCHANGED vars
  BY <1>5 DEF vars, articleVars, ingestVars, Stored, SnapshotKey
<1> QED
  BY <1>1, <1>2, <1>3, <1>4, <1>5, StepKinds

(* "Raw HTML is saved to MinIO before analysis": whatever is rolled back,   *)
(* the object that a committed article names exists (ingest_url).           *)
THEOREM SnapshotsAreKept == Spec => []SnapshotKept
<1>1. SnapshotInv => SnapshotKept
  BY DEF SnapshotInv
<1> QED
  BY TypeInit, TypeNext, PhaseInit, PhaseNext, SnapshotInit, SnapshotNext, <1>1, PTL DEF Spec

-----------------------------------------------------------------------------
(* Articles.                                                                *)

LEMMA ArticleInit == Init => ArticleInv
BY TaskKinds DEF Init, ArticleInv, Storing, Filing

LEMMA ArticleNext == TypeInv /\ PhaseInv /\ ArticleInv /\ [Next]_vars => ArticleInv'
<1> SUFFICES ASSUME TypeInv, PhaseInv, ArticleInv, [Next]_vars
             PROVE  ArticleInv'
  OBVIOUS
<1> USE TaskKinds DEF ArticleInv, Storing, Filing
<1>1. ASSUME NEW t \in Crawls, FilingStep(t)
      PROVE  ArticleInv'
  <2>1. CASE FetchArticle(t)
    <3>1. page'[t] \notin newArticles[t]
      BY <2>1 DEF FetchArticle, IsKnown, SeenArticles, TypeInv, TypeOK
    <3> QED
      BY <1>1, <2>1, <3>1, FilingFrame DEF Stored, FetchArticle, articleVars
  <2>2. CASE InsertArticle(t)
    <3>1. /\ pc[t] = "insert" /\ pc'[t] = "match" /\ UNCHANGED <<articleSource, page>>
          /\ page[t] \notin Stored
          /\ newArticles' = [newArticles EXCEPT ![t] = @ \cup {page[t]}]
      BY <1>1, <2>2, FilingFrame DEF InsertArticle, ingestVars
    <3>2. \A o \in Tasks : o # t => page[t] \notin newArticles[o]
      BY <2>2, <3>1 DEF InsertArticle, Blocked, WaitsFor, AwaitsArticle
    <3> QED
      BY <1>1, <3>1, <3>2, FilingFrame DEF Stored, TypeInv, TypeOK
  <2>3. CASE DeadlockVictim(t)
    <3>1. /\ pc'[t] = "ingest" /\ UNCHANGED <<articleSource, page>>
          /\ newArticles' = [newArticles EXCEPT ![t] = @ \ {page[t]}]
      BY <1>1, <2>3, FilingFrame DEF DeadlockVictim, RollbackSavepoint, ingestVars
    <3> QED
      BY <1>1, <3>1, FilingFrame DEF Stored, TypeInv, TypeOK
  <2>4. CASE StoreSnapshot(t) \/ StoreFails(t) \/ InsertConflicts(t) \/ MatchEvent(t)
             \/ AttachEvent(t)
    <3>1. UNCHANGED <<articleSource, newArticles, page>>
      BY <2>4 DEF StoreSnapshot, StoreFails, InsertConflicts, MatchEvent, AttachEvent,
         articleVars, ingestVars
    <3> QED
      BY <1>1, <2>4, <3>1, FilingFrame DEF Stored
  <2> QED
    BY <1>1, <2>1, <2>2, <2>3, <2>4 DEF FilingStep
<1>2. ASSUME NEW t \in Tasks, Quiet(t)
      PROVE  ArticleInv'
  <2>1. /\ UNCHANGED <<articleSource, newArticles, page>>
        /\ \A o \in Tasks : pc'[o] \in Storing \cup Filing => pc'[o] = pc[o]
    BY <1>2 DEF Quiet, Goto, articleVars, ingestVars, TypeInv, TypeOK
  <2> QED
    BY <2>1 DEF Stored
<1>3. ASSUME NEW t \in Tasks, Commits(t) \/ RollsBack(t)
      PROVE  ArticleInv'
  <2>1. Stored' \subseteq Stored \cup newArticles[t]
    BY <1>3, CommitFrame DEF RollsBack, RollbackRows, Stored
  <2>2. newArticles'[t] = {} /\ \A o \in Tasks \ {t} : newArticles'[o] = newArticles[o]
    BY <1>3, EndFrame DEF TypeInv, TypeOK
  <2>3. ASSUME NEW o \in Tasks, NEW a \in newArticles'[o]
        PROVE  a \notin Stored' /\ \A p \in Tasks : p # o => a \notin newArticles'[p]
    BY <2>1, <2>2, <2>3
  <2>4. \A o \in Tasks \ {t} : pc'[o] = pc[o] /\ page'[o] = page[o]
    BY <1>3, EndFrame
  <2>5. pc'[t] \notin Storing \cup Filing
    BY <1>3, EndFrame
  <2> QED
    BY <2>2, <2>3, <2>4, <2>5
<1>4. CASE UNCHANGED vars
  BY <1>4 DEF vars, articleVars, ingestVars, Stored
<1> QED
  BY <1>1, <1>2, <1>3, <1>4, StepKinds

-----------------------------------------------------------------------------
(* Links.                                                                   *)

LEMMA FiledInit == Init => FiledInv
BY TaskKinds DEF Init, FiledInv, Stored

(* An article with one link in rows has that one in more, too, if the other *)
(* links are other articles'.                                               *)
LEMMA FiledOnceMore ==
    ASSUME NEW rows, NEW more, NEW a, FiledOnce(rows, a),
           \A f \in Urls : <<a, f>> \in more <=> <<a, f>> \in rows
    PROVE  FiledOnce(more, a)
BY DEF FiledOnce

(* The savepoint of an ingested article ends: its link is the only one.     *)
LEMMA AttachFiles ==
    ASSUME TypeInv, ArticleInv, FiledInv, NEW t \in Crawls, AttachEvent(t)
    PROVE  FiledInv'
<1> USE TaskKinds
<1> DEFINE p == page[t]
           e == event[t]
<1>1. /\ pc[t] = "attach" /\ pc' = [pc EXCEPT ![t] = "ingest"]
      /\ UNCHANGED <<articleSource, newArticles, links, eventRow, page>>
      /\ newLinks' = [newLinks EXCEPT ![t] = @ \cup {<<p, e>>}]
      /\ eventLock' = [eventLock EXCEPT ![e] = t]
      /\ \A f \in Urls \ {e} : eventDraft'[f] = eventDraft[f]
      /\ eventDraft'[e].articles = count[t] + 1
  BY DEF AttachEvent, NextUrl, Goto, articleVars, ingestVars, TypeInv, TypeOK
<1>2. p \in Urls /\ e \in Urls /\ count[t] \in Nat /\ newLinks \in [Tasks -> SUBSET (Urls \X Urls)]
      /\ eventLock \in [Urls -> Tasks \cup {NoTask}] /\ pc \in [Tasks -> Labels]
  BY DEF TypeInv, TypeOK
<1>3. eventLock[e] \in {t, NoTask}
  BY <1>1, <1>2 DEF AttachEvent, Blocked, WaitsFor, AwaitsEvent
<1>4. p \in newArticles[t]
  BY <1>1 DEF ArticleInv, Filing
<1>5. \A o \in Tasks : \A a, f \in Urls :
         <<a, f>> \in newLinks'[o] <=> <<a, f>> \in newLinks[o] \/ (o = t /\ a = p /\ f = e)
  BY <1>1, <1>2
<1>6. \A f \in Urls : <<p, f>> \notin newLinks[t]
  BY <1>1, <1>2 DEF FiledInv, Filing
<1> HIDE DEF p, e
<1>7. \A o \in Tasks : \A a, f \in Urls : <<a, f>> \in newLinks'[o] =>
         a \in newArticles'[o] /\ eventLock'[f] = o /\ ~(pc'[o] \in Filing /\ page'[o] = a)
  <2> SUFFICES ASSUME NEW o \in Tasks, NEW a \in Urls, NEW f \in Urls, <<a, f>> \in newLinks'[o]
               PROVE  /\ a \in newArticles'[o] /\ eventLock'[f] = o
                      /\ ~(pc'[o] \in Filing /\ page'[o] = a)
    OBVIOUS
  <2>1. CASE o = t /\ a = p /\ f = e
    BY <1>1, <1>2, <1>4, <2>1 DEF Filing
  <2>2. CASE <<a, f>> \in newLinks[o]
    <3>1. a \in newArticles[o] /\ eventLock[f] = o /\ ~(pc[o] \in Filing /\ page[o] = a)
      BY <2>2 DEF FiledInv
    <3> QED
      BY <1>1, <1>2, <1>3, <3>1 DEF Filing
  <2> QED
    BY <1>5, <2>1, <2>2
<1>8. \A o \in Tasks : \A a \in newArticles'[o] :
         FiledOnce(newLinks'[o], a) \/ (pc'[o] \in Filing /\ page'[o] = a)
  <2> SUFFICES ASSUME NEW o \in Tasks, NEW a \in newArticles[o]
               PROVE  FiledOnce(newLinks'[o], a) \/ (pc'[o] \in Filing /\ page'[o] = a)
    BY <1>1
  <2>1. a \in Urls
    BY DEF TypeInv, TypeOK
  <2>2. CASE o = t /\ a = p
    BY <1>2, <1>5, <1>6, <2>2 DEF FiledOnce
  <2>3. CASE ~(o = t /\ a = p)
    <3>1. FiledOnce(newLinks[o], a) \/ (pc[o] \in Filing /\ page[o] = a)
      BY DEF FiledInv
    <3>2. FiledOnce(newLinks[o], a) => FiledOnce(newLinks'[o], a)
      BY <1>5, <2>1, <2>3, FiledOnceMore
    <3> QED
      BY <1>1, <1>2, <2>3, <3>1, <3>2 DEF p
  <2> QED
    BY <2>2, <2>3
<1>9. \A f \in Urls : eventLock'[f] # NoTask => eventDraft'[f].articles > 0
  BY <1>1, <1>2 DEF FiledInv
<1>10. UNCHANGED <<links, eventRow, Stored>>
  BY <1>1 DEF Stored
<1>11. /\ \A a, f \in Urls : <<a, f>> \in links' => a \in Stored' /\ eventRow'[f].articles > 0
       /\ \A a \in Stored' : FiledOnce(links', a)
  BY <1>10 DEF FiledInv
<1> QED
  BY <1>7, <1>8, <1>9, <1>11 DEF FiledInv

(* The articles of a transaction are committed with their links and events. *)
LEMMA CommitFiles ==
    ASSUME TypeInv, ArticleInv, FiledInv, NEW t \in Tasks, Commits(t)
    PROVE  FiledInv'
<1> USE TaskKinds
<1>1. pc[t] \notin Filing
  BY DEF Commits
<1>2. /\ newLinks'[t] = {} /\ \A o \in Tasks \ {t} : newLinks'[o] = newLinks[o]
      /\ newArticles'[t] = {} /\ \A o \in Tasks \ {t} : newArticles'[o] = newArticles[o]
  BY EndFrame DEF TypeInv, TypeOK
<1>3. Stored \subseteq Urls /\ newArticles[t] \subseteq Urls
  BY DEF Stored, TypeInv, TypeOK
<1>4. \A e \in Urls : eventRow[e].articles > 0 \/ eventLock[e] = t => eventRow'[e].articles > 0
  BY CommitFrame DEF FiledInv
<1>5. \A a, e \in Urls : <<a, e>> \in links' => a \in Stored' /\ eventRow'[e].articles > 0
  <2> SUFFICES ASSUME NEW a \in Urls, NEW e \in Urls, <<a, e>> \in links'
               PROVE  a \in Stored' /\ eventRow'[e].articles > 0
    OBVIOUS
  <2>1. CASE <<a, e>> \in links
    BY <1>4, <2>1, CommitFrame DEF FiledInv
  <2>2. CASE <<a, e>> \in newLinks[t]
    BY <1>4, <2>2, CommitFrame DEF FiledInv
  <2> QED
    BY <2>1, <2>2, CommitFrame
<1>6. \A a \in Stored' : FiledOnce(links', a)
  <2> SUFFICES ASSUME NEW a \in Stored' PROVE FiledOnce(links', a)
    OBVIOUS
  <2>1. CASE a \in newArticles[t]
    <3>1. FiledOnce(newLinks[t], a)
      BY <1>1, <2>1 DEF FiledInv
    <3>2. \A f \in Urls : <<a, f>> \notin links
      BY <1>3, <2>1 DEF FiledInv, ArticleInv
    <3> QED
      BY <3>1, <3>2, FiledOnceMore, CommitFrame
  <2>2. CASE a \notin newArticles[t]
    <3>1. a \in Stored /\ FiledOnce(links, a)
      BY <2>2, CommitFrame DEF FiledInv
    <3>2. \A f \in Urls : <<a, f>> \notin newLinks[t]
      BY <1>3, <2>2, <3>1 DEF FiledInv
    <3> QED
      BY <3>1, <3>2, FiledOnceMore, CommitFrame
  <2> QED
    BY <2>1, <2>2
<1>7. \A o \in Tasks : \A a, e \in Urls : <<a, e>> \in newLinks'[o] =>
         a \in newArticles'[o] /\ eventLock'[e] = o /\ ~(pc'[o] \in Filing /\ page'[o] = a)
  BY <1>2, EndFrame, LocksReleased DEF FiledInv
<1>8. \A o \in Tasks : \A a \in newArticles'[o] :
         FiledOnce(newLinks'[o], a) \/ (pc'[o] \in Filing /\ page'[o] = a)
  BY <1>2, EndFrame DEF FiledInv
<1>9. \A e \in Urls : eventLock'[e] # NoTask => eventDraft'[e].articles > 0
  BY EndFrame, LocksReleased DEF FiledInv
<1> QED
  BY <1>5, <1>6, <1>7, <1>8, <1>9 DEF FiledInv

LEMMA RollbackFiles ==
    ASSUME TypeInv, FiledInv, NEW t \in Tasks, RollsBack(t)
    PROVE  FiledInv'
<1> USE TaskKinds
<1>1. /\ newLinks'[t] = {} /\ \A o \in Tasks \ {t} : newLinks'[o] = newLinks[o]
      /\ newArticles'[t] = {} /\ \A o \in Tasks \ {t} : newArticles'[o] = newArticles[o]
      /\ UNCHANGED <<links, eventRow, Stored>>
  BY EndFrame DEF TypeInv, TypeOK, RollsBack, RollbackRows, Stored
<1>2. \A o \in Tasks : \A a, e \in Urls : <<a, e>> \in newLinks'[o] =>
         a \in newArticles'[o] /\ eventLock'[e] = o /\ ~(pc'[o] \in Filing /\ page'[o] = a)
  BY <1>1, EndFrame, LocksReleased DEF FiledInv
<1>3. \A o \in Tasks : \A a \in newArticles'[o] :
         FiledOnce(newLinks'[o], a) \/ (pc'[o] \in Filing /\ page'[o] = a)
  BY <1>1, EndFrame DEF FiledInv
<1>4. \A e \in Urls : eventLock'[e] # NoTask => eventDraft'[e].articles > 0
  BY EndFrame, LocksReleased DEF FiledInv
<1>5. /\ \A a, e \in Urls : <<a, e>> \in links' => a \in Stored' /\ eventRow'[e].articles > 0
      /\ \A a \in Stored' : FiledOnce(links', a)
  BY <1>1 DEF FiledInv
<1> QED
  BY <1>2, <1>3, <1>4, <1>5 DEF FiledInv

LEMMA FiledNext == TypeInv /\ PhaseInv /\ ArticleInv /\ FiledInv /\ [Next]_vars => FiledInv'
<1> SUFFICES ASSUME TypeInv, PhaseInv, ArticleInv, FiledInv, [Next]_vars
             PROVE  FiledInv'
  OBVIOUS
<1> USE TaskKinds
<1>1. ASSUME NEW t \in Crawls, FilingStep(t)
      PROVE  FiledInv'
  <2>1. CASE AttachEvent(t)
    BY <2>1, AttachFiles
  <2>2. CASE InsertArticle(t)
    <3>1. /\ pc[t] = "insert" /\ pc'[t] \in Filing
          /\ UNCHANGED <<articleSource, eventVars, page>>
          /\ newArticles' = [newArticles EXCEPT ![t] = @ \cup {page[t]}]
      BY <1>1, <2>2, FilingFrame DEF InsertArticle, ingestVars, Filing
    <3>2. page[t] \notin newArticles[t]
      BY <3>1 DEF ArticleInv, Storing
    <3> QED
      BY <1>1, <3>1, <3>2, FilingFrame DEF FiledInv, Stored, eventVars, Filing, TypeInv, TypeOK
  <2>3. CASE DeadlockVictim(t)
    <3>1. /\ pc'[t] = "ingest" /\ UNCHANGED <<articleSource, eventVars, page>>
          /\ newArticles' = [newArticles EXCEPT ![t] = @ \ {page[t]}]
          /\ pc[t] \in Storing \cup Filing
      BY <1>1, <2>3, FilingFrame DEF DeadlockVictim, RollbackSavepoint, ingestVars, Storing, Filing
    <3>2. \A a, e \in Urls : <<a, e>> \in newLinks[t] => a # page[t]
      BY <3>1 DEF FiledInv, ArticleInv
    <3> QED
      BY <1>1, <3>1, <3>2, FilingFrame DEF FiledInv, Stored, eventVars, Filing, TypeInv, TypeOK
  <2>4. CASE FetchArticle(t)
    <3>1. /\ pc[t] \notin Filing /\ pc'[t] \notin Filing
          /\ UNCHANGED <<articleSource, newArticles, eventVars>>
      BY <1>1, <2>4, FilingFrame DEF FetchArticle, articleVars, Filing
    <3> QED
      BY <1>1, <3>1, FilingFrame DEF FiledInv, Stored, eventVars
  <2>5. CASE StoreSnapshot(t) \/ StoreFails(t) \/ InsertConflicts(t) \/ MatchEvent(t)
    <3>1. /\ UNCHANGED <<articleSource, newArticles, eventVars, page>>
          /\ pc[t] \in Filing <=> pc'[t] \in Filing
      BY <1>1, <2>5, FilingFrame DEF StoreSnapshot, StoreFails, InsertConflicts, MatchEvent,
         articleVars, ingestVars, Storing, Filing
    <3> QED
      BY <1>1, <3>1, FilingFrame DEF FiledInv, Stored, eventVars
  <2> QED
    BY <1>1, <2>1, <2>2, <2>3, <2>4, <2>5 DEF FilingStep
<1>2. ASSUME NEW t \in Tasks, Quiet(t)
      PROVE  FiledInv'
  <2>1. /\ UNCHANGED <<articleVars, eventVars, page>>
        /\ \A o \in Tasks : pc'[o] \in Filing <=> pc[o] \in Filing
    BY <1>2 DEF Quiet, Goto, ingestVars, TypeInv, TypeOK
  <2> QED
    BY <2>1 DEF FiledInv, Stored, eventVars, articleVars
<1>3. ASSUME NEW t \in Tasks, Commits(t)
      PROVE  FiledInv'
  BY <1>3, CommitFiles
<1>4. ASSUME NEW t \in Tasks, RollsBack(t)
      PROVE  FiledInv'
  BY <1>4, RollbackFiles
<1>5. CASE UNCHANGED vars
  BY <1>5 DEF vars, articleVars, eventVars, ingestVars, Stored, FiledInv
<1> QED
  BY <1>1, <1>2, <1>3, <1>4, <1>5, StepKinds

LEMMA FiledOnceIsOneLink ==
    ASSUME NEW rows \in SUBSET (Urls \X Urls), NEW a \in Urls, FiledOnce(rows, a)
    PROVE  Cardinality({l \in rows : l[1] = a}) = 1
<1>1. PICK e \in Urls : \A f \in Urls : <<a, f>> \in rows <=> f = e
  BY DEF FiledOnce
<1>2. ASSUME NEW l \in rows, l[1] = a PROVE l = <<a, e>>
  BY <1>1, <1>2
<1>3. {l \in rows : l[1] = a} = {<<a, e>>}
  BY <1>1, <1>2
<1> QED
  BY <1>3, FS_Singleton

(* Each committed article is filed under exactly one committed event, and   *)
(* no link dangles: savepoints, deadlocks and crashes leave nothing halfway.*)
THEOREM ArticlesAreFiled == Spec => []EveryArticleFiled
<1>1. TypeInv /\ FiledInv => EveryArticleFiled
  <2> SUFFICES ASSUME TypeInv, FiledInv PROVE EveryArticleFiled
    OBVIOUS
  <2>1. links \in SUBSET (Urls \X Urls) /\ Stored \subseteq Urls
    BY DEF TypeInv, TypeOK, Stored
  <2>2. \A a \in Stored : Cardinality({l \in links : l[1] = a}) = 1
    BY <2>1, FiledOnceIsOneLink DEF FiledInv
  <2>3. \A l \in links : l[1] \in Stored /\ eventRow[l[2]].articles > 0
    BY <2>1 DEF FiledInv
  <2> QED
    BY <2>2, <2>3 DEF EveryArticleFiled
<1> QED
  BY TypeInit, TypeNext, PhaseInit, PhaseNext, ArticleInit, ArticleNext, FiledInit, FiledNext,
     <1>1, PTL DEF Spec

-----------------------------------------------------------------------------
(* Counts of sources.                                                       *)

LEMMA ArticlesOfEvent ==
    ASSUME TypeOK, NEW e
    PROVE  ArticlesOf(e) = FiledUnder(links, e)
BY DEF TypeOK, ArticlesOf, FiledUnder

(* What is counted: the links task t sees, one of them still to be written. *)
LEMMA SourcesCounted ==
    ASSUME TypeOK, NEW t \in Tasks, NEW e \in Urls, NEW rows \in SUBSET (Urls \X Urls)
    PROVE  {SourceSeen(t, l[1]) : l \in {k \in rows : k[2] = e}}
             = {SourceSeen(t, a) : a \in FiledUnder(rows, e)}
<1>1. ASSUME NEW l \in rows, l[2] = e PROVE l[1] \in FiledUnder(rows, e)
  BY <1>1 DEF FiledUnder
<1>2. ASSUME NEW a \in FiledUnder(rows, e)
      PROVE  \E l \in {k \in rows : k[2] = e} : l[1] = a
  BY <1>2 DEF FiledUnder
<1> QED
  BY <1>1, <1>2

LEMMA CountInit == Init => CountInv
<1> SUFFICES ASSUME Init PROVE CountInv
  OBVIOUS
<1>1. ASSUME NEW e \in Urls PROVE {articleSource[a] : a \in ArticlesOf(e)} = {}
  BY DEF Init, ArticlesOf
<1> QED
  BY <1>1, FS_EmptySet, TaskKinds DEF Init, CountInv, SourceCountExact, NoEvent

(* Nothing that crawl c counts for an event it has locked is changed by a   *)
(* step that files no article under that event and withdraws none.          *)
LEMMA SameSources ==
    ASSUME NEW c \in Crawls, NEW e \in Urls,
           FiledUnder(links' \cup newLinks'[c], e) = FiledUnder(links \cup newLinks[c], e),
           \A a \in FiledUnder(links \cup newLinks[c], e) : SourceSeen(c, a)' = SourceSeen(c, a)
    PROVE  SourcesOf(c, e)' = SourcesOf(c, e)
BY DEF SourcesOf

LEMMA FiledIsSeen ==
    ASSUME TypeInv, FiledInv, NEW c \in Tasks, NEW e \in Urls,
           NEW a \in FiledUnder(links \cup newLinks[c], e)
    PROVE  a \in Urls /\ a \in Stored \cup newArticles[c]
BY DEF FiledUnder, FiledInv

LEMMA AttachCounts ==
    ASSUME TypeInv, FiledInv, CountInv, NEW t \in Crawls, AttachEvent(t)
    PROVE  CountInv'
<1> USE TaskKinds
<1>p. PICK p \in Urls : p = page[t]
  BY DEF TypeInv, TypeOK
<1>e. PICK e \in Urls : e = event[t]
  BY DEF TypeInv, TypeOK
<1> DEFINE seen == {SourceSeen(t, l[1]) : l \in LinksSeen(t, e)}
           rows == links \cup newLinks[t] \cup {<<p, e>>}
<1>1. /\ UNCHANGED <<articleSource, newArticles, links, eventRow>>
      /\ newLinks' = [newLinks EXCEPT ![t] = @ \cup {<<p, e>>}]
      /\ eventLock' = [eventLock EXCEPT ![e] = t]
      /\ eventDraft' = [eventDraft EXCEPT ![e] =
                           [articles |-> count[t] + 1, sources |-> Cardinality(seen),
                            lastSeen |-> clock + 1]]
  BY <1>p, <1>e DEF AttachEvent, articleVars
<1>2. /\ links \subseteq Urls \X Urls
      /\ newLinks \in [Tasks -> SUBSET (Urls \X Urls)]
      /\ eventLock \in [Urls -> Tasks \cup {NoTask}] /\ eventDraft \in [Urls -> EventRows]
  BY DEF TypeInv, TypeOK
<1>3. eventLock[e] \in {t, NoTask}
  BY <1>2, <1>e DEF AttachEvent, Blocked, WaitsFor, AwaitsEvent
<1>4. seen = {SourceSeen(t, a) : a \in FiledUnder(rows, e)}
  <2>1. rows \in SUBSET (Urls \X Urls)
    BY <1>2
  <2>2. LinksSeen(t, e) = {k \in rows : k[2] = e}
    BY <1>p DEF LinksSeen
  <2> HIDE DEF rows
  <2>3. {SourceSeen(t, l[1]) : l \in {k \in rows : k[2] = e}}
          = {SourceSeen(t, a) : a \in FiledUnder(rows, e)}
    BY <2>1, SourcesCounted, TaskKinds DEF TypeInv
  <2>4. seen = {SourceSeen(t, l[1]) : l \in {k \in rows : k[2] = e}}
    BY <2>2
  <2> QED
    BY <2>3, <2>4
<1>5. \A c \in Tasks, a \in Urls : SourceSeen(c, a)' = SourceSeen(c, a)
  BY <1>1 DEF SourceSeen
<1>6. SourcesOf(t, e)' = seen
  <2>1. links' \cup newLinks'[t] = rows
    BY <1>1, <1>2
  <2>2. FiledUnder(rows, e) \subseteq Urls
    BY DEF FiledUnder
  <2> HIDE DEF rows, seen
  <2>3. SourcesOf(t, e)' = {SourceSeen(t, a)' : a \in FiledUnder(rows, e)}
    BY <2>1 DEF SourcesOf
  <2> QED
    BY <1>4, <1>5, <2>2, <2>3
<1> HIDE DEF seen
<1>7. ASSUME NEW c \in Crawls, NEW f \in Urls, eventLock'[f] = c
      PROVE  eventDraft'[f].sources = Cardinality(SourcesOf(c, f)')
  <2>1. CASE f = e
    BY <1>1, <1>2, <1>6, <1>7, <2>1
  <2>2. CASE f # e
    <3>1. eventLock[f] = c /\ eventDraft'[f] = eventDraft[f]
      BY <1>1, <1>2, <1>7, <2>2
    <3>2. FiledUnder(links' \cup newLinks'[c], f) = FiledUnder(links \cup newLinks[c], f)
      BY <1>1, <1>2, <2>2 DEF FiledUnder
    <3>3. SourcesOf(c, f)' = SourcesOf(c, f)
      <4>1. \A a \in FiledUnder(links \cup newLinks[c], f) : SourceSeen(c, a)' = SourceSeen(c, a)
        BY <1>5 DEF FiledUnder
      <4> QED
        BY <3>2, <4>1, SameSources
    <3> QED
      BY <3>1, <3>3 DEF CountInv
  <2> QED
    BY <2>1, <2>2
<1>8. SourceCountExact'
  BY <1>1 DEF CountInv, SourceCountExact, ArticlesOf
<1> QED
  BY <1>7, <1>8 DEF CountInv

(* A step of t that changes no link and no row of an event.                 *)
LEMMA CountFrame ==
    ASSUME TypeInv, FiledInv, CountInv, UNCHANGED <<articleSource, eventVars>>,
           \A c \in Crawls : \A a \in Stored \cup newArticles[c] :
              (\E e \in Urls : <<a, e>> \in links \cup newLinks[c])
                 => (a \in newArticles'[c] <=> a \in newArticles[c])
    PROVE  CountInv'
<1>1. ASSUME NEW c \in Crawls, NEW e \in Urls
      PROVE  SourcesOf(c, e)' = SourcesOf(c, e)
  <2>1. FiledUnder(links' \cup newLinks'[c], e) = FiledUnder(links \cup newLinks[c], e)
    BY DEF eventVars
  <2>2. ASSUME NEW a \in FiledUnder(links \cup newLinks[c], e)
        PROVE  SourceSeen(c, a)' = SourceSeen(c, a)
    <3>1. <<a, e>> \in links \cup newLinks[c]
      BY DEF FiledUnder
    <3> QED
      BY <3>1, FiledIsSeen, TaskKinds DEF SourceSeen
  <2> QED
    BY <2>1, <2>2, SameSources
<1>2. SourceCountExact'
  BY DEF CountInv, SourceCountExact, ArticlesOf, eventVars
<1> QED
  BY <1>1, <1>2 DEF CountInv, eventVars

LEMMA CommitCounts ==
    ASSUME TypeInv, LockInv, ArticleInv, FiledInv, CountInv, NEW t \in Tasks, Commits(t)
    PROVE  CountInv'
<1> USE TaskKinds
<1>1. /\ newLinks'[t] = {} /\ \A o \in Tasks \ {t} : newLinks'[o] = newLinks[o]
      /\ newArticles'[t] = {} /\ \A o \in Tasks \ {t} : newArticles'[o] = newArticles[o]
  BY EndFrame DEF TypeInv, TypeOK
<1>2. ASSUME NEW a \in Stored PROVE a \in Urls /\ articleSource'[a] = articleSource[a]
  BY <1>2, CommitFrame DEF Stored, ArticleInv
(* The others' links are to other events, their articles are other ones.    *)
<1>3. ASSUME NEW c \in Crawls, NEW e \in Urls, eventLock'[e] = c
      PROVE  eventDraft'[e].sources = Cardinality(SourcesOf(c, e)')
  <2>1. c # t /\ eventLock[e] = c /\ eventDraft'[e] = eventDraft[e]
    BY <1>3, EndFrame, LocksReleased
  <2>2. FiledUnder(links' \cup newLinks'[c], e) = FiledUnder(links \cup newLinks[c], e)
    <3>1. \A a \in Urls : <<a, e>> \notin newLinks[t]
      BY <2>1 DEF FiledInv
    <3> QED
      BY <1>1, <2>1, <3>1, CommitFrame DEF FiledUnder
  <2>3. ASSUME NEW a \in FiledUnder(links \cup newLinks[c], e)
        PROVE  SourceSeen(c, a)' = SourceSeen(c, a)
    <3>1. CASE a \in newArticles[c]
      BY <1>1, <2>1, <3>1 DEF SourceSeen
    <3>2. CASE a \notin newArticles[c]
      BY <1>1, <1>2, <2>1, <3>2, FiledIsSeen DEF SourceSeen
    <3> QED
      BY <3>1, <3>2
  <2>4. SourcesOf(c, e)' = SourcesOf(c, e)
    BY <2>2, <2>3, SameSources
  <2> QED
    BY <2>1, <2>4 DEF CountInv
<1>4. ASSUME NEW e \in Urls
      PROVE  eventRow'[e].sources = Cardinality({articleSource'[a] : a \in FiledUnder(links', e)})
  <2>1. CASE eventLock[e] = t
    <3>1. t \in Crawls
      BY <2>1 DEF LockInv, Tasks
    <3>2. \A a \in Urls : articleSource'[a] = SourceSeen(t, a)
      BY DEF Commits, CommitRows
    <3>3. {articleSource'[a] : a \in FiledUnder(links', e)} = SourcesOf(t, e)
      BY <3>2, CommitFrame DEF SourcesOf, FiledUnder
    <3>4. eventRow'[e] = eventDraft[e]
      BY <2>1, CommitFrame
    <3>5. eventDraft[e].sources = Cardinality(SourcesOf(t, e))
      BY <2>1, <3>1 DEF CountInv
    <3> QED
      BY <3>3, <3>4, <3>5
  <2>2. CASE eventLock[e] # t
    <3>1. \A a \in Urls : <<a, e>> \notin newLinks[t]
      BY <2>2 DEF FiledInv
    <3>2. FiledUnder(links', e) = FiledUnder(links, e)
      BY <3>1, CommitFrame DEF FiledUnder
    <3>3. \A a \in FiledUnder(links, e) : articleSource'[a] = articleSource[a]
      BY <1>2 DEF FiledInv, FiledUnder
    <3>4. {articleSource'[a] : a \in FiledUnder(links', e)}
            = {articleSource[a] : a \in FiledUnder(links, e)}
      BY <3>2, <3>3
    <3>5. eventRow'[e] = eventRow[e]
      BY <2>2, CommitFrame
    <3> QED
      BY <3>4, <3>5, ArticlesOfEvent DEF CountInv, SourceCountExact, TypeInv
  <2> QED
    BY <2>1, <2>2
<1>5. \A e \in Urls : ArticlesOf(e)' = FiledUnder(links', e)
  <2>1. links' \subseteq Urls \X Urls
    BY CommitFrame DEF TypeInv, TypeOK
  <2> QED
    BY <2>1 DEF ArticlesOf, FiledUnder
<1> QED
  BY <1>3, <1>4, <1>5 DEF CountInv, SourceCountExact

LEMMA RollbackCounts ==
    ASSUME TypeInv, CountInv, NEW t \in Tasks, RollsBack(t)
    PROVE  CountInv'
<1> USE TaskKinds
<1>1. /\ \A o \in Tasks \ {t} : newLinks'[o] = newLinks[o]
      /\ \A o \in Tasks \ {t} : newArticles'[o] = newArticles[o]
      /\ UNCHANGED <<articleSource, links, eventRow>>
  BY EndFrame DEF TypeInv, TypeOK, RollsBack, RollbackRows
<1>2. ASSUME NEW c \in Crawls, NEW e \in Urls, c # t
      PROVE  SourcesOf(c, e)' = SourcesOf(c, e)
  BY <1>1, <1>2 DEF SourcesOf, SourceSeen, FiledUnder
<1>3. SourceCountExact'
  BY <1>1 DEF CountInv, SourceCountExact, ArticlesOf
<1> QED
  BY <1>2, <1>3, EndFrame, LocksReleased DEF CountInv

LEMMA CountNext ==
    TypeInv /\ PhaseInv /\ LockInv /\ ArticleInv /\ FiledInv /\ CountInv /\ [Next]_vars
      => CountInv'
<1> SUFFICES ASSUME TypeInv, PhaseInv, LockInv, ArticleInv, FiledInv, CountInv, [Next]_vars
             PROVE  CountInv'
  OBVIOUS
<1> USE TaskKinds
<1>1. ASSUME NEW t \in Crawls, FilingStep(t)
      PROVE  CountInv'
  <2>1. CASE AttachEvent(t)
    BY <2>1, AttachCounts
  <2>2. CASE InsertArticle(t)
    <3>1. /\ pc[t] = "insert" /\ page[t] \notin Stored
          /\ UNCHANGED <<articleSource, eventVars>>
          /\ newArticles' = [newArticles EXCEPT ![t] = @ \cup {page[t]}]
      BY <2>2 DEF InsertArticle
    <3>2. page[t] \notin newArticles[t]
      BY <3>1 DEF ArticleInv, Storing
    <3> QED
      BY <3>1, <3>2, CountFrame DEF TypeInv, TypeOK
  <2>3. CASE DeadlockVictim(t)
    <3>1. /\ UNCHANGED <<articleSource, eventVars>>
          /\ newArticles' = [newArticles EXCEPT ![t] = @ \ {page[t]}]
          /\ pc[t] \in Storing \cup Filing
      BY <1>1, <2>3, FilingFrame DEF DeadlockVictim, RollbackSavepoint, Storing, Filing
    <3>2. page[t] \in newArticles[t] =>
             \A e \in Urls : <<page[t], e>> \notin links \cup newLinks[t]
      BY <3>1 DEF FiledInv, ArticleInv, TypeInv, TypeOK
    <3> QED
      BY <3>1, <3>2, CountFrame DEF TypeInv, TypeOK
  <2>4. CASE FetchArticle(t) \/ StoreSnapshot(t) \/ StoreFails(t) \/ InsertConflicts(t)
             \/ MatchEvent(t)
    <3>1. UNCHANGED <<articleSource, newArticles, eventVars>>
      BY <2>4 DEF FetchArticle, StoreSnapshot, StoreFails, InsertConflicts, MatchEvent,
         articleVars
    <3> QED
      BY <3>1, CountFrame
  <2> QED
    BY <1>1, <2>1, <2>2, <2>3, <2>4 DEF FilingStep
<1>2. ASSUME NEW t \in Tasks, Quiet(t)
      PROVE  CountInv'
  BY <1>2, CountFrame DEF Quiet, articleVars
<1>3. ASSUME NEW t \in Tasks, Commits(t)
      PROVE  CountInv'
  BY <1>3, CommitCounts
<1>4. ASSUME NEW t \in Tasks, RollsBack(t)
      PROVE  CountInv'
  BY <1>4, RollbackCounts
<1>5. CASE UNCHANGED vars
  BY <1>5, CountFrame DEF vars, articleVars
<1> QED
  BY <1>1, <1>2, <1>3, <1>4, <1>5, StepKinds

(* source_count, which attach_event counts again under the row lock, is     *)
(* right for every committed event however many crawls file under it at the *)
(* same time - article_count, added to before the lock is had, is not.      *)
THEOREM SourceCountsAreExact == Spec => []SourceCountExact
<1>1. CountInv => SourceCountExact
  BY DEF CountInv
<1> QED
  BY TypeInit, TypeNext, PhaseInit, PhaseNext, LockInit, LockNext, ArticleInit, ArticleNext,
     FiledInit, FiledNext, CountInit, CountNext, <1>1, PTL DEF Spec

-----------------------------------------------------------------------------
(* Founders.                                                                *)
(* An event contains the article that founded it, so the page of an article *)
(* that is being filed names no event yet.                                  *)
FounderInv ==
    /\ \A e \in Urls : eventRow[e].articles > 0 => <<e, e>> \in links
    /\ \A t \in Tasks : \A e \in Urls :
          eventLock[e] = t => <<e, e>> \in links \cup newLinks[t]
    /\ \A c \in Crawls : pc[c] = "attach" => event[c] = page[c] \/ event[c] \in SeenEvents(c)

LEMMA FounderInit == Init => FounderInv
BY TaskKinds DEF Init, FounderInv, NoEvent

LEMMA FounderNext == TypeInv /\ PhaseInv /\ FiledInv /\ FounderInv /\ [Next]_vars => FounderInv'
<1> SUFFICES ASSUME TypeInv, PhaseInv, FiledInv, FounderInv, [Next]_vars
             PROVE  FounderInv'
  OBVIOUS
<1> USE TaskKinds
<1>1. ASSUME NEW t \in Crawls, FilingStep(t)
      PROVE  FounderInv'
  <2>1. CASE AttachEvent(t)
    <3>1. PICK e \in Urls : e = event[t]
      BY DEF TypeInv, TypeOK
    <3>2. /\ UNCHANGED <<links, eventRow, event, page>>
          /\ pc[t] = "attach" /\ pc'[t] = "ingest" /\ \A o \in Tasks \ {t} : pc'[o] = pc[o]
          /\ newLinks' = [newLinks EXCEPT ![t] = @ \cup {<<page[t], e>>}]
          /\ eventLock' = [eventLock EXCEPT ![e] = t]
      BY <1>1, <2>1, <3>1, FilingFrame DEF AttachEvent, ingestVars
    <3>3. eventLock[e] \in {t, NoTask}
      BY <2>1, <3>1 DEF AttachEvent, Blocked, WaitsFor, AwaitsEvent, TypeInv, TypeOK
    <3>4. <<e, e>> \in links' \cup newLinks'[t]
      <4>1. CASE e = page[t]
        BY <3>2, <4>1 DEF TypeInv, TypeOK
      <4>2. CASE e \in SeenEvents(t)
        BY <3>2, <4>2 DEF FounderInv, SeenEvents, TypeInv, TypeOK
      <4> QED
        BY <3>1, <3>2, <4>1, <4>2 DEF FounderInv
    <3>5. \A c \in Crawls : c # t => SeenEvents(c)' = SeenEvents(c)
      BY <3>2, <3>3 DEF SeenEvents, TypeInv, TypeOK
    <3> QED
      BY <3>2, <3>3, <3>4, <3>5 DEF FounderInv, TypeInv, TypeOK
  <2>2. CASE MatchEvent(t)
    <3>1. /\ UNCHANGED <<eventVars, page>>
          /\ \A o \in Tasks \ {t} : pc'[o] = pc[o] /\ event'[o] = event[o]
          /\ \/ event'[t] = page[t] \/ event'[t] \in SeenEvents(t)
      BY <1>1, <2>2, FilingFrame DEF MatchEvent, Matches, Candidates, Newest, TypeInv, TypeOK
    <3> QED
      BY <3>1 DEF FounderInv, SeenEvents, eventVars
  <2>3. CASE FetchArticle(t) \/ StoreSnapshot(t) \/ StoreFails(t) \/ InsertArticle(t)
             \/ InsertConflicts(t) \/ DeadlockVictim(t)
    <3>1. /\ UNCHANGED <<eventVars, event>> /\ pc'[t] # "attach"
          /\ \A o \in Tasks \ {t} : pc'[o] = pc[o] /\ page'[o] = page[o]
      BY <1>1, <2>3, FilingFrame DEF FetchArticle, StoreSnapshot, StoreFails, InsertArticle,
         InsertConflicts, DeadlockVictim
    <3> QED
      BY <3>1 DEF FounderInv, SeenEvents, eventVars
  <2> QED
    BY <1>1, <2>1, <2>2, <2>3 DEF FilingStep
<1>2. ASSUME NEW t \in Tasks, Quiet(t)
      PROVE  FounderInv'
  <2>1. \A c \in Crawls : pc'[c] = "attach" => c # t /\ pc[c] = "attach"
    BY <1>2 DEF Quiet, Goto, Filing, TypeInv, TypeOK
  <2> QED
    BY <1>2, <2>1 DEF Quiet, FounderInv, SeenEvents, eventVars, ingestVars
<1>3. ASSUME NEW t \in Tasks, Commits(t) \/ RollsBack(t)
      PROVE  FounderInv'
  <2>1. /\ newLinks'[t] = {} /\ \A o \in Tasks \ {t} : newLinks'[o] = newLinks[o]
        /\ EndTransaction(t) /\ pc'[t] # "attach"
        /\ \A o \in Tasks \ {t} : pc'[o] = pc[o] /\ page'[o] = page[o]
    <3>1. /\ newLinks' = [newLinks EXCEPT ![t] = {}] /\ EndTransaction(t)
          /\ pc'[t] # "attach" /\ \A o \in Tasks \ {t} : pc'[o] = pc[o] /\ page'[o] = page[o]
      BY <1>3, EndFrame
    <3> QED
      BY <3>1 DEF TypeInv, TypeOK
  <2>2. /\ links \subseteq links'
        /\ \A e \in Urls : eventRow'[e].articles > 0 => <<e, e>> \in links'
        /\ \A e \in Urls : eventRow[e].articles > 0 => eventRow'[e].articles > 0
    <3>1. CASE Commits(t)
      BY <3>1, CommitFrame DEF FounderInv, FiledInv
    <3>2. CASE RollsBack(t)
      BY <3>2 DEF FounderInv, RollsBack, RollbackRows
    <3> QED
      BY <1>3, <3>1, <3>2
  <2>3. \A o \in Tasks : \A e \in Urls : eventLock'[e] = o => <<e, e>> \in links' \cup newLinks'[o]
    BY <2>1, <2>2, LocksReleased DEF FounderInv
  <2>4. \A c \in Crawls : pc'[c] = "attach" => event'[c] = page'[c] \/ event'[c] \in SeenEvents(c)'
    <3> SUFFICES ASSUME NEW c \in Crawls, pc'[c] = "attach"
                 PROVE  event'[c] = page'[c] \/ event'[c] \in SeenEvents(c)'
      OBVIOUS
    <3>1. c # t /\ pc[c] = "attach" /\ event'[c] = event[c] /\ page'[c] = page[c]
      BY <2>1, LocksReleased
    <3>2. SeenEvents(c) \subseteq SeenEvents(c)'
      BY <2>1, <2>2, <3>1, LocksReleased DEF SeenEvents
    <3> QED
      BY <3>1, <3>2 DEF FounderInv
  <2> QED
    BY <2>2, <2>3, <2>4 DEF FounderInv
<1>4. CASE UNCHANGED vars
  BY <1>4 DEF vars, eventVars, ingestVars, FounderInv, SeenEvents
<1> QED
  BY <1>1, <1>2, <1>3, <1>4, StepKinds

(* The page of an article that is being filed is not yet an event.          *)
LEMMA NewPageIsNoEvent ==
    ASSUME TypeInv, ArticleInv, FiledInv, FounderInv, NEW t \in Crawls, pc[t] \in Filing
    PROVE  page[t] \in Urls \ SeenEvents(t)
<1> DEFINE p == page[t]
<1>1. t \in Tasks /\ p \in Urls
  BY TaskKinds DEF TypeInv, TypeOK
<1>2. p \in newArticles[t] /\ p \notin Stored
  BY <1>1 DEF ArticleInv
<1>3. <<p, p>> \notin links
  BY <1>1, <1>2 DEF FiledInv
<1>4. <<p, p>> \notin newLinks[t]
  BY <1>1 DEF FiledInv
<1> QED
  BY <1>1, <1>3, <1>4 DEF FounderInv, SeenEvents

-----------------------------------------------------------------------------
(* Crawls that do not overlap.  With one crawl at a time (and any number of *)
(* backfills), the clusters and counts of articles are right as well: it is *)
(* what other crawls have not committed, or commit after the crawl has read,*)
(* and nothing else, that can make a second article of a text, a second     *)
(* event of a story or a wrong article_count.                               *)
CrawlsAreSerial == \A c, d \in Crawls : c = d

(* No text is seen twice, and the one being stored has not been seen.       *)
ContentInv ==
    /\ OneArticlePerContent
    /\ \A c \in Crawls : \A a, b \in SeenArticles(c) : Hash[a] = Hash[b] => a = b
    /\ \A c \in Crawls : pc[c] \in Storing =>
          \A a \in SeenArticles(c) : Hash[a] # Hash[page[c]]

Unlike(S) == \A e, f \in S : e # f => <<e, f>> \notin Similar

(* The newest events a crawl sees are unlike each other, also after the one *)
(* that it is going to found.                                               *)
StoryInv ==
    /\ OneEventPerStory
    /\ \A c \in Crawls : Unlike(Candidates(c))
    /\ \A c \in Crawls : pc[c] = "attach" => Unlike(Candidates(c) \cup {event[c]})

FiledBy(c, e) == FiledUnder(links \cup newLinks[c], e)

(* The counts of an event are its links'; so is a count just read.          *)
ArticleCountInv ==
    /\ \A e \in Urls : /\ IsFiniteSet(FiledUnder(links, e))
                       /\ eventRow[e].articles = Cardinality(FiledUnder(links, e))
    /\ \A c \in Crawls : \A e \in Urls : eventLock[e] = c =>
          /\ IsFiniteSet(FiledBy(c, e))
          /\ eventDraft[e].articles = Cardinality(FiledBy(c, e))
    /\ \A c \in Crawls : pc[c] = "attach" =>
          /\ IsFiniteSet(FiledBy(c, event[c]))
          /\ count[c] = Cardinality(FiledBy(c, event[c]))

LEMMA ContentInit == Init => ContentInv
BY TaskKinds DEF Init, ContentInv, OneArticlePerContent, SeenArticles, Stored, Storing

LEMMA ContentNext ==
    ASSUME CrawlsAreSerial, TypeInv, PhaseInv, ContentInv, [Next]_vars
    PROVE  ContentInv'
<1> USE TaskKinds
<1>1. ASSUME NEW t \in Crawls, FilingStep(t)
      PROVE  ContentInv'
  <2>1. \A c \in Crawls : c = t
    BY DEF CrawlsAreSerial
  <2>2. UNCHANGED Stored
    BY <1>1, FilingFrame DEF Stored
  <2>3. CASE FetchArticle(t)
    <3>1. \A a \in SeenArticles(t) : Hash[a] # Hash[page'[t]]
      BY <2>3 DEF FetchArticle, IsKnown, TypeInv, TypeOK
    <3> QED
      BY <2>1, <2>2, <2>3, <3>1
      DEF FetchArticle, articleVars, ContentInv, OneArticlePerContent, SeenArticles
  <2>4. CASE InsertArticle(t)
    <3>1. /\ pc[t] = "insert" /\ pc'[t] = "match"
          /\ newArticles'[t] = newArticles[t] \cup {page[t]}
      BY <1>1, <2>4, FilingFrame DEF InsertArticle, TypeInv, TypeOK
    <3>2. \A a \in SeenArticles(t) : Hash[a] # Hash[page[t]]
      BY <3>1 DEF ContentInv, Storing
    <3> QED
      BY <2>1, <2>2, <3>1, <3>2
      DEF ContentInv, OneArticlePerContent, SeenArticles, Storing
  <2>5. CASE DeadlockVictim(t)
    <3>1. pc'[t] = "ingest" /\ newArticles'[t] \subseteq newArticles[t]
      BY <1>1, <2>5, FilingFrame DEF DeadlockVictim, RollbackSavepoint, TypeInv, TypeOK
    <3> QED
      BY <2>1, <2>2, <3>1 DEF ContentInv, OneArticlePerContent, SeenArticles, Storing
  <2>6. CASE StoreSnapshot(t) \/ StoreFails(t) \/ InsertConflicts(t) \/ MatchEvent(t)
             \/ AttachEvent(t)
    <3>1. UNCHANGED <<newArticles, page>> /\ (pc'[t] \in Storing => pc[t] \in Storing)
      BY <1>1, <2>6, FilingFrame DEF StoreSnapshot, StoreFails, InsertConflicts, MatchEvent,
         AttachEvent, articleVars, ingestVars, Storing
    <3> QED
      BY <2>1, <2>2, <3>1 DEF ContentInv, OneArticlePerContent, SeenArticles
  <2> QED
    BY <1>1, <2>3, <2>4, <2>5, <2>6 DEF FilingStep
<1>2. ASSUME NEW t \in Tasks, Quiet(t)
      PROVE  ContentInv'
  <2>1. \A c \in Crawls : pc'[c] \in Storing => pc[c] \in Storing
    BY <1>2 DEF Quiet, Goto, TypeInv, TypeOK
  <2> QED
    BY <1>2, <2>1 DEF Quiet, ContentInv, OneArticlePerContent, SeenArticles, Stored,
       articleVars, ingestVars
<1>3. ASSUME NEW t \in Tasks, Commits(t) \/ RollsBack(t)
      PROVE  ContentInv'
  <2>1. Stored' \subseteq Stored \cup newArticles[t]
    BY <1>3, CommitFrame DEF RollsBack, RollbackRows, Stored
  <2>2. \A c \in Crawls : newArticles'[c] \subseteq newArticles[c]
    BY <1>3, EndFrame DEF TypeInv, TypeOK
  <2>3. t \notin Crawls => newArticles[t] = {}
    BY DEF TypeInv, Tasks
  <2>4. \A c \in Crawls : SeenArticles(c)' \subseteq SeenArticles(c)
    BY <2>1, <2>2, <2>3 DEF SeenArticles, CrawlsAreSerial
  <2>5. OneArticlePerContent'
    <3>1. CASE t \in Crawls
      BY <2>1, <3>1 DEF ContentInv, OneArticlePerContent, SeenArticles
    <3>2. CASE t \notin Crawls
      BY <2>1, <2>3, <3>2 DEF ContentInv, OneArticlePerContent
    <3> QED
      BY <3>1, <3>2
  <2>6. \A c \in Crawls : pc'[c] \in Storing => pc[c] \in Storing /\ page'[c] = page[c]
    BY <1>3, EndFrame DEF Storing
  <2> QED
    BY <2>4, <2>5, <2>6 DEF ContentInv
<1>4. CASE UNCHANGED vars
  BY <1>4 DEF vars, articleVars, ingestVars, ContentInv, OneArticlePerContent, SeenArticles,
     Stored
<1> QED
  BY <1>1, <1>2, <1>3, <1>4, StepKinds

(* content_hash keeps syndicated copies out while crawls do not overlap:    *)
(* the row a crawl inserts has a text that no article has (ingest_url).     *)
THEOREM SerialContentIsUnique ==
    ASSUME CrawlsAreSerial
    PROVE  Spec => []OneArticlePerContent
<1>1. TypeInv /\ PhaseInv /\ ContentInv /\ [Next]_vars => ContentInv'
  BY ContentNext
<1>2. ContentInv => OneArticlePerContent
  BY DEF ContentInv
<1> QED
  BY TypeInit, TypeNext, PhaseInit, PhaseNext, ContentInit, <1>1, <1>2, PTL DEF Spec

(* last_seen_at of an event, also of one not yet committed, is a past time. *)
SeenInv ==
    \A e \in Urls : eventRow[e].lastSeen <= clock /\ eventDraft[e].lastSeen <= clock

LEMMA ClockRuns == TypeInv /\ [Next]_vars => clock' \in {clock, clock + 1}
<1> SUFFICES ASSUME [Next]_vars PROVE clock' \in {clock, clock + 1}
  OBVIOUS
<1>1. ASSUME NEW t \in Crawls, CrawlStep(t)
      PROVE  clock' \in {clock, clock + 1}
  BY <1>1 DEF CrawlStep, StartCrawl, SkipKnown, FetchArticle, FetchFails, StoreSnapshot,
     StoreFails, InsertArticle, InsertConflicts, MatchEvent, AttachEvent, DeadlockVictim,
     PickEvent, RefreshSignal, RefreshUnchanged, LockSignal, Generate, GenerateFails, CommitCrawl
<1>2. ASSUME NEW t \in Backfills, BackfillStep(t)
      PROVE  clock' = clock
  BY <1>2 DEF BackfillStep, SelectEligible, LoadSignal, LockSignal, Generate, CommitSignal,
     BackfillFails, EndBackfill
<1>3. ASSUME NEW t \in Tasks, Crash(t)
      PROVE  clock' = clock
  BY <1>3 DEF Crash
<1> QED
  BY <1>1, <1>2, <1>3 DEF Next, vars

LEMMA SeenInit == Init => SeenInv
BY DEF Init, SeenInv, NoEvent

LEMMA SeenNext == TypeInv /\ PhaseInv /\ SeenInv /\ [Next]_vars => SeenInv'
<1> SUFFICES ASSUME TypeInv, PhaseInv, SeenInv, [Next]_vars
             PROVE  SeenInv'
  OBVIOUS
<1> USE TaskKinds
<1>1. /\ clock \in Nat /\ clock' \in {clock, clock + 1}
      /\ \A e \in Urls : eventRow[e].lastSeen \in Nat /\ eventDraft[e].lastSeen \in Nat
  BY ClockRuns DEF TypeInv, TypeOK, EventRows
<1>2. ASSUME NEW t \in Crawls, AttachEvent(t)
      PROVE  SeenInv'
  <2>1. /\ UNCHANGED eventRow /\ clock' = clock + 1
        /\ \A e \in Urls \ {event[t]} : eventDraft'[e] = eventDraft[e]
        /\ event[t] \in Urls => eventDraft'[event[t]].lastSeen = clock + 1
    BY <1>2 DEF AttachEvent, TypeInv, TypeOK
  <2> QED
    BY <1>1, <2>1 DEF SeenInv
<1>3. CASE UNCHANGED eventVars
  BY <1>1, <1>3 DEF SeenInv, eventVars
<1>4. ASSUME NEW t \in Tasks, Commits(t) \/ RollsBack(t)
      PROVE  SeenInv'
  <2>1. \A e \in Urls : eventRow'[e] \in {eventRow[e], eventDraft[e]}
    BY <1>4, CommitFrame DEF RollsBack, RollbackRows
  <2>2. \A e \in Urls : eventDraft'[e] \in {eventDraft[e], NoEvent}
    BY <1>4, EndFrame DEF EndTransaction, Clear
  <2> QED
    BY <1>1, <2>1, <2>2 DEF SeenInv, NoEvent
<1> QED
  BY <1>2, <1>3, <1>4, StepKinds, FilingFrame DEF Quiet, vars

(* An event seen just now takes no other's place among the newest but that  *)
(* of the oldest of them.                                                   *)
LEMMA NewestWithOneMore ==
    ASSUME NEW V \in SUBSET Urls, NEW e \in Urls, NEW old \in [Urls -> Nat],
           NEW new \in [Urls -> Nat],
           \A f \in Urls : f # e => new[f] = old[f] /\ new[e] > old[f]
    PROVE  Newest(V \cup {e}, new) \subseteq Newest(V, old) \cup {e}
<1> SUFFICES ASSUME NEW g \in Newest(V \cup {e}, new), g # e
             PROVE  g \in Newest(V, old)
  OBVIOUS
<1> DEFINE newer == {f \in V : old[f] > old[g]}
           newerNow == {f \in V \cup {e} : new[f] > new[g]}
<1>1. g \in V /\ Cardinality(newerNow) < RecentLimit
  BY DEF Newest
<1>2. newer \subseteq newerNow
  BY <1>1
<1>3. IsFiniteSet(newerNow)
  <2>1. newerNow \in SUBSET Urls
    OBVIOUS
  <2> QED
    BY <2>1, FS_Subset, PagesAssumption
<1>4. /\ Cardinality(newer) \in Nat /\ Cardinality(newerNow) \in Nat
      /\ Cardinality(newer) <= Cardinality(newerNow)
  BY <1>2, <1>3, FS_Subset, FS_CardinalityType
<1>5. Cardinality(newer) < RecentLimit
  BY <1>1, <1>4, PagesAssumption
<1> QED
  BY <1>1, <1>5 DEF Newest

LEMMA StoryInit == Init => StoryInv
<1> SUFFICES ASSUME Init PROVE StoryInv
  OBVIOUS
<1>1. Events = {} /\ \A c \in Crawls : SeenEvents(c) = {} /\ pc[c] = "idle"
  BY TaskKinds DEF Init, Events, SeenEvents, NoEvent
<1> QED
  BY <1>1 DEF StoryInv, OneEventPerStory, RecentEvents, Candidates, Newest, Unlike

(* What a crawl commits is what it has seen.                                *)
LEMMA CommitShows ==
    ASSUME TypeInv, FiledInv, NEW t \in Tasks, Commits(t)
    PROVE  RecentEvents' = Candidates(t)
<1> USE TaskKinds
<1>1. \A e \in Urls : eventRow'[e] = SeenEvent(t, e)
  BY CommitFrame DEF SeenEvent
<1>2. \A e \in Urls : SeenEvent(t, e).articles > 0 <=> eventRow[e].articles > 0 \/ eventLock[e] = t
  <2> SUFFICES ASSUME NEW e \in Urls, eventLock[e] = t
               PROVE  eventDraft[e].articles > 0
    BY DEF SeenEvent
  <2> QED
    BY DEF FiledInv
<1>3. Events' = SeenEvents(t)
  BY <1>1, <1>2 DEF Events, SeenEvents
<1>4. [e \in Urls |-> eventRow'[e].lastSeen] = [e \in Urls |-> SeenEvent(t, e).lastSeen]
  BY <1>1
<1> QED
  BY <1>3, <1>4 DEF RecentEvents, Candidates, Newest

LEMMA SameCandidates ==
    ASSUME NEW c \in Tasks, UNCHANGED eventRow,
           \A e \in Urls : eventLock'[e] = c <=> eventLock[e] = c,
           \A e \in Urls : eventLock[e] = c => eventDraft'[e] = eventDraft[e]
    PROVE  Candidates(c)' = Candidates(c)
<1>1. SeenEvents(c)' = SeenEvents(c)
  BY DEF SeenEvents
<1>2. [e \in Urls |-> SeenEvent(c, e).lastSeen]' = [e \in Urls |-> SeenEvent(c, e).lastSeen]
  BY DEF SeenEvent
<1> QED
  BY <1>1, <1>2 DEF Candidates, Newest

LEMMA AttachShows ==
    ASSUME TypeInv, SeenInv, NEW t \in Crawls, AttachEvent(t)
    PROVE  Candidates(t)' \subseteq Candidates(t) \cup {event[t]}
<1>1. PICK e \in Urls : e = event[t]
  BY TaskKinds DEF TypeInv, TypeOK
<1> DEFINE old == [f \in Urls |-> SeenEvent(t, f).lastSeen]
           new == [f \in Urls |-> SeenEvent(t, f)'.lastSeen]
<1>2. /\ UNCHANGED eventRow
      /\ eventLock' = [eventLock EXCEPT ![e] = t]
      /\ eventDraft'[e].lastSeen = clock + 1
      /\ \A f \in Urls \ {e} : eventDraft'[f] = eventDraft[f]
  BY <1>1 DEF AttachEvent, TypeInv, TypeOK
<1>3. SeenEvents(t)' = SeenEvents(t) \cup {e}
  BY <1>2 DEF SeenEvents, TypeInv, TypeOK
<1>4. /\ \A f \in Urls : SeenEvent(t, f).lastSeen \in Nat /\ SeenEvent(t, f).lastSeen <= clock
      /\ clock \in Nat
  BY DEF SeenEvent, SeenInv, TypeInv, TypeOK, EventRows
<1>5. /\ SeenEvent(t, e)'.lastSeen = clock + 1
      /\ \A f \in Urls \ {e} : SeenEvent(t, f)' = SeenEvent(t, f)
  BY <1>2 DEF SeenEvent, TypeInv, TypeOK
<1>6. old \in [Urls -> Nat] /\ new \in [Urls -> Nat]
  <2>1. \A f \in Urls : SeenEvent(t, f)'.lastSeen \in Nat
    BY <1>4, <1>5
  <2> QED
    BY <1>4, <2>1
<1>7. \A f \in Urls : f # e => new[f] = old[f] /\ new[e] > old[f]
  BY <1>4, <1>5
<1> HIDE DEF old, new
<1>8. Newest(SeenEvents(t) \cup {e}, new) \subseteq Newest(SeenEvents(t), old) \cup {e}
  <2>1. SeenEvents(t) \in SUBSET Urls
    BY DEF SeenEvents
  <2> QED
    BY <1>6, <1>7, <2>1, NewestWithOneMore
<1>9. /\ Candidates(t) = Newest(SeenEvents(t), old)
      /\ Candidates(t)' = Newest(SeenEvents(t) \cup {e}, new)
  BY <1>3 DEF Candidates, Newest, old, new
<1> QED
  BY <1>1, <1>8, <1>9

SimilarIsSymmetric == \A e, f \in Urls : <<e, f>> \in Similar => <<f, e>> \in Similar

LEMMA StoryNext ==
    ASSUME CrawlsAreSerial, SimilarIsSymmetric,
           TypeInv, PhaseInv, LockInv, FiledInv, SeenInv, StoryInv, [Next]_vars
    PROVE  StoryInv'
<1> USE TaskKinds
<1>1. ASSUME NEW t \in Crawls, FilingStep(t)
      PROVE  StoryInv'
  <2>1. \A c \in Crawls : c = t
    BY DEF CrawlsAreSerial
  <2>2. OneEventPerStory'
    BY <1>1, FilingFrame DEF StoryInv, OneEventPerStory, RecentEvents, Events, Newest
  <2>3. CASE AttachEvent(t)
    <3>1. pc[t] = "attach" /\ pc'[t] = "ingest"
      BY <1>1, <2>3, FilingFrame
    <3>2. Candidates(t)' \subseteq Candidates(t) \cup {event[t]}
      BY <2>3, AttachShows
    <3>3. Unlike(Candidates(t)')
      BY <3>1, <3>2 DEF StoryInv, Unlike
    <3> QED
      BY <2>1, <2>2, <3>1, <3>3 DEF StoryInv, Unlike
  <2>4. CASE MatchEvent(t)
    <3>1. /\ UNCHANGED eventVars
          /\ event'[t] \in IF Matches(t) = {} THEN {page[t]} ELSE Matches(t)
      BY <2>4 DEF MatchEvent, TypeInv, TypeOK
    <3>2. Candidates(t)' = Candidates(t)
      BY <3>1, SameCandidates DEF eventVars
    <3>3. page[t] \in Urls /\ Candidates(t) \subseteq Urls
      BY DEF Candidates, Newest, SeenEvents, TypeInv, TypeOK
    <3>4. Unlike(Candidates(t) \cup {event'[t]})
      <4>1. CASE Matches(t) = {}
        <5>1. event'[t] = page[t] /\ \A e \in Candidates(t) : <<page[t], e>> \notin Similar
          BY <3>1, <4>1 DEF Matches
        <5> QED
          BY <3>3, <5>1 DEF StoryInv, Unlike, SimilarIsSymmetric
      <4>2. CASE Matches(t) # {}
        BY <3>1, <4>2 DEF Matches, StoryInv, Unlike
      <4> QED
        BY <4>1, <4>2
    <3> QED
      BY <2>1, <2>2, <3>2, <3>4 DEF StoryInv, Unlike
  <2>5. CASE FetchArticle(t) \/ StoreSnapshot(t) \/ StoreFails(t) \/ InsertArticle(t)
             \/ InsertConflicts(t) \/ DeadlockVictim(t)
    <3>1. UNCHANGED eventVars /\ pc'[t] # "attach"
      BY <1>1, <2>5, FilingFrame DEF FetchArticle, StoreSnapshot, StoreFails, InsertArticle,
         InsertConflicts, DeadlockVictim
    <3>2. Candidates(t)' = Candidates(t)
      BY <3>1, SameCandidates DEF eventVars
    <3> QED
      BY <2>1, <2>2, <3>1, <3>2 DEF StoryInv, Unlike
  <2> QED
    BY <1>1, <2>3, <2>4, <2>5 DEF FilingStep
<1>2. ASSUME UNCHANGED eventVars,
             \A c \in Crawls : pc'[c] = "attach" => pc[c] = "attach" /\ event'[c] = event[c]
      PROVE  StoryInv'
  <2>1. \A c \in Crawls : Candidates(c)' = Candidates(c)
    BY <1>2, SameCandidates DEF eventVars
  <2>2. RecentEvents' = RecentEvents
    BY <1>2 DEF RecentEvents, Events, Newest, eventVars
  <2> QED
    BY <1>2, <2>1, <2>2 DEF StoryInv, OneEventPerStory, Unlike
<1>3. ASSUME NEW t \in Tasks, Quiet(t)
      PROVE  StoryInv'
  <2>1. \A c \in Crawls : pc'[c] = "attach" => c # t /\ pc[c] = "attach"
    BY <1>3 DEF Quiet, Goto, Filing, TypeInv, TypeOK
  <2> QED
    BY <1>2, <1>3, <2>1 DEF Quiet
<1>4. ASSUME NEW t \in Crawls, Commits(t) \/ RollsBack(t)
      PROVE  StoryInv'
  <2>1. EndTransaction(t) /\ pc'[t] # "attach"
    BY <1>4, EndFrame
  <2>2. RecentEvents' \in {RecentEvents, Candidates(t)}
    <3>1. CASE Commits(t)
      BY <3>1, CommitShows
    <3>2. CASE RollsBack(t)
      BY <3>2 DEF RollsBack, RollbackRows, RecentEvents, Events, Newest
    <3> QED
      BY <1>4, <3>1, <3>2
  <2>3. Unlike(RecentEvents')
    BY <2>2 DEF StoryInv, OneEventPerStory, Unlike
  <2>4. Candidates(t)' = RecentEvents'
    <3>1. \A e \in Urls : eventLock'[e] # t
      BY <2>1, LocksReleased
    <3>2. SeenEvents(t)' = Events'
      BY <3>1 DEF SeenEvents, Events
    <3>3. [e \in Urls |-> SeenEvent(t, e)'.lastSeen] = [e \in Urls |-> eventRow'[e].lastSeen]
      BY <3>1 DEF SeenEvent
    <3> QED
      BY <3>2, <3>3 DEF Candidates, RecentEvents, Newest
  <2> QED
    BY <2>1, <2>3, <2>4 DEF StoryInv, OneEventPerStory, Unlike, CrawlsAreSerial
<1>5. ASSUME NEW t \in Backfills, Commits(t) \/ RollsBack(t)
      PROVE  StoryInv'
  <2>1. \A e \in Urls : eventLock[e] # t
    BY DEF LockInv
  <2>2. EndTransaction(t) /\ pc'[t] # "attach" /\ \A o \in Tasks \ {t} : pc'[o] = pc[o]
    BY <1>5, EndFrame
  <2>3. UNCHANGED eventRow
    <3>1. CASE Commits(t)
      BY <2>1, <3>1 DEF Commits, CommitRows, Apply, TypeInv, TypeOK
    <3>2. CASE RollsBack(t)
      BY <3>2 DEF RollsBack, RollbackRows
    <3> QED
      BY <1>5, <3>1, <3>2
  <2>4. \A c \in Crawls : Candidates(c)' = Candidates(c)
    BY <2>1, <2>2, <2>3, LocksReleased, SameCandidates
  <2>5. RecentEvents' = RecentEvents
    BY <2>3 DEF RecentEvents, Events, Newest
  <2>6. \A c \in Crawls : pc'[c] = "attach" => pc[c] = "attach" /\ event'[c] = event[c]
    BY <2>2, LocksReleased
  <2> QED
    BY <2>4, <2>5, <2>6 DEF StoryInv, OneEventPerStory, Unlike
<1>6. CASE UNCHANGED vars
  BY <1>2, <1>6 DEF vars
<1> QED
  BY <1>1, <1>3, <1>4, <1>5, <1>6, StepKinds DEF Tasks

(* While crawls do not overlap, no story has two events among the latest    *)
(* RecentLimit (attach_event).  Below that number of events no story has    *)
(* two at all.  That is so because the cosine of two vectors does not depend*)
(* on their order and a centroid never moves.                               *)
THEOREM SerialStoriesAreOne ==
    ASSUME CrawlsAreSerial, SimilarIsSymmetric
    PROVE  Spec => []OneEventPerStory
<1>1. TypeInv /\ PhaseInv /\ LockInv /\ FiledInv /\ SeenInv /\ StoryInv /\ [Next]_vars
        => StoryInv'
  BY StoryNext
<1>2. StoryInv => OneEventPerStory
  BY DEF StoryInv
<1> QED
  BY TypeInit, TypeNext, PhaseInit, PhaseNext, LockInit, LockNext, ArticleInit, ArticleNext,
     FiledInit, FiledNext, SeenInit, SeenNext, StoryInit, <1>1, <1>2, PTL DEF Spec

-----------------------------------------------------------------------------
(* article_count while crawls do not overlap.                               *)

LEMMA ArticleCountInit == Init => ArticleCountInv
<1> SUFFICES ASSUME Init PROVE ArticleCountInv
  OBVIOUS
<1>1. \A e \in Urls : FiledUnder(links, e) = {}
  BY DEF Init, FiledUnder
<1> QED
  BY <1>1, FS_EmptySet, TaskKinds DEF Init, ArticleCountInv, NoEvent

(* What a crawl reads of an event is the number of articles filed under it. *)
LEMMA ReadIsExact ==
    ASSUME TypeInv, FiledInv, ArticleCountInv, NEW t \in Crawls, NEW e \in SeenEvents(t)
    PROVE  /\ IsFiniteSet(FiledBy(t, e))
           /\ SeenEvent(t, e).articles = Cardinality(FiledBy(t, e))
<1>1. e \in Urls /\ t \in Tasks
  BY TaskKinds DEF SeenEvents
<1>2. CASE eventLock[e] = t
  BY <1>1, <1>2 DEF ArticleCountInv, SeenEvent
<1>3. CASE eventLock[e] # t
  <2>1. \A a \in Urls : <<a, e>> \notin newLinks[t]
    BY <1>1, <1>3 DEF FiledInv
  <2>2. FiledBy(t, e) = FiledUnder(links, e)
    BY <2>1 DEF FiledBy, FiledUnder
  <2> QED
    BY <1>1, <1>3, <2>2 DEF ArticleCountInv, SeenEvent
<1> QED
  BY <1>2, <1>3

LEMMA NobodyFiledUnderNewPage ==
    ASSUME TypeInv, ArticleInv, FiledInv, FounderInv, NEW t \in Crawls, pc[t] \in Filing
    PROVE  FiledBy(t, page[t]) = {}
<1>1. t \in Tasks /\ page[t] \in Urls \ SeenEvents(t)
  BY NewPageIsNoEvent, TaskKinds
<1>2. \A a \in Urls : <<a, page[t]>> \notin links /\ <<a, page[t]>> \notin newLinks[t]
  BY <1>1 DEF FiledInv, SeenEvents
<1> QED
  BY <1>2 DEF FiledBy, FiledUnder

LEMMA AttachCountsArticles ==
    ASSUME TypeInv, ArticleInv, FiledInv, ArticleCountInv, CrawlsAreSerial,
           NEW t \in Crawls, AttachEvent(t), pc[t] = "attach", pc'[t] = "ingest"
    PROVE  ArticleCountInv'
<1> USE TaskKinds
<1>p. PICK p \in Urls : p = page[t]
  BY DEF TypeInv, TypeOK
<1>e. PICK e \in Urls : e = event[t]
  BY DEF TypeInv, TypeOK
<1>1. /\ UNCHANGED <<links, eventRow>>
      /\ newLinks'[t] = newLinks[t] \cup {<<p, e>>}
      /\ eventLock' = [eventLock EXCEPT ![e] = t]
      /\ eventDraft'[e].articles = count[t] + 1
      /\ \A f \in Urls \ {e} : eventDraft'[f] = eventDraft[f]
  BY <1>p, <1>e DEF AttachEvent, TypeInv, TypeOK
<1>2. p \notin FiledBy(t, e)
  <2>1. p \notin Stored /\ \A f \in Urls : <<p, f>> \notin newLinks[t]
    BY <1>p DEF ArticleInv, FiledInv, Filing
  <2> QED
    BY <2>1 DEF FiledBy, FiledUnder, FiledInv
<1>3. /\ FiledBy(t, e)' = FiledBy(t, e) \cup {p}
      /\ \A f \in Urls \ {e} : FiledBy(t, f)' = FiledBy(t, f)
  BY <1>1 DEF FiledBy, FiledUnder
<1>4. IsFiniteSet(FiledBy(t, e)) /\ count[t] = Cardinality(FiledBy(t, e))
  BY <1>e DEF ArticleCountInv
<1>5. IsFiniteSet(FiledBy(t, e)') /\ Cardinality(FiledBy(t, e)') = count[t] + 1
  BY <1>2, <1>3, <1>4, FS_AddElement
<1>6. ASSUME NEW f \in Urls, eventLock'[f] = t
      PROVE  IsFiniteSet(FiledBy(t, f)') /\ eventDraft'[f].articles = Cardinality(FiledBy(t, f)')
  <2>1. CASE f = e
    BY <1>1, <1>5, <2>1
  <2>2. CASE f # e
    BY <1>1, <1>3, <1>6, <2>2 DEF ArticleCountInv, TypeInv, TypeOK
  <2> QED
    BY <2>1, <2>2
<1>7. \A c \in Crawls : c = t
  BY DEF CrawlsAreSerial
<1> QED
  BY <1>1, <1>6, <1>7 DEF ArticleCountInv

LEMMA ArticleCountNext ==
    ASSUME CrawlsAreSerial, TypeInv, PhaseInv, LockInv, ArticleInv, FiledInv, FounderInv,
           ArticleCountInv, [Next]_vars
    PROVE  ArticleCountInv'
<1> USE TaskKinds
<1>1. ASSUME NEW t \in Crawls, FilingStep(t)
      PROVE  ArticleCountInv'
  <2>1. \A c \in Crawls : c = t
    BY DEF CrawlsAreSerial
  <2>2. CASE AttachEvent(t)
    BY <1>1, <2>2, FilingFrame, AttachCountsArticles
  <2>3. CASE MatchEvent(t)
    <3>1. PICK e \in IF Matches(t) = {} THEN {page[t]} ELSE Matches(t) :
             /\ event' = [event EXCEPT ![t] = e]
             /\ count' = [count EXCEPT ![t] = IF Matches(t) = {} THEN 0
                                              ELSE SeenEvent(t, e).articles]
      BY <2>3 DEF MatchEvent
    <3>2. event'[t] = e /\ count'[t] = IF Matches(t) = {} THEN 0 ELSE SeenEvent(t, e).articles
      BY <3>1 DEF TypeInv, TypeOK
    <3>3. IsFiniteSet(FiledBy(t, e)) /\ count'[t] = Cardinality(FiledBy(t, e))
      <4>1. CASE Matches(t) = {}
        <5>1. FiledBy(t, page[t]) = {}
          BY <2>3, NobodyFiledUnderNewPage DEF MatchEvent, Filing
        <5> QED
          BY <3>2, <4>1, <5>1, FS_EmptySet
      <4>2. CASE Matches(t) # {}
        <5>1. e \in SeenEvents(t)
          BY <4>2 DEF Matches, Candidates, Newest
        <5> QED
          BY <3>2, <4>2, <5>1, ReadIsExact
      <4> QED
        BY <4>1, <4>2
    <3>4. UNCHANGED eventVars
      BY <2>3 DEF MatchEvent
    <3> QED
      BY <2>1, <3>2, <3>3, <3>4 DEF ArticleCountInv, FiledBy, eventVars
  <2>4. CASE FetchArticle(t) \/ StoreSnapshot(t) \/ StoreFails(t) \/ InsertArticle(t)
             \/ InsertConflicts(t) \/ DeadlockVictim(t)
    <3>1. UNCHANGED eventVars /\ pc'[t] # "attach"
      BY <1>1, <2>4, FilingFrame DEF FetchArticle, StoreSnapshot, StoreFails, InsertArticle,
         InsertConflicts, DeadlockVictim
    <3> QED
      BY <2>1, <3>1 DEF ArticleCountInv, FiledBy, eventVars
  <2> QED
    BY <1>1, <2>2, <2>3, <2>4 DEF FilingStep
<1>2. ASSUME NEW t \in Tasks, Quiet(t)
      PROVE  ArticleCountInv'
  <2>1. \A c \in Crawls : pc'[c] = "attach" => c # t /\ pc[c] = "attach"
    BY <1>2 DEF Quiet, Goto, Filing, TypeInv, TypeOK
  <2> QED
    BY <1>2, <2>1 DEF Quiet, ArticleCountInv, FiledBy, eventVars, ingestVars
<1>3. ASSUME NEW t \in Tasks, Commits(t)
      PROVE  ArticleCountInv'
  <2>1. EndTransaction(t) /\ pc'[t] # "attach" /\ \A o \in Tasks \ {t} : pc'[o] = pc[o]
    BY <1>3, EndFrame
  <2>2. ASSUME NEW e \in Urls
        PROVE  /\ IsFiniteSet(FiledUnder(links', e))
               /\ eventRow'[e].articles = Cardinality(FiledUnder(links', e))
    <3>1. CASE eventLock[e] = t
      <4>1. t \in Crawls
        BY <3>1 DEF LockInv, Tasks
      <4>2. FiledUnder(links', e) = FiledBy(t, e) /\ eventRow'[e] = eventDraft[e]
        BY <1>3, <3>1, CommitFrame DEF FiledBy
      <4> QED
        BY <3>1, <4>1, <4>2 DEF ArticleCountInv
    <3>2. CASE eventLock[e] # t
      <4>1. \A a \in Urls : <<a, e>> \notin newLinks[t]
        BY <3>2 DEF FiledInv
      <4>2. FiledUnder(links', e) = FiledUnder(links, e) /\ eventRow'[e] = eventRow[e]
        BY <1>3, <3>2, <4>1, CommitFrame DEF FiledUnder
      <4> QED
        BY <4>2 DEF ArticleCountInv
    <3> QED
      BY <3>1, <3>2
  <2>3. CASE t \in Crawls
    BY <2>1, <2>2, <2>3, LocksReleased DEF ArticleCountInv, CrawlsAreSerial
  <2>4. CASE t \in Backfills
    <3>1. newLinks[t] = {}
      <4>1. \A a, e \in Urls : <<a, e>> \notin newLinks[t]
        BY <2>4 DEF FiledInv, TypeInv
      <4> QED
        BY <4>1 DEF TypeInv, TypeOK
    <3>2. links' = links
      BY <1>3, <3>1, CommitFrame
    <3>3. \A c \in Crawls : newLinks'[c] = newLinks[c]
      BY <1>3, <2>4, EndFrame DEF TypeInv, TypeOK
    <3>4. \A c \in Crawls, e \in Urls : FiledBy(c, e)' = FiledBy(c, e)
      BY <3>2, <3>3 DEF FiledBy
    <3>5. \A c \in Crawls : event'[c] = event[c] /\ count'[c] = count[c] /\ event[c] \in Urls
      BY <2>1, <2>4 DEF EndTransaction, TypeInv, TypeOK
    <3> QED
      BY <2>1, <2>2, <2>4, <3>4, <3>5, LocksReleased DEF ArticleCountInv
  <2> QED
    BY <2>3, <2>4 DEF Tasks
<1>4. ASSUME NEW t \in Tasks, RollsBack(t)
      PROVE  ArticleCountInv'
  <2>1. /\ EndTransaction(t) /\ pc'[t] # "attach" /\ \A o \in Tasks \ {t} : pc'[o] = pc[o]
        /\ UNCHANGED <<links, eventRow>>
    BY <1>4, EndFrame DEF RollsBack, RollbackRows
  <2>2. CASE t \in Crawls
    BY <2>1, <2>2, LocksReleased DEF ArticleCountInv, CrawlsAreSerial
  <2>3. CASE t \in Backfills
    <3>1. \A c \in Crawls : newLinks'[c] = newLinks[c]
      BY <1>4, <2>3, EndFrame DEF TypeInv, TypeOK
    <3>2. \A c \in Crawls, e \in Urls : FiledBy(c, e)' = FiledBy(c, e)
      BY <2>1, <3>1 DEF FiledBy
    <3>3. \A c \in Crawls : event'[c] = event[c] /\ count'[c] = count[c] /\ event[c] \in Urls
      BY <2>1, <2>3 DEF EndTransaction, TypeInv, TypeOK
    <3> QED
      BY <2>1, <2>3, <3>2, <3>3, LocksReleased DEF ArticleCountInv
  <2> QED
    BY <2>2, <2>3 DEF Tasks
<1>5. CASE UNCHANGED vars
  BY <1>5 DEF vars, eventVars, ingestVars, ArticleCountInv, FiledBy
<1> QED
  BY <1>1, <1>2, <1>3, <1>4, <1>5, StepKinds

(* article_count is the number of articles filed under the event while      *)
(* crawls do not overlap: the increment that pipeline_lost_update loses is  *)
(* lost to another crawl, never to a savepoint, a crash or a backfill.      *)
THEOREM SerialArticleCountIsExact ==
    ASSUME CrawlsAreSerial
    PROVE  Spec => []ArticleCountExact
<1>1. TypeInv /\ PhaseInv /\ LockInv /\ ArticleInv /\ FiledInv /\ FounderInv /\ ArticleCountInv
        /\ [Next]_vars => ArticleCountInv'
  BY ArticleCountNext
<1>2. TypeInv /\ ArticleCountInv => ArticleCountExact
  BY ArticlesOfEvent DEF TypeInv, ArticleCountInv, ArticleCountExact
<1> QED
  BY TypeInit, TypeNext, PhaseInit, PhaseNext, LockInit, LockNext, ArticleInit, ArticleNext,
     FiledInit, FiledNext, FounderInit, FounderNext, ArticleCountInit, <1>1, <1>2, PTL DEF Spec
=============================================================================
