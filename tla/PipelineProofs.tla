--------------------------- MODULE PipelineProofs ---------------------------
(***************************************************************************)
(* Theorems about Pipeline, for every set of tasks, sources and pages: the *)
(* variables keep their types, no signal gets a second opportunity, and    *)
(* the module implements OpportunityOnce.                                  *)
(***************************************************************************)
EXTENDS Pipeline, FiniteSetTheorems, WellFoundedInduction, TLAPS

-----------------------------------------------------------------------------
(* Types.                                                                   *)

(* A backfill inserts no article, so it needs no source.                    *)
TypeInv ==
    /\ TypeOK
    /\ \A b \in Backfills : newArticles[b] = {}

LEMMA AnyUrlType == AnyUrl \in Urls
  BY PagesAssumption DEF AnyUrl

(* A crawl with URLs left has a first one: ranks are naturals.              *)
LEMMA CurrentType ==
    ASSUME NEW t \in Crawls, todo[t] \subseteq Urls, todo[t] # {}
    PROVE  Current(t) \in todo[t]
<1> DEFINE rank == Rank[SourceOf[t]]
           R == OpToRel(<, Nat)
           T == {rank[u] : u \in todo[t]}
<1>1. rank \in [Urls -> Nat]
  BY TasksAssumption, PagesAssumption
<1>2. T \subseteq Nat /\ T # {}
  BY <1>1
<1>3. PICK n \in T : \A m \in T : ~(<<m, n>> \in R)
  <2> HIDE DEF T, R
  <2>1. IsWellFoundedOn(R, Nat)
    BY NatLessThanWellFounded DEF R
  <2> QED
    BY <1>2, <2>1, WFMin
<1>4. \A m \in T : n <= m
  <2> SUFFICES ASSUME NEW m \in T PROVE n <= m
    OBVIOUS
  <2>1. m \in Nat /\ n \in Nat
    BY <1>2
  <2>2. ~(<<m, n>> \in R)
    BY <1>3
  <2> HIDE DEF T
  <2>3. <<m, n>> \in Nat \X Nat /\ <<m, n>>[1] = m /\ <<m, n>>[2] = n
    BY <2>1
  <2>4. ~(m < n)
    BY <2>2, <2>3 DEF OpToRel
  <2> QED
    BY <2>1, <2>4
<1>5. PICK u \in todo[t] : rank[u] = n
  BY <1>3
<1>6. \A v \in todo[t] : rank[u] <= rank[v]
  BY <1>4, <1>5
<1> QED
  BY <1>6 DEF Current

(* The number of sources an event counts is a natural number.               *)
LEMMA SourceCountType ==
    ASSUME TypeOK, NEW t \in Crawls, NEW S \in SUBSET (Urls \X Urls)
    PROVE  Cardinality({SourceSeen(t, l[1]) : l \in S}) \in Nat
<1> DEFINE T == {SourceSeen(t, l[1]) : l \in S}
<1>1. T \subseteq Sources \cup {NoSource}
  <2>1. \A a \in Urls : SourceSeen(t, a) \in Sources \cup {NoSource}
    BY TasksAssumption DEF TypeOK, SourceSeen
  <2> QED
    BY <2>1
<1>2. IsFiniteSet(Sources \cup {NoSource})
  BY TasksAssumption, FS_AddElement
<1>3. IsFiniteSet(T)
  BY <1>1, <1>2, FS_Subset
<1> QED
  BY <1>3, FS_CardinalityType

LEMMA TypeInit == Init => TypeInv
  BY AnyUrlType, PagesAssumption
  DEF Init, TypeInv, TypeOK, EventRows, SignalRows, NoEvent, NoSignal, Labels, Tasks

(* The end of a transaction, whether it commits or not, keeps the types.    *)
LEMMA EndTransactionType ==
    ASSUME TypeInv, NEW t \in Tasks, EndTransaction(t)
    PROVE  /\ newArticles' \in [Tasks -> SUBSET Urls]
           /\ newLinks' \in [Tasks -> SUBSET (Urls \X Urls)]
           /\ newOpportunities' \in [Tasks -> SUBSET Urls]
           /\ eventDraft' \in [Urls -> EventRows]
           /\ eventLock' \in [Urls -> Tasks \cup {NoTask}]
           /\ signalDraft' \in [Urls -> SignalRows]
           /\ signalLock' \in [Urls -> Tasks \cup {NoTask}]
           /\ page' \in [Tasks -> Urls]
           /\ event' \in [Tasks -> Urls]
           /\ count' \in [Tasks -> Nat]
           /\ touched' \in [Tasks -> SUBSET Urls]
           /\ \A b \in Backfills : newArticles'[b] = {}
<1>1. NoEvent \in EventRows /\ NoSignal \in SignalRows
  BY DEF NoEvent, NoSignal, EventRows, SignalRows
<1> QED
  BY <1>1, AnyUrlType DEF TypeInv, TypeOK, EndTransaction, Release, Clear, Tasks

LEMMA CommitRowsType ==
    ASSUME TypeInv, NEW t \in Tasks, CommitRows(t)
    PROVE  /\ articleSource' \in [Urls -> Sources \cup {NoSource}]
           /\ links' \subseteq Urls \X Urls
           /\ eventRow' \in [Urls -> EventRows]
           /\ signalRow' \in [Urls -> SignalRows]
           /\ opportunities' \in [Urls -> Nat]
<1>1. \A a \in Urls : SourceSeen(t, a) \in Sources \cup {NoSource}
  BY TasksAssumption DEF TypeInv, TypeOK, SourceSeen, Tasks
<1> QED
  BY <1>1 DEF TypeInv, TypeOK, CommitRows, Apply

LEMMA TypeNext == TypeInv /\ [Next]_vars => TypeInv'
<1> SUFFICES ASSUME TypeInv, [Next]_vars
             PROVE  TypeInv'
  OBVIOUS
<1> USE DEF TypeInv, TypeOK
<1>1. ASSUME NEW t \in Crawls, CrawlStep(t)
      PROVE  TypeInv'
  <2> t \in Tasks /\ t \notin Backfills
    BY TasksAssumption DEF Tasks
  <2>1. CASE StartCrawl(t)
    BY <2>1, PagesAssumption, TasksAssumption
    DEF StartCrawl, Window, HeadOfFeed, Goto, Labels, articleVars, eventVars,
        signalVars, opportunityVars, ingestVars
  <2>2. CASE SkipKnown(t)
    BY <2>2 DEF SkipKnown, NextUrl, Goto, Labels, articleVars, eventVars,
        signalVars, opportunityVars, ingestVars
  <2>3. CASE FetchArticle(t)
    <3>1. Canon[Current(t)] \in Urls
      BY <2>3, CurrentType, PagesAssumption DEF FetchArticle
    <3> QED
      BY <2>3, <3>1 DEF FetchArticle, Goto, Labels, articleVars, eventVars,
        signalVars, opportunityVars
  <2>4. CASE FetchFails(t)
    BY <2>4 DEF FetchFails, NextUrl, Goto, Labels, articleVars, eventVars,
        signalVars, opportunityVars, ingestVars
  <2>5. CASE StoreSnapshot(t)
    BY <2>5 DEF StoreSnapshot, Goto, Labels, eventVars,
        signalVars, opportunityVars, ingestVars
  <2>6. CASE StoreFails(t)
    BY <2>6 DEF StoreFails, NextUrl, Goto, Labels, eventVars,
        signalVars, opportunityVars, ingestVars
  <2>7. CASE InsertArticle(t)
    BY <2>7 DEF InsertArticle, Goto, Labels, eventVars,
        signalVars, opportunityVars, ingestVars
  <2>8. CASE InsertConflicts(t)
    BY <2>8 DEF InsertConflicts, NextUrl, Goto, Labels, articleVars, eventVars,
        signalVars, opportunityVars, ingestVars
  <2>9. CASE MatchEvent(t)
    <3>1. \A e \in Urls : SeenEvent(t, e).articles \in Nat
      BY DEF SeenEvent, EventRows
    <3>2. Matches(t) \subseteq Urls
      BY DEF Matches, Candidates, Newest, SeenEvents
    <3> QED
      BY <2>9, <3>1, <3>2 DEF MatchEvent, Goto, Labels, articleVars, eventVars,
        signalVars, opportunityVars
  <2>10. CASE AttachEvent(t)
    <3> DEFINE e == event[t]
               n == Cardinality({SourceSeen(t, l[1]) : l \in LinksSeen(t, e)})
    <3>1. LinksSeen(t, e) \in SUBSET (Urls \X Urls)
      BY DEF LinksSeen
    <3>2. n \in Nat
      BY <3>1, SourceCountType
    <3>3. clock \in Nat /\ [articles |-> count[t] + 1, sources |-> n, lastSeen |-> clock + 1] \in EventRows
      BY <3>2 DEF EventRows, TypeInv, TypeOK
    <3> HIDE DEF n
    <3> QED
      BY <2>10, <3>3 DEF AttachEvent, NextUrl, Goto, Labels, articleVars,
        signalVars, opportunityVars, ingestVars, n
  <2>11. CASE DeadlockVictim(t)
    BY <2>11 DEF DeadlockVictim, RollbackSavepoint, NextUrl, Goto, Labels, eventVars,
        signalVars, opportunityVars, ingestVars
  <2>12. CASE PickEvent(t)
    BY <2>12 DEF PickEvent, Goto, Labels, articleVars, eventVars,
        signalVars, opportunityVars, ingestVars
  <2>13. CASE RefreshSignal(t)
    <3>1. \A strong \in BOOLEAN : Refreshed(t, event[t], strong) \in SignalRows
      BY DEF Refreshed, SeenEvent, EventRows, SignalRows
    <3>2. MayBeStrong(t, event[t]) \subseteq BOOLEAN
      BY DEF MayBeStrong
    <3> QED
      BY <2>13, <3>1, <3>2 DEF RefreshSignal, Goto, Labels, articleVars, eventVars,
        opportunityVars, ingestVars
  <2>14. CASE RefreshUnchanged(t)
    BY <2>14 DEF RefreshUnchanged, Goto, Labels, articleVars, eventVars,
        signalVars, opportunityVars, ingestVars
  <2>15. CASE LockSignal(t)
    BY <2>15 DEF LockSignal, Goto, Labels, articleVars, eventVars,
        opportunityVars, ingestVars
  <2>16. CASE Generate(t)
    BY <2>16 DEF Generate, Goto, Labels, articleVars, eventVars,
        signalVars, ingestVars
  <2>17. CASE GenerateFails(t)
    BY <2>17 DEF GenerateFails, Goto, Labels, articleVars, eventVars,
        signalVars, opportunityVars, ingestVars
  <2>18. CASE CommitCrawl(t)
    BY <2>18, EndTransactionType, CommitRowsType
    DEF CommitCrawl, CommitRows, Goto, Labels
  <2> QED
    BY <1>1, <2>1, <2>2, <2>3, <2>4, <2>5, <2>6, <2>7, <2>8, <2>9, <2>10, <2>11,
       <2>12, <2>13, <2>14, <2>15, <2>16, <2>17, <2>18 DEF CrawlStep
<1>2. ASSUME NEW t \in Backfills, BackfillStep(t)
      PROVE  TypeInv'
  <2> t \in Tasks
    BY DEF Tasks
  <2>1. CASE SelectEligible(t)
    BY <2>1 DEF SelectEligible, Goto, Labels, articleVars, eventVars,
        signalVars, opportunityVars, ingestVars
  <2>2. CASE LoadSignal(t)
    BY <2>2 DEF LoadSignal, Goto, Labels, articleVars, eventVars,
        signalVars, opportunityVars, ingestVars
  <2>3. CASE LockSignal(t)
    BY <2>3 DEF LockSignal, Goto, Labels, articleVars, eventVars,
        opportunityVars, ingestVars
  <2>4. CASE Generate(t)
    BY <2>4 DEF Generate, Goto, Labels, articleVars, eventVars,
        signalVars, ingestVars
  <2>5. CASE CommitSignal(t)
    BY <2>5, EndTransactionType, CommitRowsType
    DEF CommitSignal, CommitRows, Goto, Labels
  <2>6. CASE BackfillFails(t)
    BY <2>6, EndTransactionType DEF BackfillFails, RollbackRows, Goto, Labels
  <2>7. CASE EndBackfill(t)
    BY <2>7, AnyUrlType DEF EndBackfill, Goto, Labels, articleVars, eventVars,
        signalVars, opportunityVars, ingestVars
  <2> QED
    BY <1>2, <2>1, <2>2, <2>3, <2>4, <2>5, <2>6, <2>7 DEF BackfillStep
<1>3. ASSUME NEW t \in Tasks, Crash(t)
      PROVE  TypeInv'
  BY <1>3, EndTransactionType, PagesAssumption DEF Crash, RollbackRows, Goto, Labels
<1>4. CASE UNCHANGED vars
  BY <1>4 DEF vars, articleVars, eventVars, signalVars, opportunityVars, ingestVars
<1> QED
  BY <1>1, <1>2, <1>3, <1>4 DEF Next

(* Every reachable state has its types: a session never reads a row or a    *)
(* local that the code did not give a value.                                *)
THEOREM TypeCorrect == Spec => []TypeOK
<1>1. TypeInv => TypeOK
  BY DEF TypeInv
<1> QED
  BY TypeInit, TypeNext, <1>1, PTL DEF Spec

-----------------------------------------------------------------------------
(* One opportunity per signal.  The strengthening says what the row lock    *)
(* protects: whoever has inserted an opportunity and not committed it, or   *)
(* has found that there is none and is waiting for the model, holds the     *)
(* signal's lock, and the signal has no committed opportunity.              *)
OpportunityInv ==
    /\ \A t \in Tasks : \A e \in newOpportunities[t] :
          signalLock[e] = t /\ opportunities[e] = 0
    /\ \A t \in Tasks : pc[t] = "generate" =>
          signalLock[event[t]] = t /\ opportunities[event[t]] = 0
    /\ AtMostOneOpportunity

(* Nobody else holds the lock of the signal a task is about to write.       *)
LEMMA SignalLockFree ==
    ASSUME TypeOK, NEW t \in Tasks, pc[t] \in {"refresh", "lock"}, ~Blocked(t)
    PROVE  signalLock[event[t]] \in {t, NoTask}
<1>1. event[t] \in Urls /\ signalLock[event[t]] \in Tasks \cup {NoTask}
  BY DEF TypeOK
<1> QED
  BY <1>1 DEF Blocked, WaitsFor, AwaitsSignal

(* The end of t's transaction leaves every other task's critical section as *)
(* it was.                                                                  *)
LEMMA OthersUndisturbed ==
    ASSUME TypeOK, OpportunityInv, NEW t \in Tasks, EndTransaction(t),
           NEW l \in Labels \ {"generate"}, Goto(t, l),
           \A e \in Urls : e \notin newOpportunities[t] => opportunities'[e] = opportunities[e]
    PROVE  /\ \A o \in Tasks : \A e \in newOpportunities'[o] :
                 signalLock'[e] = o /\ opportunities'[e] = 0
           /\ \A o \in Tasks : pc'[o] = "generate" =>
                 signalLock'[event'[o]] = o /\ opportunities'[event'[o]] = 0
<1> USE DEF TypeOK, OpportunityInv
<1>1. ASSUME NEW o \in Tasks, NEW e \in Urls, o # t, signalLock[e] = o, opportunities[e] = 0
      PROVE  signalLock'[e] = o /\ opportunities'[e] = 0
  <2>1. e \notin newOpportunities[t]
    BY <1>1
  <2> QED
    BY <1>1, <2>1 DEF EndTransaction, Release
<1>2. ASSUME NEW o \in Tasks, NEW e \in newOpportunities'[o]
      PROVE  signalLock'[e] = o /\ opportunities'[e] = 0
  <2>1. o # t /\ e \in newOpportunities[o]
    BY <1>2 DEF EndTransaction
  <2> QED
    BY <2>1, <1>1
<1>3. ASSUME NEW o \in Tasks, pc'[o] = "generate"
      PROVE  signalLock'[event'[o]] = o /\ opportunities'[event'[o]] = 0
  <2>1. o # t /\ pc[o] = "generate" /\ event'[o] = event[o]
    BY <1>3 DEF EndTransaction, Goto
  <2> QED
    BY <2>1, <1>1
<1> QED
  BY <1>2, <1>3

LEMMA CommitOpportunities ==
    ASSUME TypeOK, OpportunityInv, NEW t \in Tasks, CommitRows(t),
           NEW l \in Labels \ {"generate"}, Goto(t, l)
    PROVE  OpportunityInv'
<1>1. EndTransaction(t)
  BY DEF CommitRows
<1>2. \A e \in Urls : e \notin newOpportunities[t] => opportunities'[e] = opportunities[e]
  BY DEF CommitRows, TypeOK
<1>3. AtMostOneOpportunity'
  <2> SUFFICES ASSUME NEW e \in Urls PROVE opportunities'[e] <= 1
    BY DEF AtMostOneOpportunity
  <2>1. CASE e \in newOpportunities[t]
    BY <2>1 DEF CommitRows, OpportunityInv, TypeOK
  <2>2. CASE e \notin newOpportunities[t]
    BY <2>2, <1>2 DEF OpportunityInv, AtMostOneOpportunity
  <2> QED
    BY <2>1, <2>2
<1> QED
  BY <1>1, <1>2, <1>3, OthersUndisturbed DEF OpportunityInv

LEMMA RollbackOpportunities ==
    ASSUME TypeOK, OpportunityInv, NEW t \in Tasks, RollbackRows(t),
           NEW l \in Labels \ {"generate"}, Goto(t, l)
    PROVE  OpportunityInv'
<1>1. EndTransaction(t) /\ opportunities' = opportunities
  BY DEF RollbackRows
<1>2. AtMostOneOpportunity'
  BY <1>1 DEF OpportunityInv, AtMostOneOpportunity
<1> QED
  BY <1>1, <1>2, OthersUndisturbed DEF OpportunityInv

(* A step that touches neither opportunities nor signals and does not start *)
(* a generation has nothing to show.                                        *)
LEMMA OpportunityFrame ==
    ASSUME TypeOK, OpportunityInv, NEW t \in Tasks,
           UNCHANGED opportunityVars, UNCHANGED signalLock,
           NEW l \in Labels \ {"generate"}, Goto(t, l),
           \A o \in Tasks \ {t} : event'[o] = event[o]
    PROVE  OpportunityInv'
BY DEF TypeOK, OpportunityInv, AtMostOneOpportunity, Goto, opportunityVars

LEMMA OpportunityInit == Init => OpportunityInv
BY DEF Init, OpportunityInv, AtMostOneOpportunity

LEMMA LockSignalStep ==
    ASSUME TypeOK, OpportunityInv, NEW t \in Tasks, LockSignal(t)
    PROVE  OpportunityInv'
<1> USE DEF TypeOK, OpportunityInv
<1>1. signalLock[event[t]] \in {t, NoTask}
  BY SignalLockFree DEF LockSignal
<1>2. UNCHANGED <<opportunities, newOpportunities, event>>
  BY DEF LockSignal, opportunityVars
<1>3. ASSUME NEW o \in Tasks, NEW e \in Urls, signalLock[e] = o
      PROVE  signalLock'[e] = o
  BY <1>1, <1>3, TasksAssumption DEF LockSignal
<1>4. ASSUME NEW o \in Tasks, NEW e \in newOpportunities'[o]
      PROVE  signalLock'[e] = o /\ opportunities'[e] = 0
  BY <1>2, <1>3, <1>4
<1>5. ASSUME NEW o \in Tasks, pc'[o] = "generate"
      PROVE  signalLock'[event'[o]] = o /\ opportunities'[event'[o]] = 0
  <2>1. CASE o = t
    BY <2>1, <1>2, <1>5 DEF LockSignal, Goto, HasOpportunity
  <2>2. CASE o # t
    BY <2>2, <1>2, <1>3, <1>5 DEF LockSignal, Goto
  <2> QED
    BY <2>1, <2>2
<1> QED
  BY <1>2, <1>4, <1>5 DEF AtMostOneOpportunity

LEMMA RefreshSignalStep ==
    ASSUME TypeOK, OpportunityInv, NEW t \in Tasks, RefreshSignal(t)
    PROVE  OpportunityInv'
<1> USE DEF TypeOK, OpportunityInv
<1>1. signalLock[event[t]] \in {t, NoTask}
  BY SignalLockFree DEF RefreshSignal
<1>2. UNCHANGED <<opportunities, newOpportunities, event>>
  BY DEF RefreshSignal, opportunityVars
<1>3. ASSUME NEW o \in Tasks, NEW e \in Urls, signalLock[e] = o
      PROVE  signalLock'[e] = o
  BY <1>1, <1>3, TasksAssumption DEF RefreshSignal
<1>4. \A o \in Tasks : pc'[o] = "generate" => pc[o] = "generate"
  BY DEF RefreshSignal, Goto
<1> QED
  BY <1>2, <1>3, <1>4 DEF AtMostOneOpportunity

LEMMA GenerateStep ==
    ASSUME TypeOK, OpportunityInv, NEW t \in Tasks, Generate(t)
    PROVE  OpportunityInv'
<1>1. \A o \in Tasks : pc'[o] = "generate" => pc[o] = "generate"
  BY DEF Generate, Goto, TypeOK
<1> QED
  BY <1>1 DEF Generate, TypeOK, OpportunityInv, AtMostOneOpportunity, signalVars

LEMMA OpportunityNext == TypeOK /\ OpportunityInv /\ [Next]_vars => OpportunityInv'
<1> SUFFICES ASSUME TypeOK, OpportunityInv, [Next]_vars
             PROVE  OpportunityInv'
  OBVIOUS
<1>1. ASSUME NEW t \in Crawls, CrawlStep(t)
      PROVE  OpportunityInv'
  <2> t \in Tasks
    BY DEF Tasks
  <2>1. CASE \/ StartCrawl(t) \/ SkipKnown(t) \/ FetchArticle(t) \/ FetchFails(t)
             \/ StoreSnapshot(t) \/ StoreFails(t) \/ InsertArticle(t)
    BY <2>1, OpportunityFrame
    DEF StartCrawl, SkipKnown, FetchArticle, FetchFails, StoreSnapshot, StoreFails,
        InsertArticle, NextUrl, signalVars, Labels
  <2>2. CASE \/ InsertConflicts(t) \/ AttachEvent(t) \/ DeadlockVictim(t)
             \/ GenerateFails(t)
    BY <2>2, OpportunityFrame
    DEF InsertConflicts, AttachEvent, DeadlockVictim, GenerateFails, NextUrl,
        signalVars, Labels
  <2>3. CASE MatchEvent(t) \/ PickEvent(t)
    BY <2>3, OpportunityFrame DEF MatchEvent, PickEvent, signalVars, Labels, TypeOK
  <2>4. CASE RefreshUnchanged(t)
    BY <2>4, OpportunityFrame DEF RefreshUnchanged, signalVars, Labels
  <2>5. CASE CommitCrawl(t)
    BY <2>5, CommitOpportunities DEF CommitCrawl, Labels
  <2> QED
    BY <1>1, <2>1, <2>2, <2>3, <2>4, <2>5, RefreshSignalStep, LockSignalStep,
       GenerateStep DEF CrawlStep
<1>2. ASSUME NEW t \in Backfills, BackfillStep(t)
      PROVE  OpportunityInv'
  <2> t \in Tasks
    BY DEF Tasks
  <2>1. CASE SelectEligible(t)
    BY <2>1, OpportunityFrame DEF SelectEligible, signalVars, Labels
  <2>2. CASE LoadSignal(t) \/ EndBackfill(t)
    BY <2>2, OpportunityFrame DEF LoadSignal, EndBackfill, signalVars, Labels, TypeOK
  <2>3. CASE CommitSignal(t)
    BY <2>3, CommitOpportunities DEF CommitSignal, Labels
  <2>4. CASE BackfillFails(t)
    BY <2>4, RollbackOpportunities DEF BackfillFails, Labels
  <2> QED
    BY <1>2, <2>1, <2>2, <2>3, <2>4, LockSignalStep, GenerateStep DEF BackfillStep
<1>3. ASSUME NEW t \in Tasks, Crash(t)
      PROVE  OpportunityInv'
  BY <1>3, RollbackOpportunities DEF Crash, Labels
<1>4. CASE UNCHANGED vars
  BY <1>4 DEF vars, signalVars, opportunityVars, OpportunityInv, AtMostOneOpportunity
<1> QED
  BY <1>1, <1>2, <1>3, <1>4 DEF Next

(* "Existing eligible signals can be processed idempotently": whatever      *)
(* crawls, backfills and crashes overlap, no signal ever has two committed  *)
(* opportunities.                                                           *)
THEOREM OneOpportunityPerSignal == Spec => []AtMostOneOpportunity
<1>1. OpportunityInv => AtMostOneOpportunity
  BY DEF OpportunityInv
<1>2. TypeInv => TypeOK
  BY DEF TypeInv
<1> QED
  BY TypeInit, TypeNext, OpportunityInit, OpportunityNext, <1>1, <1>2, PTL DEF Spec

-----------------------------------------------------------------------------
(* Pipeline implements OpportunityOnce.  A task owns the signals it holds   *)
(* locked and has an uncommitted opportunity for, or is having the model    *)
(* write one for.                                                           *)

Inv == TypeOK /\ OpportunityInv

OwnerMap == [e \in Urls |-> Owner(e)]

OwnerIsClaimant ==
    \A e \in Urls : /\ Owner(e) \in Tasks \cup {NoTask}
                    /\ \A t \in Tasks : Owner(e) = t <=> Claims(t, e)

(* The locks make ownership and claims the same thing.                      *)
LEMMA OwnerClaims == Inv => OwnerIsClaimant
<1> SUFFICES ASSUME Inv, NEW e \in Urls
             PROVE  /\ Owner(e) \in Tasks \cup {NoTask}
                    /\ \A t \in Tasks : Owner(e) = t <=> Claims(t, e)
  BY DEF OwnerIsClaimant
<1>1. Owner(e) \in Tasks \cup {NoTask}
  BY DEF Inv, TypeOK, Owner
<1>2. ASSUME NEW t \in Tasks, Claims(t, e)
      PROVE  signalLock[e] = t /\ t # NoTask
  BY <1>2, TasksAssumption DEF Inv, OpportunityInv, Claims
<1>3. ASSUME NEW t \in Tasks PROVE Owner(e) = t <=> Claims(t, e)
  <2>1. ASSUME Owner(e) = t PROVE Claims(t, e)
    BY <2>1, TasksAssumption DEF Owner
  <2>2. ASSUME Claims(t, e) PROVE Owner(e) = t
    BY <2>2, <1>2 DEF Owner
  <2> QED
    BY <2>1, <2>2
<1> QED
  BY <1>1, <1>3

LEMMA OwnerClaimsNext == Inv' => OwnerIsClaimant'
BY OwnerClaims, PTL

(* A step after which the same tasks claim the same signals.                *)
LEMMA OwnerFrame ==
    ASSUME Inv, Inv', UNCHANGED opportunities,
           \A t \in Tasks, e \in Urls : Claims(t, e)' <=> Claims(t, e)
    PROVE  UNCHANGED <<OwnerMap, opportunities>>
<1>1. ASSUME NEW e \in Urls PROVE Owner(e)' = Owner(e)
  <2>1. OwnerIsClaimant /\ OwnerIsClaimant'
    BY OwnerClaims, OwnerClaimsNext
  <2>2. CASE Owner(e) \in Tasks
    BY <2>1, <2>2 DEF OwnerIsClaimant
  <2>3. CASE Owner(e)' \in Tasks
    BY <2>1, <2>3 DEF OwnerIsClaimant
  <2> QED
    BY <2>1, <2>2, <2>3 DEF OwnerIsClaimant
<1> QED
  BY <1>1 DEF OwnerMap

OwnerSteps == [Once!Next]_<<OwnerMap, opportunities>>

(* What the owners become when the claims change, by the claimant's point   *)
(* of view: an owner is the one task with a claim.                          *)
LEMMA OwnerOfClaims ==
    ASSUME Inv, Inv', NEW e \in Urls, NEW o \in Tasks \cup {NoTask},
           \A t \in Tasks : Claims(t, e)' <=> t = o
    PROVE  OwnerMap'[e] = o
BY OwnerClaimsNext, TasksAssumption DEF OwnerIsClaimant, OwnerMap

LEMMA OwnerSet ==
    ASSUME Inv, NEW e \in Urls, NEW t \in Tasks
    PROVE  /\ OwnerMap[e] \in Tasks \cup {NoTask}
           /\ OwnerMap[e] = t <=> Claims(t, e)
BY OwnerClaims DEF OwnerIsClaimant, OwnerMap

(* The step after which task t claims nothing any more.                     *)
LEMMA ClaimsReleased ==
    ASSUME Inv, Inv', NEW t \in Tasks,
           \A o \in Tasks, e \in Urls : Claims(o, e)' <=> o # t /\ Claims(o, e)
    PROVE  OwnerMap' = Once!Released(t)
<1>1. ASSUME NEW e \in Urls
      PROVE  OwnerMap'[e] = IF OwnerMap[e] = t THEN NoTask ELSE OwnerMap[e]
  <2> DEFINE o == IF OwnerMap[e] = t THEN NoTask ELSE OwnerMap[e]
  <2>1. o \in Tasks \cup {NoTask}
    BY OwnerSet
  <2>2. \A x \in Tasks : Claims(x, e)' <=> x = o
    BY OwnerSet, TasksAssumption
  <2> QED
    BY <2>1, <2>2, OwnerOfClaims
<1> QED
  BY <1>1 DEF OwnerMap, Once!Released

LEMMA CommitPublishes ==
    ASSUME Inv, Inv', NEW t \in Tasks, CommitRows(t), pc[t] # "generate",
           NEW l \in Labels \ {"generate"}, Goto(t, l)
    PROVE  Once!Publish(t)
<1>1. \A o \in Tasks, e \in Urls : Claims(o, e)' <=> o # t /\ Claims(o, e)
  BY DEF Claims, CommitRows, EndTransaction, Goto, Inv, TypeOK
<1>2. ASSUME NEW e \in Urls
      PROVE  opportunities'[e] = IF OwnerMap[e] = t THEN 1 ELSE opportunities[e]
  <2>1. OwnerMap[e] = t <=> e \in newOpportunities[t]
    BY OwnerSet DEF Claims
  <2>2. e \in newOpportunities[t] => opportunities[e] = 0
    BY DEF Inv, OpportunityInv
  <2> QED
    BY <2>1, <2>2 DEF CommitRows, Inv, TypeOK
<1>3. opportunities' = [e \in Urls |-> IF OwnerMap[e] = t THEN 1 ELSE opportunities[e]]
  BY <1>2 DEF CommitRows
<1>4. OwnerMap' = Once!Released(t)
  BY <1>1, ClaimsReleased
<1> QED
  BY <1>3, <1>4 DEF Once!Publish, OwnerMap

LEMMA RollbackAbandons ==
    ASSUME Inv, Inv', NEW t \in Tasks, RollbackRows(t),
           NEW l \in Labels \ {"generate"}, Goto(t, l)
    PROVE  Once!Abandon(t)
<1>1. \A o \in Tasks, e \in Urls : Claims(o, e)' <=> o # t /\ Claims(o, e)
  BY DEF Claims, RollbackRows, EndTransaction, Goto, Inv, TypeOK
<1> QED
  BY <1>1, ClaimsReleased DEF Once!Abandon, RollbackRows, OwnerMap

LEMMA LockClaims ==
    ASSUME Inv, Inv', NEW t \in Tasks, LockSignal(t)
    PROVE  OwnerSteps
<1>1. /\ pc[t] = "lock" /\ event[t] \in Urls
      /\ UNCHANGED <<opportunities, newOpportunities, event>>
  BY DEF LockSignal, opportunityVars, Inv, TypeOK
<1>2. CASE HasOpportunity(t, event[t])
  <2>1. \A o \in Tasks, e \in Urls : Claims(o, e)' <=> Claims(o, e)
    BY <1>1, <1>2 DEF LockSignal, Goto, Claims, Inv, TypeOK
  <2> QED
    BY <1>1, <2>1, OwnerFrame DEF OwnerSteps
<1>3. CASE ~HasOpportunity(t, event[t])
  <2>1. pc' = [pc EXCEPT ![t] = "generate"]
    BY <1>3 DEF LockSignal, Goto
  <2>2. ~Claims(t, event[t]) /\ Claims(t, event[t])' /\ opportunities[event[t]] = 0
    BY <1>1, <1>3, <2>1 DEF HasOpportunity, Claims, Inv, TypeOK
  <2>3. \A o \in Tasks, e \in Urls :
           o # t \/ e # event[t] => (Claims(o, e)' <=> Claims(o, e))
    BY <1>1, <2>1 DEF Claims, Inv, TypeOK
  <2>4. OwnerMap'[event[t]] = t
    BY <1>1, <2>2, OwnerClaimsNext DEF OwnerIsClaimant, OwnerMap
  <2>5. ASSUME NEW o \in Tasks, Claims(o, event[t]) PROVE FALSE
    BY <1>1, <2>2, <2>3, <2>5, OwnerClaimsNext DEF OwnerIsClaimant
  <2>6. OwnerMap[event[t]] = NoTask
    BY <1>1, <2>5, OwnerSet
  <2>7. \A e \in Urls \ {event[t]} : OwnerMap'[e] = OwnerMap[e]
    BY <2>3, OwnerSet, OwnerOfClaims
  <2>8. OwnerMap' = [OwnerMap EXCEPT ![event[t]] = t]
    BY <1>1, <2>4, <2>7 DEF OwnerMap
  <2>9. Once!Claim(t, event[t])
    BY <1>1, <2>2, <2>6, <2>8 DEF Once!Claim, OwnerMap
  <2> QED
    BY <1>1, <2>9 DEF OwnerSteps, Once!Next
<1> QED
  BY <1>2, <1>3

(* The claim passes from the call to the uncommitted row.                   *)
LEMMA GenerateKeepsClaim ==
    ASSUME Inv, Inv', NEW t \in Tasks, Generate(t)
    PROVE  OwnerSteps
<1>1. \A o \in Tasks, e \in Urls : Claims(o, e)' <=> Claims(o, e)
  BY DEF Generate, Goto, Claims, Inv, TypeOK
<1> QED
  BY <1>1, OwnerFrame DEF OwnerSteps, Generate

LEMMA FailureGivesUp ==
    ASSUME Inv, Inv', NEW t \in Tasks, GenerateFails(t)
    PROVE  OwnerSteps
<1>1. /\ pc[t] = "generate" /\ event[t] \in Urls
      /\ UNCHANGED <<opportunities, newOpportunities, event>>
      /\ pc' = [pc EXCEPT ![t] = "ingest"]
  BY DEF GenerateFails, Goto, opportunityVars, Inv, TypeOK
<1>2. CASE event[t] \in newOpportunities[t]
  <2>1. \A o \in Tasks, e \in Urls : Claims(o, e)' <=> Claims(o, e)
    BY <1>1, <1>2 DEF Claims, Inv, TypeOK
  <2> QED
    BY <1>1, <2>1, OwnerFrame DEF OwnerSteps
<1>3. CASE event[t] \notin newOpportunities[t]
  <2>1. Claims(t, event[t]) /\ ~Claims(t, event[t])'
    BY <1>1, <1>3 DEF Claims, Inv, TypeOK
  <2>2. \A o \in Tasks, e \in Urls :
           o # t \/ e # event[t] => (Claims(o, e)' <=> Claims(o, e))
    BY <1>1 DEF Claims, Inv, TypeOK
  <2>3. OwnerMap[event[t]] = t
    BY <1>1, <2>1, OwnerSet
  <2>4. \A o \in Tasks : ~Claims(o, event[t])'
    BY <1>1, <2>1, <2>2, <2>3, OwnerSet
  <2>5. OwnerMap'[event[t]] = NoTask
    BY <1>1, <2>4, OwnerOfClaims, TasksAssumption
  <2>6. \A e \in Urls \ {event[t]} : OwnerMap'[e] = OwnerMap[e]
    BY <2>2, OwnerSet, OwnerOfClaims
  <2>7. OwnerMap' = [OwnerMap EXCEPT ![event[t]] = NoTask]
    BY <1>1, <2>5, <2>6 DEF OwnerMap
  <2>8. Once!GiveUp(t, event[t])
    BY <1>1, <2>3, <2>7 DEF Once!GiveUp, OwnerMap
  <2> QED
    BY <1>1, <2>8 DEF OwnerSteps, Once!Next
<1> QED
  BY <1>2, <1>3

(* A step of a task that neither starts nor ends a claim.                   *)
LEMMA NoClaimStep ==
    ASSUME Inv, Inv', NEW t \in Tasks, UNCHANGED opportunityVars,
           pc[t] # "generate", NEW l \in Labels \ {"generate"}, Goto(t, l),
           \A o \in Tasks \ {t} : event'[o] = event[o]
    PROVE  OwnerSteps
<1>1. \A o \in Tasks, e \in Urls : Claims(o, e)' <=> Claims(o, e)
  BY DEF Claims, Goto, opportunityVars, Inv, TypeOK
<1> QED
  BY <1>1, OwnerFrame DEF OwnerSteps, opportunityVars

LEMMA OnceInit == Init => Once!Init
<1> SUFFICES ASSUME Init PROVE Once!Init
  OBVIOUS
<1>1. \A e \in Urls : Owner(e) = NoTask
  BY DEF Init, Owner
<1> QED
  BY <1>1 DEF Init, Once!Init

LEMMA OnceNext == Inv /\ Inv' /\ [Next]_vars => OwnerSteps
<1> SUFFICES ASSUME Inv, Inv', [Next]_vars PROVE OwnerSteps
  OBVIOUS
<1>1. ASSUME NEW t \in Crawls, CrawlStep(t)
      PROVE  OwnerSteps
  <2> t \in Tasks
    BY DEF Tasks
  <2>1. CASE \/ StartCrawl(t) \/ SkipKnown(t) \/ FetchArticle(t) \/ FetchFails(t)
             \/ StoreSnapshot(t) \/ StoreFails(t) \/ InsertArticle(t)
    BY <2>1, NoClaimStep
    DEF StartCrawl, SkipKnown, FetchArticle, FetchFails, StoreSnapshot, StoreFails,
        InsertArticle, NextUrl, Labels
  <2>2. CASE \/ InsertConflicts(t) \/ AttachEvent(t) \/ DeadlockVictim(t)
             \/ RefreshUnchanged(t)
    BY <2>2, NoClaimStep
    DEF InsertConflicts, AttachEvent, DeadlockVictim, NextUrl, RefreshUnchanged, Labels
  <2>3. CASE MatchEvent(t) \/ PickEvent(t)
    BY <2>3, NoClaimStep DEF MatchEvent, PickEvent, Labels, Inv, TypeOK
  <2>4. CASE RefreshSignal(t)
    BY <2>4, NoClaimStep DEF RefreshSignal, Labels
  <2>5. CASE CommitCrawl(t)
    <3>1. Once!Publish(t)
      BY <2>5, CommitPublishes DEF CommitCrawl, Labels
    <3> QED
      BY <3>1 DEF OwnerSteps, Once!Next
  <2> QED
    BY <1>1, <2>1, <2>2, <2>3, <2>4, <2>5, LockClaims, GenerateKeepsClaim,
       FailureGivesUp DEF CrawlStep
<1>2. ASSUME NEW t \in Backfills, BackfillStep(t)
      PROVE  OwnerSteps
  <2> t \in Tasks
    BY DEF Tasks
  <2>1. CASE SelectEligible(t)
    BY <2>1, NoClaimStep DEF SelectEligible, Labels
  <2>2. CASE LoadSignal(t) \/ EndBackfill(t)
    BY <2>2, NoClaimStep DEF LoadSignal, EndBackfill, Labels, Inv, TypeOK
  <2>3. CASE CommitSignal(t)
    <3>1. Once!Publish(t)
      BY <2>3, CommitPublishes DEF CommitSignal, Labels
    <3> QED
      BY <3>1 DEF OwnerSteps, Once!Next
  <2>4. CASE BackfillFails(t)
    <3>1. Once!Abandon(t)
      BY <2>4, RollbackAbandons DEF BackfillFails, Labels
    <3> QED
      BY <3>1 DEF OwnerSteps, Once!Next
  <2> QED
    BY <1>2, <2>1, <2>2, <2>3, <2>4, LockClaims, GenerateKeepsClaim DEF BackfillStep
<1>3. ASSUME NEW t \in Tasks, Crash(t)
      PROVE  OwnerSteps
  <2>1. Once!Abandon(t)
    BY <1>3, RollbackAbandons DEF Crash, Labels
  <2> QED
    BY <2>1 DEF OwnerSteps, Once!Next
<1>4. CASE UNCHANGED vars
  <2>1. \A o \in Tasks, e \in Urls : Claims(o, e)' <=> Claims(o, e)
    BY <1>4 DEF vars, opportunityVars, Claims
  <2> QED
    BY <1>4, <2>1, OwnerFrame DEF OwnerSteps, vars, opportunityVars
<1> QED
  BY <1>1, <1>2, <1>3, <1>4 DEF Next

(* Whatever crawls, backfills and crashes overlap, the pipeline is a run of *)
(* OpportunityOnce: a signal is claimed by one task at a time, before the   *)
(* first model call, and the opportunities of a transaction appear together.*)
THEOREM PipelineImplementsOnce == Spec => OpportunitiesAreClaimed
<1>1. TypeInv => TypeOK
  BY DEF TypeInv
<1>2. OwnerSteps => [Once!Next]_<<[e \in Urls |-> Owner(e)], opportunities>>
  BY DEF OwnerSteps, OwnerMap
<1>3. TypeOK /\ OpportunityInv => Inv
  BY DEF Inv
<1> QED
  BY TypeInit, TypeNext, OpportunityInit, OpportunityNext, OnceInit, OnceNext,
     <1>1, <1>2, <1>3, PTL DEF Spec, OpportunitiesAreClaimed, Once!Spec
=============================================================================
