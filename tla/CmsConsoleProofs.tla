-------------------------- MODULE CmsConsoleProofs --------------------------
(***************************************************************************)
(* For any number of consoles, of overlapping handlers and of rows: no     *)
(* button stays disabled for a handler that is over, a quick change never  *)
(* undoes another operator's text, a form closes only on a stored save,    *)
(* and an undisturbed console shows the server's rows.                     *)
(***************************************************************************)
EXTENDS CmsConsole, TLAPS

Kinds == {"sources", "candidates"}
Labels == {NotBusy, <<"source-save">>} \cup {<<r>> : r \in Records}
          \cup {<<op, r>> : op \in {"approve", "reject", "rescan", "crawl"}, r \in Records}
Pcs == {"idle", "request", "loaded", "committed", "answered", "validating",
        "reloading", "late"}
Ops == {"none", "quick", "save", "submit", "approve", "reject", "rescan", "enqueue"}
Edited == [state : States, text : Texts]
Patches == {NoPatch} \cup [state : States] \cup Edited
Reviewed == [state : Statuses, source : Sources \cup {Absent}]

(* Each table keeps its own kind of row.                                    *)
RowKinds ==
    /\ \A r \in Sources \cup Opportunities : rows[r] \in Edited \cup {Absent}
    /\ \A k \in Candidates : rows[k] \in Reviewed \cup {Absent}

(* A request names a row of the table its endpoint writes, one that was     *)
(* there when it was loaded, and a PATCH carries what its handler sends.    *)
Requests ==
    \A t \in Tasks :
        /\ task[t].pc # "idle" => task[t].console \in Consoles
        /\ task[t].pc = "late" => task[t].label = NotBusy
        /\ task[t].pc \notin {"idle", "late"} =>
              \/ task[t].op \in {"quick", "save"} /\ task[t].rec \in Sources \cup Opportunities
              \/ /\ task[t].op \in {"submit", "approve", "reject", "rescan"}
                 /\ task[t].rec \in Candidates
              \/ task[t].op = "enqueue" /\ task[t].rec \in Sources
        /\ task[t].pc \in {"request", "loaded"} =>
              /\ task[t].op = "quick" => task[t].patch \in [state : States]
              /\ task[t].op = "save" => task[t].patch \in Edited
        /\ task[t].pc \in {"loaded", "committed"} /\ task[t].op # "submit" =>
              rows[task[t].rec] # Absent
        /\ task[t].pc = "answered" /\ task[t].op # "submit" => task[t].answer # Absent

(* Only a handler that reloads, or gave up reloading, has lists under way,  *)
(* each of them either still to be read by the server or read.              *)
Fetches ==
    \A t \in Tasks :
        /\ Outstanding(t) # {} => task[t].pc \in {"reloading", "late"}
        /\ sent[t] \cap DOMAIN served[t] = {}
        /\ sent[t] \subseteq Kinds /\ DOMAIN served[t] \subseteq Kinds
        /\ \A kind \in DOMAIN served[t] :
              served[t][kind] \in [RecordsOf(kind) -> Row \cup {Absent}]

ConsoleInv ==
    /\ TypeOK
    /\ DOMAIN busy = Consoles /\ DOMAIN sent = Tasks /\ DOMAIN served = Tasks
    /\ RowKinds
    /\ Requests
    /\ Fetches

(* The rows the request of task t may change.                               *)
Touches(t) ==
    IF task[t].op = "enqueue" THEN {}
    ELSE IF task[t].op = "approve" THEN {task[t].rec, SourceOf[task[t].rec]}
    ELSE {task[t].rec}

(* What the console of task t may show that the server has changed.         *)
Stale(t) ==
    CASE task[t].pc \in {"committed", "answered", "validating"} -> Touches(t)
      [] task[t].pc = "reloading" -> UNION {RecordsOf(kind) : kind \in Outstanding(t)}
      [] OTHER -> {}

(* An undisturbed console has at most one handler under way, shows all but  *)
(* what that one has changed, among it the row an answer is to replace, and *)
(* what comes back to it is current.                                        *)
Replaces(t) == ~ Reloads(t) /\ task[t].op # "enqueue"

FreshFor(c) ==
    /\ InFlight(c) = {} => \A r \in Records : Current(shown[c], r)
    /\ \A t, u \in InFlight(c) : t = u
    /\ \A t \in InFlight(c) :
          /\ task[t].pc # "late"
          /\ \A r \in Records \ Stale(t) : Current(shown[c], r)
          /\ task[t].pc = "answered" => task[t].answer = rows[task[t].rec]
          /\ task[t].pc # "reloading" /\ Replaces(t) => shown[c][task[t].rec] # Absent
          /\ \A kind \in DOMAIN served[t] : \A r \in RecordsOf(kind) :
                Current(served[t][kind], r)

FreshInv == \A c \in Consoles \ disturbed : FreshFor(c)

(* An opportunity whose form is open is still shown.                        *)
FormRows ==
    \A c \in Consoles : editor[c] \in Opportunities => shown[c][editor[c]] # Absent

(* The saves under way are of the form that is open, but for those that     *)
(* were under way when it was opened.                                       *)
OwnForms ==
    \A c \in Consoles : editor[c] # Closed =>
        \A t \in InFlight(c) \ overtaken : Saves(t) => Stores(t, editor[c])

-----------------------------------------------------------------------------
LEMMA RecordKinds ==
    /\ Sources \subseteq Records /\ Opportunities \subseteq Records
    /\ Candidates \subseteq Records
    /\ \A kind \in Kinds : RecordsOf(kind) \subseteq Records
    /\ \A k \in Candidates : k \notin Sources /\ k \notin Opportunities
    /\ \A r \in Opportunities : r \notin Sources
    /\ Edited \subseteq Row /\ Reviewed \subseteq Row
  BY CmsConsoleAssumption DEF Records, RecordsOf, Kinds, Edited, Reviewed, Row

LEMMA NewRows ==
    /\ [state |-> Live, text |-> NewText] \in Edited
    /\ \A s \in Statuses : [state |-> s, source |-> Absent] \in Reviewed
    /\ \A k \in Candidates : [state |-> "approved", source |-> SourceOf[k]] \in Reviewed
  BY CmsConsoleAssumption DEF Edited, Reviewed, Statuses

LEMMA AbsentIsNoRow == Absent \notin Edited /\ Absent \notin Reviewed
  BY CmsConsoleAssumption, RecordKinds

(* The type of a task, its sets unopened.                                   *)
LEMMA TaskFields ==
    TaskType = [pc : Pcs, console : Consoles \cup {Absent}, op : Ops,
                rec : Records \cup {Absent}, label : Labels, patch : Patches,
                loaded : Row \cup {Absent}, answer : Row \cup {Absent}]
  BY DEF TaskType, Pcs, Ops, Labels, Patches, Edited

LEMMA IdleType == Idle \in TaskType /\ Idle.pc = "idle"
  BY DEF Idle, TaskType, NotBusy, NoPatch

LEMMA NothingServed == DOMAIN <<>> = {}
  OBVIOUS

LEMMA RowKindsType ==
    ASSUME DOMAIN rows = Records, RowKinds, rows = [r \in Records |-> rows[r]]
    PROVE  rows \in [Records -> Row \cup {Absent}]
  BY RecordKinds DEF RowKinds, Records

LEMMA ListedType ==
    ASSUME rows \in [Records -> Row \cup {Absent}], NEW page, NEW table \in SUBSET Records
    PROVE  /\ Listed(page, table) \in [table -> Row \cup {Absent}]
           /\ \A r \in table : Listed(page, table)[r] = IF r \in page THEN rows[r] ELSE Absent
  BY DEF Listed

LEMMA LoadedPages ==
    ASSUME NEW f, f \in Loads
    PROVE  \E p \in Pages(Opportunities), q \in Pages(Candidates) :
               f = Listed(Sources \cup p \cup q, Records)
  BY SMTT(30) DEF Loads

LEMMA ConsoleInit == Init => ConsoleInv
<1> SUFFICES ASSUME Init PROVE ConsoleInv
  OBVIOUS
<1>1. /\ rows = FirstRows /\ shown \in [Consoles -> Loads] /\ disturbed = {} /\ overtaken = {}
      /\ busy = [c \in Consoles |-> NotBusy] /\ editor = [c \in Consoles |-> Closed]
      /\ task = [t \in Tasks |-> Idle] /\ clicks = 0
      /\ sent = [t \in Tasks |-> {}] /\ served = [t \in Tasks |-> <<>>]
  BY DEF Init
<1>2. RowKinds
  BY <1>1, RecordKinds, NewRows, CmsConsoleAssumption DEF RowKinds, FirstRows, Statuses
<1>3. rows \in [Records -> Row \cup {Absent}]
  BY <1>1, <1>2, RowKindsType DEF FirstRows
<1>4. \A t \in Tasks : Outstanding(t) = {}
  BY <1>1, NothingServed DEF Outstanding
<1>5. shown \in [Consoles -> [Records -> Row \cup {Absent}]]
  <2>1. \A page : Listed(page, Records) \in [Records -> Row \cup {Absent}]
    BY <1>3, ListedType
  <2>2. ASSUME NEW f, f \in Loads PROVE f \in [Records -> Row \cup {Absent}]
    <3>1. PICK page : f = Listed(page, Records)
      BY <2>2, LoadedPages
    <3> QED
      BY <2>1, <3>1
  <2> QED
    BY <1>1, <2>2
<1>6. TypeOK
  BY <1>1, <1>3, <1>4, <1>5, IdleType, CmsConsoleAssumption DEF TypeOK
<1>7. Requests
  BY <1>1, IdleType DEF Requests
<1>8. Fetches
  BY <1>1, <1>4, NothingServed DEF Fetches, Outstanding
<1> QED
  BY <1>1, <1>2, <1>6, <1>7, <1>8 DEF ConsoleInv

LEMMA FreeTaskIsIdle ==
    ASSUME \E t \in Tasks : task[t] = Idle
    PROVE  FreeTask \in Tasks /\ task[FreeTask] = Idle
  BY DEF FreeTask

(* What a click sends.                                                      *)
Sent(c, op, r, label, patch) ==
    /\ label \in Labels
    /\ \/ /\ op \in {"quick", "save"} /\ r \in Sources \cup Opportunities
          /\ patch \in [state : States] \cup Edited
          /\ op = "quick" => patch \in [state : States]
          /\ op = "save" => patch \in Edited
       \/ /\ op \in {"submit", "approve", "reject", "rescan"} /\ r \in Candidates
          /\ patch = NoPatch
       \/ op = "enqueue" /\ r \in Sources /\ patch = NoPatch
    /\ op = "quick" => shown[c][r] # Absent
    /\ op = "save" => editor[c] = r
    /\ op = "submit" => editor[c] = NewSource

LEMMA ClickSends ==
    ASSUME NEW c \in Consoles, NEW t \in Tasks, Click(c, t)
    PROVE  \E op, r, label, patch : Sent(c, op, r, label, patch) /\ Start(c, t, op, r, label, patch)
<1>1. ASSUME NEW r \in Sources \cup Opportunities, QuickChange(c, t, r)
      PROVE  \E op, r2, label, patch : Sent(c, op, r2, label, patch) /\ Start(c, t, op, r2, label, patch)
  <2>1. PICK s \in States : Start(c, t, "quick", r, <<r>>, [state |-> s])
    BY <1>1 DEF QuickChange, StatePatch
  <2>2. Sent(c, "quick", r, <<r>>, [state |-> s])
    BY <1>1, RecordKinds DEF Sent, Labels, QuickChange
  <2> QED
    BY <2>1, <2>2
<1>2. ASSUME NEW r \in Sources \cup Opportunities, Save(c, t, r)
      PROVE  \E op, r2, label, patch : Sent(c, op, r2, label, patch) /\ Start(c, t, op, r2, label, patch)
  <2>1. PICK row \in Edited : Start(c, t, "save", r, SaveLabel(r), row)
    BY <1>2 DEF Save, Edited
  <2>2. Sent(c, "save", r, SaveLabel(r), row)
    BY <1>2, RecordKinds DEF Sent, Labels, SaveLabel, Save
  <2> QED
    BY <2>1, <2>2
<1>3. ASSUME NEW k \in Candidates, SubmitSource(c, t, k)
      PROVE  \E op, r, label, patch : Sent(c, op, r, label, patch) /\ Start(c, t, op, r, label, patch)
  <2>1. Sent(c, "submit", k, <<"source-save">>, NoPatch)
    BY <1>3 DEF Sent, Labels, SubmitSource
  <2> QED
    BY <1>3, <2>1 DEF SubmitSource
<1>4. ASSUME NEW k \in Candidates, NEW op \in {"approve", "reject", "rescan"},
             CandidateAction(c, t, k, op)
      PROVE  \E o, r, label, patch : Sent(c, o, r, label, patch) /\ Start(c, t, o, r, label, patch)
  <2>1. Sent(c, op, k, <<op, k>>, NoPatch)
    BY RecordKinds DEF Sent, Labels
  <2> QED
    BY <1>4, <2>1 DEF CandidateAction
<1>5. ASSUME NEW r \in Sources, Enqueue(c, t, r)
      PROVE  \E op, r2, label, patch : Sent(c, op, r2, label, patch) /\ Start(c, t, op, r2, label, patch)
  <2>1. Sent(c, "enqueue", r, <<"crawl", r>>, NoPatch)
    BY RecordKinds DEF Sent, Labels
  <2> QED
    BY <1>5, <2>1 DEF Enqueue
<1> QED
  BY <1>1, <1>2, <1>3, <1>4, <1>5 DEF Click

LEMMA ClickShows ==
    ASSUME NEW c \in Consoles, NEW t \in Tasks, Click(c, t)
    PROVE  UNCHANGED <<rows, shown, editor>>
<1>1. PICK op, r, label, patch : Start(c, t, op, r, label, patch)
  BY ClickSends
<1> QED
  BY <1>1 DEF Start

(* A step of task t alone, with the lists left as they are.                 *)
LEMMA TaskStep ==
    ASSUME ConsoleInv, NEW t \in Tasks, NEW x, task' = [task EXCEPT ![t] = x]
    PROVE  /\ task'[t] = x
           /\ \A u \in Tasks \ {t} : task'[u] = task[u]
           /\ DOMAIN task' = Tasks
           /\ x \in TaskType => task' \in [Tasks -> TaskType]
  BY DEF ConsoleInv, TypeOK

LEMMA SameFetches ==
    ASSUME ConsoleInv, UNCHANGED fetchVars,
           \A t \in Tasks : task[t].pc \in {"reloading", "late"} =>
                                task'[t].pc \in {"reloading", "late"}
    PROVE  /\ Fetches'
           /\ \A t \in Tasks : Outstanding(t)' \subseteq Kinds
           /\ DOMAIN sent' = Tasks /\ DOMAIN served' = Tasks
  BY DEF ConsoleInv, TypeOK, Fetches, Outstanding, fetchVars, Kinds

(* Rows that are there stay there.                                          *)
RowsStay == \A r \in Records : rows[r] # Absent => rows'[r] # Absent

(* What task t may become.                                                  *)
Asks(t, x) ==
    /\ x \in TaskType
    /\ x.pc # "idle" => x.console \in Consoles
    /\ x.pc = "late" => x.label = NotBusy
    /\ x.pc \notin {"idle", "late"} =>
          \/ x.op \in {"quick", "save"} /\ x.rec \in Sources \cup Opportunities
          \/ /\ x.op \in {"submit", "approve", "reject", "rescan"}
             /\ x.rec \in Candidates
          \/ x.op = "enqueue" /\ x.rec \in Sources
    /\ x.pc \in {"request", "loaded"} =>
          /\ x.op = "quick" => x.patch \in [state : States]
          /\ x.op = "save" => x.patch \in Edited
    /\ x.pc \in {"loaded", "committed"} /\ x.op # "submit" => rows[x.rec] # Absent
    /\ x.pc = "answered" /\ x.op # "submit" => x.answer # Absent

LEMMA RequestRecords ==
    ASSUME ConsoleInv, NEW t \in Tasks, task[t].pc \notin {"idle", "late"}
    PROVE  task[t].rec \in Records /\ task[t].console \in Consoles
  BY RecordKinds DEF ConsoleInv, Requests

LEMMA RequestsStep ==
    ASSUME ConsoleInv, NEW t \in Tasks, NEW x, task' = [task EXCEPT ![t] = x],
           Asks(t, x), RowsStay
    PROVE  Requests' /\ task' \in [Tasks -> TaskType]
<1>1. task' \in [Tasks -> TaskType]
  BY TaskStep DEF Asks
<1>2. ASSUME NEW u \in Tasks \ {t}, task[u].pc \in {"loaded", "committed"},
             task[u].op # "submit"
      PROVE  rows'[task[u].rec] # Absent
  BY <1>2, RequestRecords DEF ConsoleInv, Requests, RowsStay
<1>3. x.pc \in {"loaded", "committed"} /\ x.op # "submit" => rows'[x.rec] # Absent
  BY RecordKinds DEF Asks, RowsStay
<1>4. task'[t] = x /\ \A u \in Tasks \ {t} : task'[u] = task[u]
  BY TaskStep
<1>5. Requests
  BY DEF ConsoleInv
<1> QED
  BY <1>1, <1>2, <1>3, <1>4, <1>5 DEF Requests, Asks

LEMMA StartConsole ==
    ASSUME ConsoleInv, NEW c \in Consoles, NEW t \in Tasks, task[t] = Idle,
           NEW op, NEW r, NEW label, NEW patch,
           Sent(c, op, r, label, patch), Start(c, t, op, r, label, patch)
    PROVE  ConsoleInv'
<1> DEFINE x == [Idle EXCEPT !.pc = "request", !.console = c, !.op = op, !.rec = r,
                             !.label = label, !.patch = patch]
<1>1. /\ x.pc = "request" /\ x.console = c /\ x.op = op /\ x.rec = r
      /\ x.label = label /\ x.patch = patch
  BY DEF Idle
<1>2. r \in Records /\ label \in Labels
  BY RecordKinds DEF Sent
<1>3. x \in TaskType
  <2>1. op \in Ops /\ patch \in Patches /\ label \in Labels /\ "request" \in Pcs
    BY DEF Sent, Ops, Patches, Pcs
  <2> QED
    BY <1>2, <2>1, IdleType, TaskFields
<1>4. Asks(t, x)
  BY <1>1, <1>3 DEF Sent, Asks
<1>5. task' = [task EXCEPT ![t] = x]
  BY DEF Start
<1>6. RowsStay /\ UNCHANGED <<rows, shown, editor, overtaken, fetchVars>>
  BY DEF Start, RowsStay
<1>7. Requests' /\ task' \in [Tasks -> TaskType]
  BY <1>4, <1>5, <1>6, RequestsStep
<1>8. task[t].pc = "idle"
  BY IdleType
<1>9. /\ Fetches' /\ \A u \in Tasks : Outstanding(u)' \subseteq Kinds
      /\ DOMAIN sent' = Tasks /\ DOMAIN served' = Tasks
  BY <1>5, <1>6, <1>8, TaskStep, SameFetches
<1>10. DOMAIN busy' = Consoles /\ \A d \in Consoles : busy'[d] \in Labels
  BY <1>2 DEF Start, ConsoleInv, TypeOK, Labels
<1>11. clicks' \in 0 .. MaxClicks /\ disturbed' \subseteq Consoles
  BY CmsConsoleAssumption DEF Start, ConsoleInv, TypeOK
<1>12. TypeOK'
  BY <1>6, <1>7, <1>9, <1>10, <1>11 DEF TypeOK, ConsoleInv, Labels, Kinds
<1> QED
  BY <1>6, <1>7, <1>9, <1>10, <1>12 DEF ConsoleInv, RowKinds

LEMMA OpenCloseConsole ==
    ASSUME ConsoleInv, NEW c \in Consoles,
           NEW r \in Sources \cup Opportunities \cup {NewSource},
           OpenEditor(c, r) \/ CloseEditor(c)
    PROVE  ConsoleInv'
<1>1. UNCHANGED <<rows, shown, busy, task, fetchVars, clicks, disturbed>>
  BY DEF OpenEditor, CloseEditor
<1>2. /\ editor' \in [Consoles -> Sources \cup Opportunities \cup {Closed, NewSource}]
      /\ overtaken' \subseteq Tasks
  BY DEF OpenEditor, CloseEditor, ConsoleInv, TypeOK, InFlight
<1> QED
  BY <1>1, <1>2 DEF ConsoleInv, TypeOK, RowKinds, Requests, Fetches, Outstanding, fetchVars

(* A step of the server for task t: nothing changes on the consoles.        *)
LEMMA ServerConsole ==
    ASSUME ConsoleInv, NEW t \in Tasks, NEW x, task' = [task EXCEPT ![t] = x],
           Asks(t, x), RowsStay, RowKinds', DOMAIN rows' = Records,
           rows' = [r \in Records |-> rows'[r]],
           task[t].pc \notin {"reloading", "late"},
           UNCHANGED <<viewVars, fetchVars, clicks>>, disturbed' \subseteq Consoles
    PROVE  ConsoleInv'
<1>1. Requests' /\ task' \in [Tasks -> TaskType]
  BY RequestsStep
<1>2. /\ Fetches' /\ \A u \in Tasks : Outstanding(u)' \subseteq Kinds
      /\ DOMAIN sent' = Tasks /\ DOMAIN served' = Tasks
  BY TaskStep, SameFetches
<1>3. rows' \in [Records -> Row \cup {Absent}]
  BY RecordKinds DEF RowKinds, Records
<1>4. UNCHANGED <<shown, busy, editor, overtaken, clicks>>
  BY DEF viewVars
<1>5. TypeOK'
  BY <1>1, <1>2, <1>3, <1>4 DEF TypeOK, ConsoleInv, Kinds
<1> QED
  BY <1>1, <1>2, <1>4, <1>5 DEF ConsoleInv

LEMMA SameRows ==
    ASSUME ConsoleInv, UNCHANGED <<rows, viewVars, fetchVars, clicks, disturbed>>
    PROVE  /\ RowsStay /\ RowKinds' /\ DOMAIN rows' = Records
           /\ rows' = [r \in Records |-> rows'[r]]
           /\ UNCHANGED <<viewVars, fetchVars, clicks>>
           /\ disturbed' \subseteq Consoles
  BY DEF ConsoleInv, TypeOK, RowKinds, RowsStay

LEMMA LoadConsole ==
    ASSUME ConsoleInv, NEW t \in Tasks, Load(t)
    PROVE  ConsoleInv'
<1> DEFINE x == [task[t] EXCEPT !.pc = "loaded", !.loaded = rows[task[t].rec]]
<1>1. task[t].pc = "request" /\ UNCHANGED <<rows, viewVars, fetchVars, clicks, disturbed>>
  BY DEF Load, Server
<1>2. task' = [task EXCEPT ![t] = x]
  BY DEF Load
<1>3. task[t] \in TaskType /\ "loaded" \in Pcs /\ rows[task[t].rec] \in Row \cup {Absent}
  BY <1>1, RequestRecords DEF ConsoleInv, TypeOK, Pcs
<1>4. x \in TaskType
  BY <1>3, TaskFields
<1>5. /\ x.pc = "loaded" /\ x.op = task[t].op /\ x.rec = task[t].rec
      /\ x.patch = task[t].patch /\ x.console = task[t].console
  BY <1>3, TaskFields
<1>6. x.op # "submit" => rows[x.rec] # Absent
  BY <1>5 DEF Load
<1>7. Asks(t, x)
  BY <1>1, <1>4, <1>5, <1>6 DEF Asks, ConsoleInv, Requests
<1> HIDE DEF x
<1> QED
  BY <1>1, <1>2, <1>7, SameRows, ServerConsole

LEMMA AnswerConsole ==
    ASSUME ConsoleInv, NEW t \in Tasks, Answer(t)
    PROVE  ConsoleInv'
<1> DEFINE x == [task[t] EXCEPT !.pc = "answered", !.answer = rows[task[t].rec]]
<1>1. task[t].pc = "committed" /\ UNCHANGED <<rows, viewVars, fetchVars, clicks, disturbed>>
  BY DEF Answer, Server
<1>2. task' = [task EXCEPT ![t] = x]
  BY DEF Answer
<1>3. task[t] \in TaskType /\ "answered" \in Pcs /\ rows[task[t].rec] \in Row \cup {Absent}
  BY <1>1, RequestRecords DEF ConsoleInv, TypeOK, Pcs
<1>4. x \in TaskType
  BY <1>3, TaskFields
<1>5. x.pc = "answered" /\ x.op = task[t].op /\ x.rec = task[t].rec /\ x.console = task[t].console
  BY <1>3, TaskFields
<1>6. x.op # "submit" => x.answer # Absent
  <2>1. x.answer = rows[task[t].rec]
    BY <1>3, TaskFields
  <2> QED
    BY <1>1, <1>5, <2>1 DEF ConsoleInv, Requests
<1>7. Asks(t, x)
  BY <1>1, <1>4, <1>5, <1>6 DEF Asks, ConsoleInv, Requests
<1> HIDE DEF x
<1> QED
  BY <1>1, <1>2, <1>7, SameRows, ServerConsole

LEMMA RequestValidationConsole ==
    ASSUME ConsoleInv, NEW t \in Tasks, RequestValidation(t)
    PROVE  ConsoleInv'
<1> DEFINE x == [task[t] EXCEPT !.pc = "validating"]
<1>1. task[t].pc = "answered" /\ UNCHANGED <<rows, viewVars, fetchVars, clicks, disturbed>>
  BY DEF RequestValidation, Server
<1>2. task' = [task EXCEPT ![t] = x]
  BY DEF RequestValidation
<1>3. task[t] \in TaskType /\ "validating" \in Pcs
  BY DEF ConsoleInv, TypeOK, Pcs
<1>4. x \in TaskType
  BY <1>3, TaskFields
<1>5. x.pc = "validating" /\ x.op = task[t].op /\ x.rec = task[t].rec /\ x.console = task[t].console
  BY <1>3, TaskFields
<1>6. Asks(t, x)
  BY <1>1, <1>4, <1>5 DEF Asks, ConsoleInv, Requests
<1> HIDE DEF x
<1>7. task[t].pc \notin {"reloading", "late"}
  BY <1>1
<1>8. /\ RowsStay /\ RowKinds' /\ DOMAIN rows' = Records
      /\ rows' = [r \in Records |-> rows'[r]]
      /\ UNCHANGED <<viewVars, fetchVars, clicks>> /\ disturbed' \subseteq Consoles
  BY <1>1, SameRows
<1> QED
  BY <1>2, <1>6, <1>7, <1>8, ServerConsole

(* What a commit does to the rows: a row keeps its kind and never goes; only *)
(* the rows the request names change, and a text only by a form.            *)
LEMMA CommitRows ==
    ASSUME ConsoleInv, NEW t \in Tasks, Commit(t)
    PROVE  /\ RowKinds' /\ RowsStay /\ DOMAIN rows' = Records
           /\ rows' = [r \in Records |-> rows'[r]]
           /\ \A r \in Records \ Touches(t) : rows'[r] = rows[r]
           /\ \A r \in Sources \cup Opportunities :
                 rows[r] # Absent /\ rows'[r].text # rows[r].text =>
                     task[t].op = "save" /\ task[t].rec = r
<1> DEFINE r == task[t].rec
           loaded == task[t].loaded
<1>1. task[t].pc = "loaded" /\ rows' = Committed(t)
  BY DEF Commit, Server
<1>2. r \in Records /\ rows \in [Records -> Row \cup {Absent}]
  BY <1>1, RequestRecords DEF ConsoleInv, TypeOK
<1>3. Requests /\ RowKinds
  BY DEF ConsoleInv
<1>4. CASE task[t].op \in {"quick", "save"}
  <2>1. rows' = [rows EXCEPT ![r] = Patched(@, loaded, task[t].patch)]
    BY <1>1, <1>4 DEF Committed
  <2>2. r \in Sources \cup Opportunities /\ rows[r] # Absent
    BY <1>1, <1>3, <1>4 DEF Requests
  <2>3. rows[r] \in Edited
    BY <1>3, <2>2 DEF RowKinds
  <2>4. /\ task[t].patch \in [state : States] \cup Edited
        /\ task[t].op = "quick" => task[t].patch \in [state : States]
    BY <1>1, <1>3, <1>4 DEF Requests
  <2>5. /\ Patched(rows[r], loaded, task[t].patch) \in Edited
        /\ task[t].op = "quick" =>
              Patched(rows[r], loaded, task[t].patch).text = rows[r].text
    BY <2>3, <2>4 DEF Patched, Edited
  <2>6. rows'[r] \in Edited /\ \A q \in Records \ {r} : rows'[q] = rows[q]
    BY <1>2, <2>1, <2>5
  <2>7. RowKinds' /\ RowsStay
    BY <1>3, <2>2, <2>6, RecordKinds, AbsentIsNoRow DEF RowKinds, RowsStay, Records
  <2> QED
    BY <1>2, <1>4, <2>1, <2>5, <2>6, <2>7, RecordKinds DEF Touches
<1>5. CASE task[t].op = "submit"
  <2>1. rows' = [rows EXCEPT ![r] = [state |-> "discovered", source |-> Absent]]
    BY <1>1, <1>5 DEF Committed
  <2>2. r \in Candidates
    BY <1>1, <1>3, <1>5 DEF Requests
  <2>3. [state |-> "discovered", source |-> Absent] \in Reviewed
    BY NewRows DEF Statuses
  <2>4. rows'[r] \in Reviewed /\ \A q \in Records \ {r} : rows'[q] = rows[q]
    BY <1>2, <2>1, <2>3
  <2>5. RowKinds' /\ RowsStay
    BY <1>3, <2>2, <2>4, RecordKinds, AbsentIsNoRow DEF RowKinds, RowsStay, Records
  <2> QED
    BY <1>2, <1>5, <2>1, <2>2, <2>4, <2>5, RecordKinds DEF Touches
<1>6. CASE task[t].op = "approve" /\ loaded.source = Absent
  <2> DEFINE s == SourceOf[r]
  <2>1. rows' = Approved(r)
    BY <1>1, <1>6 DEF Committed
  <2>2. r \in Candidates /\ s \in Sources /\ r # s
    BY <1>1, <1>3, <1>6, CmsConsoleAssumption DEF Requests
  <2>3. /\ rows'[r] = [state |-> "approved", source |-> s]
        /\ rows'[s] = IF rows[s] = Absent THEN [state |-> Live, text |-> NewText] ELSE rows[s]
        /\ \A q \in Records \ {r, s} : rows'[q] = rows[q]
        /\ DOMAIN rows' = Records /\ rows' = [q \in Records |-> rows'[q]]
    BY <1>2, <2>1, <2>2, RecordKinds DEF Approved
  <2>4. rows'[r] \in Reviewed /\ (rows'[s] = rows[s] \/ (rows[s] = Absent /\ rows'[s] \in Edited))
    <3>1. rows'[r] \in Reviewed
      BY <2>2, <2>3, NewRows
    <3>2. rows'[s] = rows[s] \/ (rows[s] = Absent /\ rows'[s] \in Edited)
      BY <2>3, NewRows
    <3> QED
      BY <3>1, <3>2
  <2>5. RowKinds'
    BY <1>3, <2>2, <2>3, <2>4, RecordKinds DEF RowKinds, Records
  <2>6. RowsStay
    BY <2>3, <2>4, AbsentIsNoRow DEF RowsStay
  <2> QED
    BY <1>6, <2>2, <2>3, <2>4, <2>5, <2>6, RecordKinds DEF Touches
<1>7. CASE \/ task[t].op = "reject" /\ loaded.state # "rejected"
           \/ task[t].op = "rescan" /\ loaded.state = "rejected"
  <2>1. PICK s \in {"rejected", "discovered"} : rows' = [rows EXCEPT ![r].state = s]
    BY <1>1, <1>7 DEF Committed
  <2>2. r \in Candidates /\ rows[r] # Absent
    BY <1>1, <1>3, <1>7 DEF Requests
  <2>3. rows[r] \in Reviewed
    BY <1>3, <2>2 DEF RowKinds
  <2>4. [rows[r] EXCEPT !.state = s] \in Reviewed
    BY <2>3 DEF Reviewed, Statuses
  <2>5. rows'[r] \in Reviewed /\ \A q \in Records \ {r} : rows'[q] = rows[q]
    BY <1>2, <2>1, <2>4
  <2>6. RowKinds' /\ RowsStay
    BY <1>3, <2>2, <2>5, RecordKinds, AbsentIsNoRow DEF RowKinds, RowsStay, Records
  <2> QED
    BY <1>2, <1>7, <2>1, <2>2, <2>5, <2>6, RecordKinds DEF Touches
<1>8. CASE rows' = rows
  BY <1>2, <1>3, <1>8 DEF RowKinds, RowsStay
<1>9. \/ task[t].op \in {"quick", "save", "submit"}
      \/ task[t].op = "approve" /\ loaded.source = Absent
      \/ task[t].op = "reject" /\ loaded.state # "rejected"
      \/ task[t].op = "rescan" /\ loaded.state = "rejected"
      \/ rows' = rows
  BY <1>1 DEF Committed
<1> QED
  BY <1>4, <1>5, <1>6, <1>7, <1>8, <1>9

LEMMA CommitConsole ==
    ASSUME ConsoleInv, NEW t \in Tasks, Commit(t)
    PROVE  ConsoleInv'
<1> DEFINE x == [task[t] EXCEPT !.pc = "committed", !.patch = NoPatch, !.loaded = Absent]
<1>1. task[t].pc = "loaded" /\ UNCHANGED <<viewVars, fetchVars, clicks>>
  BY DEF Commit, Server
<1>2. task' = [task EXCEPT ![t] = x]
  BY DEF Commit
<1>3. task[t] \in TaskType /\ "committed" \in Pcs /\ NoPatch \in Patches
  BY DEF ConsoleInv, TypeOK, Pcs, Patches
<1>4. x \in TaskType
  BY <1>3, TaskFields
<1>5. x.pc = "committed" /\ x.op = task[t].op /\ x.rec = task[t].rec /\ x.console = task[t].console
  BY <1>3, TaskFields
<1>6. Asks(t, x)
  BY <1>1, <1>4, <1>5 DEF Asks, ConsoleInv, Requests
<1>7. disturbed' \subseteq Consoles
  BY DEF Commit, ConsoleInv, TypeOK
<1> HIDE DEF x
<1> QED
  BY <1>1, <1>2, <1>6, <1>7, CommitRows, ServerConsole

LEMMA ValidationRows ==
    ASSUME ConsoleInv, NEW k \in Candidates, RunValidation(k)
    PROVE  /\ RowKinds' /\ RowsStay /\ rows' \in [Records -> Row \cup {Absent}]
           /\ \A r \in Records \ {k} : rows'[r] = rows[r]
<1>1. PICK s \in {"pending", "rejected"} : rows' = [rows EXCEPT ![k].state = s]
  BY DEF RunValidation
<1>2. k \in Records /\ rows \in [Records -> Row \cup {Absent}] /\ RowKinds
  BY RecordKinds DEF ConsoleInv, TypeOK
<1>3. rows[k] \in Reviewed
  BY <1>2 DEF RunValidation, RowKinds
<1>4. [rows[k] EXCEPT !.state = s] \in Reviewed
  BY <1>3 DEF Reviewed, Statuses
<1>5. rows'[k] \in Reviewed /\ \A r \in Records \ {k} : rows'[r] = rows[r]
  BY <1>1, <1>2, <1>4
<1>6. RowKinds'
  BY <1>2, <1>5, RecordKinds DEF RowKinds, Records
<1>7. RowsStay
  BY <1>5, AbsentIsNoRow DEF RowsStay
<1>8. rows' = [r \in Records |-> rows'[r]]
  BY <1>1, <1>2
<1> QED
  BY <1>5, <1>6, <1>7, <1>8, RowKindsType, RecordKinds DEF RowKinds, Records

LEMMA ValidationConsole ==
    ASSUME ConsoleInv, NEW k \in Candidates, RunValidation(k)
    PROVE  ConsoleInv'
<1>1. UNCHANGED <<viewVars, task, fetchVars, clicks>> /\ disturbed' = Consoles
  BY DEF RunValidation
<1>2. /\ Fetches' /\ \A u \in Tasks : Outstanding(u)' \subseteq Kinds
      /\ DOMAIN sent' = Tasks /\ DOMAIN served' = Tasks
  BY <1>1, SameFetches
<1>3. Requests'
  BY <1>1, RequestRecords, ValidationRows DEF ConsoleInv, Requests, RowsStay
<1>4. TypeOK'
  BY <1>1, <1>2, ValidationRows DEF ConsoleInv, TypeOK, viewVars, Kinds
<1> QED
  BY <1>1, <1>2, <1>3, <1>4, ValidationRows DEF ConsoleInv, viewVars

(* Of the lists under way, those of task t become s and f.                  *)
UnderWay(t, s, f) ==
    /\ DOMAIN sent' = Tasks /\ sent'[t] = s
    /\ DOMAIN served' = Tasks /\ served'[t] = f
    /\ \A u \in Tasks \ {t} : sent'[u] = sent[u] /\ served'[u] = served[u]

(* A list request or answer of task t moves on.                             *)
LEMMA FetchStep ==
    ASSUME ConsoleInv, NEW t \in Tasks, NEW s, NEW f,
           UnderWay(t, s, f), s \subseteq Kinds, DOMAIN f \subseteq Kinds, s \cap DOMAIN f = {},
           \A kind \in DOMAIN f : f[kind] \in [RecordsOf(kind) -> Row \cup {Absent}],
           s \cup DOMAIN f # {} => task'[t].pc \in {"reloading", "late"},
           \A u \in Tasks \ {t} : task'[u] = task[u]
    PROVE  /\ Fetches'
           /\ \A u \in Tasks : Outstanding(u)' \subseteq Kinds
           /\ DOMAIN sent' = Tasks /\ DOMAIN served' = Tasks
           /\ Outstanding(t)' = s \cup DOMAIN f
           /\ \A u \in Tasks \ {t} : Outstanding(u)' = Outstanding(u)
<1>1. /\ sent'[t] = s /\ served'[t] = f
      /\ \A u \in Tasks \ {t} : sent'[u] = sent[u] /\ served'[u] = served[u]
      /\ DOMAIN sent' = Tasks /\ DOMAIN served' = Tasks
  BY DEF UnderWay
<1>2. Fetches /\ \A u \in Tasks : Outstanding(u) \subseteq Kinds
  BY DEF ConsoleInv, TypeOK, Kinds
<1>3. \A u \in Tasks : Outstanding(u)' = sent'[u] \cup DOMAIN served'[u]
  BY DEF Outstanding
<1>4. Fetches'
  <2> SUFFICES ASSUME NEW u \in Tasks
               PROVE  /\ Outstanding(u)' # {} => task'[u].pc \in {"reloading", "late"}
                      /\ sent'[u] \cap DOMAIN served'[u] = {}
                      /\ sent'[u] \subseteq Kinds /\ DOMAIN served'[u] \subseteq Kinds
                      /\ \A kind \in DOMAIN served'[u] :
                            served'[u][kind] \in [RecordsOf(kind) -> Row \cup {Absent}]
    BY DEF Fetches
  <2>1. CASE u = t
    BY <1>1, <1>3, <2>1
  <2>2. CASE u # t
    BY <1>1, <1>2, <1>3, <2>2 DEF Fetches, Outstanding
  <2> QED
    BY <2>1, <2>2
<1> QED
  BY <1>1, <1>2, <1>3, <1>4 DEF Outstanding

LEMMA KindsServed ==
    ASSUME ConsoleInv, NEW t \in Tasks
    PROVE  /\ sent[t] \cap DOMAIN served[t] = {}
           /\ sent[t] \subseteq Kinds /\ DOMAIN served[t] \subseteq Kinds
           /\ \A kind \in DOMAIN served[t] :
                 served[t][kind] \in [RecordsOf(kind) -> Row \cup {Absent}]
           /\ sent[t] \cup DOMAIN served[t] # {} => task[t].pc \in {"reloading", "late"}
  BY DEF ConsoleInv, Fetches, Outstanding

LEMMA ServeListConsole ==
    ASSUME ConsoleInv, NEW t \in Tasks, NEW kind \in Kinds, ServeList(t, kind)
    PROVE  ConsoleInv'
<1>1. PICK copy :
          /\ \E page : copy = Listed(page, RecordsOf(kind))
          /\ served' = [served EXCEPT ![t] =
                           [k \in DOMAIN @ \cup {kind} |-> IF k = kind THEN copy ELSE @[k]]]
  BY DEF ServeList
<1>2. copy \in [RecordsOf(kind) -> Row \cup {Absent}]
  BY <1>1, RecordKinds, ListedType DEF ConsoleInv, TypeOK
<1>3. PICK f : f = [k \in DOMAIN served[t] \cup {kind} |->
                     IF k = kind THEN copy ELSE served[t][k]]
  OBVIOUS
<1>4. kind \notin DOMAIN served[t] /\ kind \in sent[t]
  BY KindsServed DEF ServeList
<1>5. /\ DOMAIN f = DOMAIN served[t] \cup {kind}
      /\ f[kind] = copy /\ \A k \in DOMAIN served[t] : f[k] = served[t][k]
  BY <1>3, <1>4
<1>6. UnderWay(t, sent[t] \ {kind}, f)
  BY <1>1, <1>3 DEF ServeList, ConsoleInv, UnderWay
<1>7. UNCHANGED <<rows, viewVars, task, clicks, disturbed>>
  BY DEF ServeList
<1>8. /\ Fetches' /\ \A u \in Tasks : Outstanding(u)' \subseteq Kinds
      /\ DOMAIN sent' = Tasks /\ DOMAIN served' = Tasks
  <2>1. /\ sent[t] \ {kind} \subseteq Kinds /\ DOMAIN f \subseteq Kinds
        /\ (sent[t] \ {kind}) \cap DOMAIN f = {}
    BY <1>4, <1>5, KindsServed
  <2>2. \A k \in DOMAIN f : f[k] \in [RecordsOf(k) -> Row \cup {Absent}]
    BY <1>2, <1>5, KindsServed
  <2>3. task'[t].pc \in {"reloading", "late"}
    BY <1>4, <1>7, KindsServed
  <2> QED
    BY <1>6, <1>7, <2>1, <2>2, <2>3, FetchStep
<1>9. TypeOK'
  BY <1>7, <1>8 DEF TypeOK, ConsoleInv, Kinds, viewVars
<1> QED
  BY <1>7, <1>8, <1>9 DEF ConsoleInv, Requests, RowKinds, viewVars

(* A step after which task t asks for what x says, while rows stay.         *)
LEMMA ClientConsole ==
    ASSUME ConsoleInv, NEW t \in Tasks, NEW x, task' = [task EXCEPT ![t] = x],
           Asks(t, x), UNCHANGED <<rows, clicks>>,
           Fetches', \A u \in Tasks : Outstanding(u)' \subseteq Kinds,
           DOMAIN sent' = Tasks, DOMAIN served' = Tasks,
           shown' \in [Consoles -> [Records -> Row \cup {Absent}]],
           NEW c \in Consoles,
           busy' = busy \/ busy' = [busy EXCEPT ![c] = NotBusy],
           editor' = editor \/ editor' = [editor EXCEPT ![c] = Closed],
           disturbed' \subseteq Consoles, overtaken' \subseteq Tasks
    PROVE  ConsoleInv'
<1>1. Requests' /\ task' \in [Tasks -> TaskType]
  BY RequestsStep DEF RowsStay
<1>2. DOMAIN busy' = Consoles /\ \A d \in Consoles : busy'[d] \in Labels
  BY DEF ConsoleInv, TypeOK, Labels
<1>3. editor' \in [Consoles -> Sources \cup Opportunities \cup {Closed, NewSource}]
  BY DEF ConsoleInv, TypeOK
<1>4. TypeOK'
  BY <1>1, <1>2, <1>3 DEF ConsoleInv, TypeOK, Kinds, Labels
<1> QED
  BY <1>1, <1>2, <1>4 DEF ConsoleInv, RowKinds

LEMMA OverAsks ==
    ASSUME ConsoleInv, NEW t \in Tasks, task[t].pc # "idle", NEW due
    PROVE  /\ Asks(t, Over(t, due))
           /\ due = {} => Over(t, due).pc = "idle"
           /\ Over(t, due).op = "none"
           /\ due # {} => Over(t, due).pc = "late" /\ Over(t, due).console = task[t].console
<1>1. task[t].console \in Consoles
  BY DEF ConsoleInv, Requests
<1>2. /\ [Idle EXCEPT !.pc = "late", !.console = task[t].console] \in TaskType
      /\ [Idle EXCEPT !.pc = "late", !.console = task[t].console].pc = "late"
      /\ [Idle EXCEPT !.pc = "late", !.console = task[t].console].label = NotBusy
      /\ [Idle EXCEPT !.pc = "late", !.console = task[t].console].op = "none"
      /\ [Idle EXCEPT !.pc = "late", !.console = task[t].console].console = task[t].console
  <2>1. "late" \in Pcs /\ Idle.label = NotBusy /\ Idle.op = "none"
    BY DEF Pcs, Idle
  <2> QED
    BY <1>1, <2>1, IdleType, TaskFields
<1>3. Idle.op = "none"
  BY DEF Idle
<1> QED
  BY <1>1, <1>2, <1>3, IdleType DEF Over, Asks

LEMMA ReceiveConsole ==
    ASSUME ConsoleInv, NEW t \in Tasks, Receive(t)
    PROVE  ConsoleInv'
<1>1. task[t].pc = "answered" /\ task' = [task EXCEPT ![t] = Idle]
      /\ UNCHANGED <<rows, fetchVars, clicks, disturbed>>
  BY DEF Receive, Server
<1>2. PICK c \in Consoles : c = task[t].console
  BY <1>1, RequestRecords
<1>3. busy' = [busy EXCEPT ![c] = NotBusy]
  BY <1>2 DEF Receive, ClearBusy
<1>4. editor' = editor \/ editor' = [editor EXCEPT ![c] = Closed]
  BY <1>2 DEF Receive, CloseAfterSave
<1>5. \/ shown' = shown
      \/ shown' = [shown EXCEPT ![c][task[t].rec] = IF @ = Absent THEN Absent ELSE task[t].answer]
  BY <1>2 DEF Receive, ReplaceRow
<1>6. task[t].rec \in Records /\ task[t].answer \in Row \cup {Absent}
  BY <1>1, RequestRecords, TaskFields DEF ConsoleInv, TypeOK
<1>7. shown' \in [Consoles -> [Records -> Row \cup {Absent}]]
  BY <1>5, <1>6 DEF ConsoleInv, TypeOK
<1>8. Asks(t, Idle)
  BY IdleType DEF Asks
<1>9. /\ Fetches' /\ \A u \in Tasks : Outstanding(u)' \subseteq Kinds
      /\ DOMAIN sent' = Tasks /\ DOMAIN served' = Tasks
  BY <1>1, TaskStep, SameFetches
<1>10. disturbed' \subseteq Consoles /\ overtaken' \subseteq Tasks
  BY <1>1 DEF Receive, CloseAfterSave, ConsoleInv, TypeOK
<1> QED
  BY <1>1, <1>3, <1>4, <1>7, <1>8, <1>9, <1>10, ClientConsole

LEMMA ReloadConsole ==
    ASSUME ConsoleInv, NEW t \in Tasks, Reload(t)
    PROVE  ConsoleInv'
<1> DEFINE x == [task[t] EXCEPT !.pc = "reloading", !.answer = Absent]
<1>1. /\ task[t].pc \in {"validating", "answered"} /\ task' = [task EXCEPT ![t] = x]
      /\ sent' = [sent EXCEPT ![t] = Lists(t)]
      /\ UNCHANGED <<rows, viewVars, served, clicks, disturbed>>
  BY DEF Reload, Server
<1>2. task[t] \in TaskType /\ "reloading" \in Pcs
  BY DEF ConsoleInv, TypeOK, Pcs
<1>3. x \in TaskType
  BY <1>2, TaskFields
<1>4. x.pc = "reloading" /\ x.op = task[t].op /\ x.rec = task[t].rec /\ x.console = task[t].console
  BY <1>2, TaskFields
<1>5. Asks(t, x)
  BY <1>1, <1>3, <1>4 DEF Asks, ConsoleInv, Requests
<1> HIDE DEF x
<1>6. Lists(t) \subseteq Kinds
  BY DEF Lists, Kinds
<1>7. DOMAIN served[t] = {} /\ sent[t] = {}
  BY <1>1, KindsServed
<1>8. UnderWay(t, Lists(t), served[t])
  BY <1>1 DEF ConsoleInv, UnderWay
<1>9. /\ Fetches' /\ \A u \in Tasks : Outstanding(u)' \subseteq Kinds
      /\ DOMAIN sent' = Tasks /\ DOMAIN served' = Tasks
  <2>1. task'[t].pc = "reloading" /\ \A u \in Tasks \ {t} : task'[u] = task[u]
    BY <1>1, <1>4, TaskStep
  <2>2. /\ DOMAIN served[t] \subseteq Kinds /\ Lists(t) \cap DOMAIN served[t] = {}
        /\ \A kind \in DOMAIN served[t] :
              served[t][kind] \in [RecordsOf(kind) -> Row \cup {Absent}]
    BY <1>7
  <2> QED
    BY <1>6, <1>8, <2>1, <2>2, FetchStep
<1>10. PICK c \in Consoles : c = task[t].console
  BY <1>1, RequestRecords
<1>11. /\ shown' \in [Consoles -> [Records -> Row \cup {Absent}]]
       /\ busy' = busy /\ editor' = editor
       /\ disturbed' \subseteq Consoles /\ overtaken' \subseteq Tasks
  BY <1>1 DEF ConsoleInv, TypeOK, viewVars
<1> QED
  BY <1>1, <1>5, <1>9, <1>10, <1>11, ClientConsole

(* What an answered or failed list request leaves under way.                *)
LEMMA KindGone ==
    ASSUME ConsoleInv, NEW t \in Tasks, NEW kind \in Outstanding(t),
           UnderWay(t, sent[t] \ {kind}, Restrict(served[t], DOMAIN served[t] \ {kind})),
           NEW x, task' = [task EXCEPT ![t] = x],
           Outstanding(t) \ {kind} # {} => x.pc \in {"reloading", "late"}
    PROVE  /\ Fetches' /\ \A u \in Tasks : Outstanding(u)' \subseteq Kinds
           /\ DOMAIN sent' = Tasks /\ DOMAIN served' = Tasks
           /\ Outstanding(t)' = Outstanding(t) \ {kind}
           /\ DOMAIN served'[t] = DOMAIN served[t] \ {kind}
           /\ \A k \in DOMAIN served'[t] : served'[t][k] = served[t][k]
<1>1. PICK f : f = Restrict(served[t], DOMAIN served[t] \ {kind})
  OBVIOUS
<1>2. /\ DOMAIN f = DOMAIN served[t] \ {kind}
      /\ \A k \in DOMAIN f : f[k] = served[t][k]
  BY <1>1 DEF Restrict
<1>3. PICK s : s = sent[t] \ {kind}
  OBVIOUS
<1>4. UnderWay(t, s, f)
  BY <1>1, <1>3
<1>5. /\ s \subseteq Kinds /\ DOMAIN f \subseteq Kinds /\ s \cap DOMAIN f = {}
      /\ \A k \in DOMAIN f : f[k] \in [RecordsOf(k) -> Row \cup {Absent}]
  BY <1>2, <1>3, KindsServed
<1>6. s \cup DOMAIN f = Outstanding(t) \ {kind}
  BY <1>2, <1>3 DEF Outstanding
<1>7. s \cup DOMAIN f # {} => task'[t].pc \in {"reloading", "late"}
  BY <1>6, TaskStep
<1>8. \A u \in Tasks \ {t} : task'[u] = task[u]
  BY TaskStep
<1>9. /\ Fetches' /\ \A u \in Tasks : Outstanding(u)' \subseteq Kinds
      /\ DOMAIN sent' = Tasks /\ DOMAIN served' = Tasks
      /\ Outstanding(t)' = s \cup DOMAIN f
  BY <1>4, <1>5, <1>7, <1>8, FetchStep
<1>10. served'[t] = f
  BY <1>4 DEF UnderWay
<1> QED
  BY <1>2, <1>6, <1>9, <1>10

LEMMA ReceiveListConsole ==
    ASSUME ConsoleInv, NEW t \in Tasks, NEW kind \in Kinds, ReceiveList(t, kind)
    PROVE  ConsoleInv'
<1>1. /\ kind \in DOMAIN served[t] /\ kind \notin sent[t] /\ kind \in Outstanding(t)
      /\ task[t].pc \in {"reloading", "late"}
  BY KindsServed DEF ReceiveList, Outstanding
<1>2. PICK c \in Consoles : c = task[t].console
  BY <1>1 DEF ConsoleInv, Requests
<1>3. PICK x : x = (IF Outstanding(t) # {kind} THEN task[t] ELSE Idle)
  OBVIOUS
<1>4. task' = [task EXCEPT ![t] = x]
  BY <1>3 DEF ReceiveList, ConsoleInv, TypeOK
<1>5. Asks(t, x)
  BY <1>1, <1>3, IdleType DEF Asks, ConsoleInv, TypeOK, Requests
<1>6. /\ busy' = busy \/ busy' = [busy EXCEPT ![c] = NotBusy]
      /\ editor' = editor \/ editor' = [editor EXCEPT ![c] = Closed]
      /\ UNCHANGED <<rows, sent, clicks, disturbed>>
  BY <1>2 DEF ReceiveList, CloseAfterSave, ClearBusy
<1>7. UnderWay(t, sent[t] \ {kind}, Restrict(served[t], DOMAIN served[t] \ {kind}))
  <2>1. sent[t] \ {kind} = sent[t]
    BY <1>1
  <2> QED
    BY <1>6, <2>1 DEF ReceiveList, ConsoleInv, UnderWay
<1>8. Outstanding(t) \ {kind} # {} => x.pc \in {"reloading", "late"}
  BY <1>1, <1>3
<1>9. /\ Fetches' /\ \A u \in Tasks : Outstanding(u)' \subseteq Kinds
      /\ DOMAIN sent' = Tasks /\ DOMAIN served' = Tasks
  BY <1>1, <1>4, <1>7, <1>8, KindGone
<1>10. shown' \in [Consoles -> [Records -> Row \cup {Absent}]]
  <2>1. [r \in Records |-> IF r \in RecordsOf(kind) THEN served[t][kind][r] ELSE shown[c][r]]
            \in [Records -> Row \cup {Absent}]
    BY <1>1, KindsServed DEF ConsoleInv, TypeOK
  <2> QED
    BY <1>2, <2>1 DEF ReceiveList, ConsoleInv, TypeOK
<1>11. disturbed' \subseteq Consoles /\ overtaken' \subseteq Tasks
  BY <1>6 DEF ReceiveList, CloseAfterSave, ConsoleInv, TypeOK
<1> QED
  BY <1>4, <1>5, <1>6, <1>9, <1>10, <1>11, ClientConsole

LEMMA RequestFailsConsole ==
    ASSUME ConsoleInv, NEW t \in Tasks, RequestFails(t)
    PROVE  ConsoleInv'
<1>1. /\ task[t].pc \in {"loaded", "answered", "validating"}
      /\ task' = [task EXCEPT ![t] = Over(t, {})]
      /\ UNCHANGED <<rows, shown, editor, clicks, fetchVars>>
  BY DEF RequestFails, GiveUp
<1>2. PICK c \in Consoles : c = task[t].console
  BY <1>1, RequestRecords
<1>3. /\ busy' = [busy EXCEPT ![c] = NotBusy]
      /\ disturbed' \subseteq Consoles /\ overtaken' \subseteq Tasks
  BY <1>2 DEF RequestFails, GiveUp, ClearBusy, ConsoleInv, TypeOK
<1>4. /\ Fetches' /\ \A u \in Tasks : Outstanding(u)' \subseteq Kinds
      /\ DOMAIN sent' = Tasks /\ DOMAIN served' = Tasks
  BY <1>1, TaskStep, SameFetches
<1>5. shown' \in [Consoles -> [Records -> Row \cup {Absent}]]
  BY <1>1 DEF ConsoleInv, TypeOK
<1> QED
  BY <1>1, <1>3, <1>4, <1>5, OverAsks, ClientConsole

LEMMA ListFailsConsole ==
    ASSUME ConsoleInv, NEW t \in Tasks, NEW kind \in Kinds, ListFails(t, kind)
    PROVE  ConsoleInv'
<1>1. kind \in Outstanding(t) /\ task[t].pc \in {"reloading", "late"}
  BY KindsServed DEF ListFails, Outstanding
<1>2. PICK c \in Consoles : c = task[t].console
  BY <1>1 DEF ConsoleInv, Requests
<1>3. PICK due : due = Outstanding(t) \ {kind}
  OBVIOUS
<1>4. task' = [task EXCEPT ![t] = Over(t, due)]
  BY <1>3 DEF ListFails, GiveUp
<1>5. /\ busy' = busy \/ busy' = [busy EXCEPT ![c] = NotBusy]
      /\ UNCHANGED <<rows, shown, editor, clicks>>
  BY <1>2 DEF ListFails, GiveUp, ClearBusy, viewVars
<1>6. disturbed' \subseteq Consoles /\ overtaken' \subseteq Tasks
  BY <1>2 DEF ListFails, GiveUp, viewVars, ConsoleInv, TypeOK
<1>7. UnderWay(t, sent[t] \ {kind}, Restrict(served[t], DOMAIN served[t] \ {kind}))
  BY DEF ListFails, ConsoleInv, UnderWay
<1>8. Asks(t, Over(t, due)) /\ (due # {} => Over(t, due).pc \in {"reloading", "late"})
  BY <1>1, OverAsks
<1>9. /\ Fetches' /\ \A u \in Tasks : Outstanding(u)' \subseteq Kinds
      /\ DOMAIN sent' = Tasks /\ DOMAIN served' = Tasks
  BY <1>1, <1>3, <1>4, <1>7, <1>8, KindGone
<1>10. shown' \in [Consoles -> [Records -> Row \cup {Absent}]]
  BY <1>5 DEF ConsoleInv, TypeOK
<1> QED
  BY <1>2, <1>4, <1>5, <1>6, <1>8, <1>9, <1>10, ClientConsole

LEMMA ConsoleNext == ConsoleInv /\ [Next]_vars => ConsoleInv'
<1> SUFFICES ASSUME ConsoleInv, [Next]_vars PROVE ConsoleInv'
  OBVIOUS
<1>1. CASE UNCHANGED vars
  BY <1>1 DEF vars, viewVars, fetchVars, ConsoleInv, TypeOK, RowKinds, Requests, Fetches, Outstanding
<1>2. ASSUME NEW c \in Consoles, \E t \in Tasks : task[t] = Idle, Click(c, FreeTask)
      PROVE  ConsoleInv'
  BY <1>2, FreeTaskIsIdle, ClickSends, StartConsole
<1>3. ASSUME NEW c \in Consoles,
             \/ \E r \in Sources \cup Opportunities \cup {NewSource} : OpenEditor(c, r)
             \/ CloseEditor(c)
      PROVE  ConsoleInv'
  BY <1>3, OpenCloseConsole
<1>4. ASSUME NEW t \in Tasks, Proceed(t) PROVE ConsoleInv'
  BY <1>4, LoadConsole, CommitConsole, AnswerConsole, ReceiveConsole, RequestValidationConsole,
     ReloadConsole, ServeListConsole, ReceiveListConsole DEF Proceed, Kinds
<1>5. ASSUME NEW t \in Tasks, Fails(t) PROVE ConsoleInv'
  BY <1>5, RequestFailsConsole, ListFailsConsole DEF Fails, Kinds
<1>6. ASSUME NEW k \in Candidates, RunValidation(k) PROVE ConsoleInv'
  BY <1>6, ValidationConsole
<1> QED
  BY <1>1, <1>2, <1>3, <1>4, <1>5, <1>6 DEF Next

LEMMA ConsoleInvariant == Spec => []ConsoleInv
  BY ConsoleInit, ConsoleNext, PTL DEF Spec

(* The variables of the console and of the rows keep their types.           *)
THEOREM CmsConsoleTypes == Spec => []TypeOK
<1>1. ConsoleInv => TypeOK
  BY DEF ConsoleInv
<1> QED
  BY <1>1, ConsoleInvariant, PTL

-----------------------------------------------------------------------------
(* The busy string.  A handler that goes on keeps its label; one that ends  *)
(* clears its console's.                                                    *)
GoesOn ==
    /\ busy' = busy
    /\ \A u \in Tasks : task[u].pc # "idle" /\ task[u].label # NotBusy =>
          /\ task'[u].pc # "idle"
          /\ task'[u].console = task[u].console /\ task'[u].label = task[u].label

Ends(t) ==
    /\ busy' = [busy EXCEPT ![task[t].console] = NotBusy]
    /\ \A u \in Tasks \ {t} : task'[u] = task[u]

LEMMA OwnedGoesOn ==
    ASSUME ConsoleInv, BusyIsOwned, GoesOn
    PROVE  BusyIsOwned'
<1> SUFFICES ASSUME NEW c \in Consoles, busy'[c] # NotBusy
             PROVE  \E t \in InFlight(c)' : task'[t].label = busy'[c]
  BY DEF BusyIsOwned
<1>1. PICK t \in InFlight(c) : task[t].label = busy[c]
  BY DEF BusyIsOwned, GoesOn
<1>2. t \in Tasks /\ task[t].pc # "idle" /\ task[t].console = c
  BY DEF InFlight
<1>3. t \in InFlight(c)' /\ task'[t].label = busy'[c]
  BY <1>1, <1>2 DEF GoesOn, InFlight
<1> QED
  BY <1>3

LEMMA OwnedEnds ==
    ASSUME ConsoleInv, BusyIsOwned, NEW t \in Tasks, Ends(t)
    PROVE  BusyIsOwned'
<1> SUFFICES ASSUME NEW c \in Consoles, busy'[c] # NotBusy
             PROVE  \E u \in InFlight(c)' : task'[u].label = busy'[c]
  BY DEF BusyIsOwned
<1>1. c # task[t].console /\ busy'[c] = busy[c]
  BY DEF Ends, ConsoleInv
<1>2. PICK u \in InFlight(c) : task[u].label = busy[c]
  BY <1>1 DEF BusyIsOwned
<1>3. u \in Tasks \ {t} /\ task[u].pc # "idle" /\ task[u].console = c
  BY <1>1, <1>2 DEF InFlight
<1>4. u \in InFlight(c)' /\ task'[u].label = busy'[c]
  BY <1>1, <1>2, <1>3 DEF Ends, InFlight
<1> QED
  BY <1>4

LEMMA OwnedStart ==
    ASSUME ConsoleInv, BusyIsOwned, NEW c \in Consoles, NEW t \in Tasks, task[t] = Idle,
           NEW op, NEW r, NEW label, NEW patch, Start(c, t, op, r, label, patch)
    PROVE  BusyIsOwned'
<1>1. task'[t].pc = "request" /\ task'[t].console = c /\ task'[t].label = label
  BY DEF Start, Idle, ConsoleInv, TypeOK
<1>2. \A u \in Tasks \ {t} : task'[u] = task[u]
  BY DEF Start, ConsoleInv, TypeOK
<1>3. busy'[c] = label /\ \A d \in Consoles \ {c} : busy'[d] = busy[d]
  BY DEF Start, ConsoleInv
<1> SUFFICES ASSUME NEW d \in Consoles, busy'[d] # NotBusy
             PROVE  \E u \in InFlight(d)' : task'[u].label = busy'[d]
  BY DEF BusyIsOwned
<1>4. CASE d = c
  <2>1. t \in InFlight(d)'
    BY <1>1, <1>4 DEF InFlight
  <2> QED
    BY <1>1, <1>3, <1>4, <2>1
<1>5. CASE d # c
  <2>1. PICK u \in InFlight(d) : task[u].label = busy[d]
    BY <1>3, <1>5 DEF BusyIsOwned
  <2>2. u \in Tasks \ {t} /\ task[u].pc # "idle" /\ task[u].console = d
    BY <2>1, IdleType DEF InFlight
  <2>3. u \in InFlight(d)' /\ task'[u].label = busy'[d]
    BY <1>2, <1>3, <1>5, <2>1, <2>2 DEF InFlight
  <2> QED
    BY <2>3
<1> QED
  BY <1>4, <1>5

(* A task that changes no more than these fields goes on.                   *)
LEMMA FieldStep ==
    ASSUME ConsoleInv, NEW t \in Tasks,
           Load(t) \/ Commit(t) \/ Answer(t) \/ RequestValidation(t) \/ Reload(t)
    PROVE  /\ task'[t].pc \notin {"idle", "late"}
           /\ task[t].pc \notin {"idle", "late", "reloading"}
           /\ task'[t].console = task[t].console /\ task'[t].label = task[t].label
           /\ task'[t].op = task[t].op /\ task'[t].rec = task[t].rec
           /\ \A u \in Tasks \ {t} : task'[u] = task[u]
           /\ UNCHANGED <<viewVars, served>>
<1>1. task \in [Tasks -> TaskType]
  BY DEF ConsoleInv, TypeOK
<1>2. task[t] \in TaskType
  BY <1>1
<1>3. CASE Load(t)
  BY <1>1, <1>2, <1>3, TaskFields DEF Load, Server, fetchVars
<1>4. CASE Commit(t)
  BY <1>1, <1>2, <1>4, TaskFields DEF Commit, Server, fetchVars
<1>5. CASE Answer(t)
  BY <1>1, <1>2, <1>5, TaskFields DEF Answer, Server, fetchVars
<1>6. CASE RequestValidation(t)
  BY <1>1, <1>2, <1>6, TaskFields DEF RequestValidation, Server, fetchVars
<1>7. CASE Reload(t)
  BY <1>1, <1>2, <1>7, TaskFields DEF Reload, Server
<1> QED
  BY <1>3, <1>4, <1>5, <1>6, <1>7

LEMMA OwnedTask ==
    ASSUME ConsoleInv, NEW t \in Tasks, Proceed(t) \/ Fails(t)
    PROVE  GoesOn \/ Ends(t)
<1>1. CASE Load(t) \/ Commit(t) \/ Answer(t) \/ RequestValidation(t) \/ Reload(t)
  BY <1>1, FieldStep DEF GoesOn, viewVars
<1>2. CASE Receive(t)
  BY <1>2, TaskStep DEF Receive, ClearBusy, Ends
<1>3. ASSUME NEW kind \in Kinds, ServeList(t, kind) PROVE GoesOn
  BY <1>3 DEF ServeList, GoesOn, viewVars
<1>4. ASSUME NEW kind \in Kinds, ReceiveList(t, kind) PROVE GoesOn \/ Ends(t)
  <2>1. CASE Outstanding(t) # {kind}
    BY <1>4, <2>1 DEF ReceiveList, GoesOn
  <2>2. CASE Outstanding(t) = {kind} /\ task[t].pc = "late"
    <3>1. task[t].label = NotBusy
      BY <2>2 DEF ConsoleInv, Requests
    <3>2. busy' = busy /\ \A u \in Tasks \ {t} : task'[u] = task[u]
      BY <1>4, <2>2, TaskStep DEF ReceiveList
    <3> QED
      BY <3>1, <3>2 DEF GoesOn
  <2>3. CASE Outstanding(t) = {kind} /\ task[t].pc # "late"
    BY <1>4, <2>3, TaskStep DEF ReceiveList, ClearBusy, Ends
  <2> QED
    BY <2>1, <2>2, <2>3
<1>5. CASE RequestFails(t)
  BY <1>5, TaskStep DEF RequestFails, GiveUp, ClearBusy, Ends
<1>6. ASSUME NEW kind \in Kinds, ListFails(t, kind) PROVE GoesOn \/ Ends(t)
  <2>1. CASE task[t].pc = "reloading"
    BY <1>6, <2>1, TaskStep DEF ListFails, GiveUp, ClearBusy, Ends
  <2>2. CASE task[t].pc # "reloading"
    <3>1. task[t].label = NotBusy
      BY <1>6, <2>2, KindsServed DEF ListFails, Outstanding, ConsoleInv, Requests
    <3>2. busy' = busy /\ \A u \in Tasks \ {t} : task'[u] = task[u]
      BY <1>6, <2>2, TaskStep DEF ListFails, viewVars
    <3> QED
      BY <3>1, <3>2 DEF GoesOn
  <2> QED
    BY <2>1, <2>2
<1> QED
  BY <1>1, <1>2, <1>3, <1>4, <1>5, <1>6 DEF Proceed, Fails, Kinds

LEMMA OwnedNext == ConsoleInv /\ BusyIsOwned /\ [Next]_vars => BusyIsOwned'
<1> SUFFICES ASSUME ConsoleInv, BusyIsOwned, [Next]_vars PROVE BusyIsOwned'
  OBVIOUS
<1>1. CASE UNCHANGED vars
  BY <1>1, OwnedGoesOn DEF vars, viewVars, GoesOn
<1>2. ASSUME NEW c \in Consoles, \E t \in Tasks : task[t] = Idle, Click(c, FreeTask)
      PROVE  BusyIsOwned'
  BY <1>2, FreeTaskIsIdle, ClickSends, OwnedStart
<1>3. ASSUME NEW c \in Consoles,
             \/ \E r \in Sources \cup Opportunities \cup {NewSource} : OpenEditor(c, r)
             \/ CloseEditor(c)
      PROVE  BusyIsOwned'
  BY <1>3, OwnedGoesOn DEF OpenEditor, CloseEditor, GoesOn
<1>4. ASSUME NEW t \in Tasks, Proceed(t) \/ Fails(t) PROVE BusyIsOwned'
  BY <1>4, OwnedTask, OwnedGoesOn, OwnedEnds
<1>5. ASSUME NEW k \in Candidates, RunValidation(k) PROVE BusyIsOwned'
  BY <1>5, OwnedGoesOn DEF RunValidation, viewVars, GoesOn
<1> QED
  BY <1>1, <1>2, <1>3, <1>4, <1>5 DEF Next

(* However many handlers of a console overlap, all writing and clearing the *)
(* one busy string (CmsConsole.js, setBusy and the finally blocks), none of *)
(* its buttons stays disabled for a handler that is over.                   *)
THEOREM ConsolesAreBusyWithTasks == Spec => []BusyIsOwned
<1>1. Init => BusyIsOwned
  BY DEF Init, BusyIsOwned
<1> QED
  BY <1>1, ConsoleInvariant, OwnedNext, PTL DEF Spec

-----------------------------------------------------------------------------
(* Only a commit and a decided validation write rows.                       *)
LEMMA RowsWritten ==
    ASSUME ConsoleInv, [Next]_vars, rows' # rows
    PROVE  \/ \E t \in Tasks : Commit(t)
           \/ \E k \in Candidates : RunValidation(k)
<1>1. ASSUME NEW c \in Consoles, Click(c, FreeTask), \E t \in Tasks : task[t] = Idle
      PROVE  rows' = rows
  BY <1>1, FreeTaskIsIdle, ClickShows
<1>2. ASSUME NEW t \in Tasks, Proceed(t), ~ Commit(t)
      PROVE  rows' = rows
  BY <1>2 DEF Proceed, Load, Answer, Receive, RequestValidation, Reload, ServeList, ReceiveList
<1>3. ASSUME NEW t \in Tasks, Fails(t)
      PROVE  rows' = rows
  BY <1>3 DEF Fails, RequestFails, ListFails, GiveUp
<1> QED
  BY <1>1, <1>2, <1>3 DEF Next, vars, OpenEditor, CloseEditor

(* Whatever toggles and status changes overlap, and however old the row a   *)
(* console shows, the text of a row that is there changes only with a form  *)
(* saved for that row (update_source and its like write the PATCH's fields  *)
(* that are set, toggleSource sends the one).                               *)
THEOREM QuickChangesKeepTexts == Spec => QuickChangeKeepsText
<1>1. ASSUME ConsoleInv, [Next]_vars PROVE TextChangedByForm
  <2>1. CASE rows' = rows
    BY <2>1 DEF TextChangedByForm
  <2>2. ASSUME NEW t \in Tasks, Commit(t) PROVE TextChangedByForm
    <3>1. task[t].pc = "loaded" /\ task'[t].pc = "committed"
      BY <1>1, <2>2, TaskFields DEF Commit, Server, ConsoleInv, TypeOK
    <3> QED
      BY <1>1, <2>2, <3>1, CommitRows DEF TextChangedByForm
  <2>3. ASSUME NEW k \in Candidates, RunValidation(k) PROVE TextChangedByForm
    BY <1>1, <2>3, ValidationRows, RecordKinds DEF TextChangedByForm
  <2> QED
    BY <1>1, <2>1, <2>2, <2>3, RowsWritten
<1>2. ConsoleInv /\ [Next]_vars => [TextChangedByForm]_vars
  BY <1>1
<1> QED
  BY <1>2, ConsoleInvariant, PTL DEF Spec, QuickChangeKeepsText

(* Forms: a save under way is of the form that is open, or was under way    *)
(* when it was opened.                                                      *)
FormAs(u) ==
    task'[u].pc # "idle" /\ Saves(u)' /\ u \notin overtaken' =>
        /\ task[u].pc # "idle" /\ u \notin overtaken
        /\ task'[u].console = task[u].console
        /\ task'[u].op = task[u].op /\ task'[u].rec = task[u].rec

LEMMA FormsGoOn ==
    ASSUME OwnForms, \A u \in Tasks : FormAs(u),
           \A c \in Consoles : editor'[c] # Closed => editor'[c] = editor[c]
    PROVE  OwnForms'
<1> SUFFICES ASSUME NEW c \in Consoles, editor'[c] # Closed,
                    NEW u \in Tasks, task'[u].pc # "idle", task'[u].console = c,
                    u \notin overtaken', Saves(u)'
             PROVE  Stores(u, editor[c])'
  BY DEF OwnForms, InFlight
<1>1. /\ task[u].pc # "idle" /\ u \notin overtaken /\ task[u].console = c
      /\ task'[u].op = task[u].op /\ task'[u].rec = task[u].rec
  BY DEF FormAs
<1>2. Saves(u) /\ editor'[c] = editor[c] /\ u \in InFlight(c)
  BY <1>1 DEF Saves, InFlight
<1>3. Stores(u, editor[c])
  BY <1>1, <1>2 DEF OwnForms
<1> QED
  BY <1>1, <1>2, <1>3 DEF Stores

LEMMA FormsStart ==
    ASSUME ConsoleInv, OwnForms, NEW c \in Consoles, NEW t \in Tasks, task[t] = Idle,
           NEW op, NEW r, NEW label, NEW patch,
           Sent(c, op, r, label, patch), Start(c, t, op, r, label, patch)
    PROVE  OwnForms'
<1>1. /\ task'[t].console = c /\ task'[t].op = op /\ task'[t].rec = r
      /\ \A u \in Tasks \ {t} : task'[u] = task[u]
      /\ editor' = editor /\ overtaken' = overtaken
  BY DEF Start, Idle, ConsoleInv, TypeOK
<1> SUFFICES ASSUME NEW d \in Consoles, editor'[d] # Closed,
                    NEW u \in Tasks, task'[u].pc # "idle", task'[u].console = d,
                    u \notin overtaken', Saves(u)'
             PROVE  Stores(u, editor[d])'
  BY DEF OwnForms, InFlight
<1>2. CASE u = t
  <2>1. op \in {"save", "submit"} /\ d = c
    BY <1>1, <1>2 DEF Saves
  <2> QED
    BY <1>1, <1>2, <2>1 DEF Sent, Stores
<1>3. CASE u # t
  <2>1. task'[u] = task[u] /\ Saves(u)
    BY <1>1, <1>3 DEF Saves
  <2>2. u \in InFlight(d) \ overtaken /\ editor[d] # Closed
    BY <1>1, <2>1 DEF InFlight
  <2>3. Stores(u, editor[d])
    BY <2>1, <2>2 DEF OwnForms
  <2> QED
    BY <1>1, <2>1, <2>3 DEF Stores
<1> QED
  BY <1>2, <1>3

LEMMA FormsOpenClose ==
    ASSUME ConsoleInv, OwnForms, NEW c \in Consoles,
           NEW r \in Sources \cup Opportunities \cup {NewSource},
           OpenEditor(c, r) \/ CloseEditor(c)
    PROVE  OwnForms'
<1>1. task' = task /\ \A d \in Consoles \ {c} : editor'[d] = editor[d]
  BY DEF OpenEditor, CloseEditor, ConsoleInv, TypeOK
<1> SUFFICES ASSUME NEW d \in Consoles, editor'[d] # Closed,
                    NEW u \in Tasks, task[u].pc # "idle", task[u].console = d,
                    u \notin overtaken', Saves(u)
             PROVE  Stores(u, editor[d])'
  BY <1>1 DEF OwnForms, InFlight, Saves
<1>2. d # c
  <2>1. CASE OpenEditor(c, r)
    BY <2>1 DEF OpenEditor, InFlight
  <2>2. CASE CloseEditor(c)
    BY <2>2 DEF CloseEditor, ConsoleInv, TypeOK
  <2> QED
    BY <2>1, <2>2
<1>3. u \notin overtaken /\ editor'[d] = editor[d]
  BY <1>1, <1>2 DEF OpenEditor, CloseEditor, InFlight
<1>4. Stores(u, editor[d])
  BY <1>3 DEF OwnForms, InFlight
<1> QED
  BY <1>1, <1>3, <1>4 DEF Stores

(* A handler that ends no longer saves.                                     *)
LEMMA FormsTask ==
    ASSUME ConsoleInv, OwnForms, NEW t \in Tasks, Proceed(t) \/ Fails(t)
    PROVE  OwnForms'
<1>1. CASE Load(t) \/ Commit(t) \/ Answer(t) \/ RequestValidation(t) \/ Reload(t)
  BY <1>1, FieldStep, FormsGoOn DEF FormAs, Saves, viewVars
<1>2. ASSUME NEW kind \in Kinds, ServeList(t, kind) PROVE OwnForms'
  BY <1>2, FormsGoOn DEF ServeList, FormAs, Saves, viewVars
<1>3. ASSUME task' = [task EXCEPT ![t] = Idle], CloseAfterSave(t) PROVE OwnForms'
  <2>1. task'[t].pc = "idle" /\ \A u \in Tasks \ {t} : task'[u] = task[u]
    BY <1>3, TaskStep, IdleType
  <2>2. \A u \in Tasks : FormAs(u)
    BY <1>3, <2>1 DEF FormAs, Saves, CloseAfterSave
  <2>3. \A c \in Consoles : editor'[c] # Closed => editor'[c] = editor[c]
    BY <1>3 DEF CloseAfterSave, ConsoleInv, TypeOK
  <2> QED
    BY <2>2, <2>3, FormsGoOn
<1>4. ASSUME NEW x, x.op = "none", task' = [task EXCEPT ![t] = x], editor' = editor,
             overtaken' = overtaken \/ overtaken' = overtaken \ {t}
      PROVE  OwnForms'
  <2>1. ~ Saves(t)' /\ \A u \in Tasks \ {t} : task'[u] = task[u]
    BY <1>4, TaskStep DEF Saves
  <2>2. \A u \in Tasks : FormAs(u)
    BY <1>4, <2>1 DEF FormAs, Saves
  <2> QED
    BY <1>4, <2>2, FormsGoOn
<1>5. CASE Receive(t)
  BY <1>3, <1>5 DEF Receive
<1>6. ASSUME NEW kind \in Kinds, ReceiveList(t, kind) PROVE OwnForms'
  <2>1. CASE Outstanding(t) # {kind}
    BY <1>6, <2>1, FormsGoOn DEF ReceiveList, FormAs, Saves
  <2>2. CASE Outstanding(t) = {kind} /\ task[t].pc = "late"
    BY <1>4, <1>6, <2>2 DEF ReceiveList, Idle
  <2>3. CASE Outstanding(t) = {kind} /\ task[t].pc # "late"
    BY <1>3, <1>6, <2>3 DEF ReceiveList
  <2> QED
    BY <2>1, <2>2, <2>3
<1>7. CASE Fails(t)
  <2>1. task[t].pc # "idle"
    BY <1>7, KindsServed DEF Fails, RequestFails, ListFails, Outstanding, Kinds
  <2>2. PICK due : task' = [task EXCEPT ![t] = Over(t, due)]
    BY <1>7 DEF Fails, RequestFails, ListFails, GiveUp
  <2>3. Over(t, due).op = "none"
    BY <2>1, OverAsks
  <2>4. editor' = editor /\ (overtaken' = overtaken \/ overtaken' = overtaken \ {t})
    BY <1>7 DEF Fails, RequestFails, ListFails, GiveUp, viewVars
  <2> QED
    BY <1>4, <2>2, <2>3, <2>4
<1> QED
  BY <1>1, <1>2, <1>5, <1>6, <1>7 DEF Proceed, Kinds

LEMMA FormsNext == ConsoleInv /\ OwnForms /\ [Next]_vars => OwnForms'
<1> SUFFICES ASSUME ConsoleInv, OwnForms, [Next]_vars PROVE OwnForms'
  OBVIOUS
<1>1. CASE UNCHANGED <<viewVars, task>>
  BY <1>1, FormsGoOn DEF FormAs, Saves, viewVars
<1>2. ASSUME NEW c \in Consoles, \E t \in Tasks : task[t] = Idle, Click(c, FreeTask)
      PROVE  OwnForms'
  BY <1>2, FreeTaskIsIdle, ClickSends, FormsStart
<1>3. ASSUME NEW c \in Consoles,
             \/ \E r \in Sources \cup Opportunities \cup {NewSource} : OpenEditor(c, r)
             \/ CloseEditor(c)
      PROVE  OwnForms'
  BY <1>3, FormsOpenClose
<1>4. ASSUME NEW t \in Tasks, Proceed(t) \/ Fails(t) PROVE OwnForms'
  BY <1>4, FormsTask
<1> QED
  BY <1>1, <1>2, <1>3, <1>4 DEF Next, vars, RunValidation

LEMMA FormsInvariant == Spec => []OwnForms
<1>1. Init => OwnForms
  BY IdleType DEF Init, OwnForms
<1> QED
  BY <1>1, ConsoleInvariant, FormsNext, PTL DEF Spec

(* An answer closes a form only when what the form had sent is stored, or   *)
(* the form was opened while the closing handler was under way:             *)
(* saveOpportunity and saveSource close what is open after their requests   *)
(* were answered, never in their catch.                                     *)
THEOREM FormsCloseWhenStored == Spec => FormClosesOnlyWhenStored
<1>1. ASSUME ConsoleInv, OwnForms, [Next]_vars PROVE ClosedFormWasStored
  <2>1. CASE editor' = editor \/ task' = task
    BY <2>1 DEF ClosedFormWasStored
  <2>2. ASSUME NEW t \in Tasks, CloseAfterSave(t), task' = [task EXCEPT ![t] = Idle],
               task[t].pc \in {"answered", "reloading"}
        PROVE  ClosedFormWasStored
    <3> SUFFICES ASSUME NEW c \in Consoles, editor[c] # Closed, editor'[c] = Closed
                 PROVE  \E u \in InFlight(c) : /\ task'[u] # task[u]
                                               /\ Saves(u)
                                               /\ task[u].pc \in {"answered", "reloading"}
                                               /\ (Stores(u, editor[c]) \/ u \in overtaken)
      BY DEF ClosedFormWasStored
    <3>1. Saves(t) /\ task[t].console = c
      BY <1>1, <2>2 DEF CloseAfterSave, ConsoleInv, TypeOK
    <3>2. t \in InFlight(c) /\ task'[t] # task[t]
      BY <1>1, <2>2, <3>1, IdleType, TaskStep DEF InFlight
    <3>3. Stores(t, editor[c]) \/ t \in overtaken
      BY <1>1, <3>1, <3>2 DEF OwnForms
    <3> QED
      BY <2>2, <3>1, <3>2, <3>3
  <2>3. ASSUME NEW c \in Consoles, Click(c, FreeTask), \E t \in Tasks : task[t] = Idle
        PROVE  editor' = editor
    BY <2>3, FreeTaskIsIdle, ClickShows
  <2>4. ASSUME NEW t \in Tasks, Proceed(t) PROVE ClosedFormWasStored
    <3>1. CASE Receive(t)
      BY <2>2, <3>1 DEF Receive, Server
    <3>2. ASSUME NEW kind \in Kinds, ReceiveList(t, kind) PROVE ClosedFormWasStored
      <4>1. task[t].pc \in {"reloading", "late"}
        BY <1>1, <3>2, KindsServed DEF ReceiveList
      <4>2. \/ editor' = editor
            \/ /\ task[t].pc = "reloading" /\ CloseAfterSave(t)
               /\ task' = [task EXCEPT ![t] = Idle]
        BY <3>2, <4>1 DEF ReceiveList
      <4> QED
        BY <2>1, <2>2, <4>2
    <3>3. CASE ~ Receive(t) /\ ~ \E kind \in Kinds : ReceiveList(t, kind)
      <4>1. editor' = editor
        BY <2>4, <3>3 DEF Proceed, Kinds, Load, Commit, Answer, RequestValidation, Reload,
                          ServeList, viewVars
      <4> QED
        BY <2>1, <4>1
    <3> QED
      BY <3>1, <3>2, <3>3
  <2>5. ASSUME NEW t \in Tasks, Fails(t) PROVE editor' = editor
    BY <2>5 DEF Fails, RequestFails, ListFails, GiveUp, viewVars
  <2> QED
    BY <1>1, <2>1, <2>3, <2>4, <2>5 DEF Next, vars, viewVars, OpenEditor, CloseEditor, RunValidation
<1>2. ConsoleInv /\ OwnForms /\ [Next]_vars => [ClosedFormWasStored]_vars
  BY <1>1
<1> QED
  BY <1>2, ConsoleInvariant, FormsInvariant, PTL DEF Spec, FormClosesOnlyWhenStored

-----------------------------------------------------------------------------
(* A form open for an opportunity keeps the list it was opened from: no     *)
(* answer takes a shown opportunity away.                                   *)
LEMMA ShownStays ==
    ASSUME ConsoleInv, [Next]_vars, NEW c \in Consoles, NEW r \in Opportunities,
           shown[c][r] # Absent
    PROVE  shown'[c][r] # Absent
<1>1. ASSUME NEW t \in Tasks, Receive(t) PROVE shown'[c][r] # Absent
  <2>1. CASE task[t].op = "enqueue"
    BY <1>1, <2>1 DEF Receive
  <2>2. CASE task[t].op # "enqueue"
    <3>1. task[t].pc = "answered" /\ task[t].op # "submit"
      BY <1>1 DEF Receive, Server, Reloads
    <3>2. task[t].answer # Absent
      BY <3>1 DEF ConsoleInv, Requests
    <3>3. PICK d \in Consoles, e \in Records : d = task[t].console /\ e = task[t].rec
      BY <3>1, RequestRecords
    <3>4. shown' = [shown EXCEPT ![d][e] = IF @ = Absent THEN Absent ELSE task[t].answer]
      BY <1>1, <2>2, <3>3 DEF Receive, ReplaceRow
    <3> QED
      BY <3>2, <3>4, RecordKinds DEF ConsoleInv, TypeOK
  <2> QED
    BY <2>1, <2>2
<1>2. ASSUME NEW t \in Tasks, NEW kind \in Kinds, ReceiveList(t, kind)
      PROVE  shown'[c][r] # Absent
  <2>1. r \in Records /\ r \notin RecordsOf(kind)
    BY RecordKinds DEF RecordsOf
  <2> QED
    BY <1>2, <2>1 DEF ReceiveList, ConsoleInv, TypeOK
<1>3. CASE shown' = shown
  BY <1>3
<1>4. ASSUME NEW d \in Consoles, Click(d, FreeTask), \E t \in Tasks : task[t] = Idle
      PROVE  shown' = shown
  BY <1>4, FreeTaskIsIdle, ClickShows
<1>5. ASSUME NEW t \in Tasks, Proceed(t), ~ Receive(t), ~ \E kind \in Kinds : ReceiveList(t, kind)
      PROVE  shown' = shown
  BY <1>5 DEF Proceed, Kinds, Load, Commit, Answer, RequestValidation, Reload, ServeList, viewVars
<1>6. ASSUME NEW t \in Tasks, Fails(t) PROVE shown' = shown
  BY <1>6 DEF Fails, RequestFails, ListFails, GiveUp, viewVars
<1> QED
  BY <1>1, <1>2, <1>3, <1>4, <1>5, <1>6 DEF Next, vars, viewVars, OpenEditor, CloseEditor,
                                            RunValidation

LEMMA FormRowsNext == ConsoleInv /\ FormRows /\ [Next]_vars => FormRows'
<1> SUFFICES ASSUME ConsoleInv, FormRows, [Next]_vars, NEW c \in Consoles,
                    editor'[c] \in Opportunities
             PROVE  shown'[c][editor'[c]] # Absent
  BY DEF FormRows
<1>1. CASE editor'[c] = editor[c]
  BY <1>1, ShownStays DEF FormRows
<1>2. ASSUME NEW d \in Consoles, NEW r \in Sources \cup Opportunities \cup {NewSource},
             OpenEditor(d, r), editor'[c] # editor[c]
      PROVE  shown'[c][editor'[c]] # Absent
  <2>1. d = c /\ editor'[c] = r /\ shown' = shown
    BY <1>2 DEF OpenEditor, ConsoleInv, TypeOK
  <2>2. r # NewSource
    BY <2>1, RecordKinds, CmsConsoleAssumption
  <2> QED
    BY <1>2, <2>1, <2>2 DEF OpenEditor
<1>3. ASSUME NEW d \in Consoles, CloseEditor(d) PROVE editor'[c] = editor[c] \/ editor'[c] = Closed
  BY <1>3 DEF CloseEditor, ConsoleInv, TypeOK
<1>4. ASSUME NEW t \in Tasks, CloseAfterSave(t)
      PROVE  editor'[c] = editor[c] \/ editor'[c] = Closed
  BY <1>4 DEF CloseAfterSave, ConsoleInv, TypeOK
<1>5. ASSUME NEW d \in Consoles, Click(d, FreeTask), \E t \in Tasks : task[t] = Idle
      PROVE  editor' = editor
  BY <1>5, FreeTaskIsIdle, ClickShows
<1>6. ASSUME NEW t \in Tasks, Proceed(t) PROVE editor' = editor \/ CloseAfterSave(t)
  BY <1>6 DEF Proceed, Load, Commit, Answer, Receive, RequestValidation, Reload, ServeList,
              ReceiveList, viewVars
<1>7. ASSUME NEW t \in Tasks, Fails(t) PROVE editor' = editor
  BY <1>7 DEF Fails, RequestFails, ListFails, GiveUp, viewVars
<1>8. editor'[c] # Closed
  BY RecordKinds, CmsConsoleAssumption
<1> QED
  BY <1>1, <1>2, <1>3, <1>4, <1>5, <1>6, <1>7, <1>8 DEF Next, vars, viewVars, RunValidation

LEMMA FormRowsInvariant == Spec => []FormRows
<1>1. Init => FormRows
  BY RecordKinds, CmsConsoleAssumption DEF Init, FormRows
<1> QED
  BY <1>1, ConsoleInvariant, FormRowsNext, PTL DEF Spec

-----------------------------------------------------------------------------
(* Full lists.  Whether a list is full depends on which of its rows it has. *)
LEMMA FullDepends ==
    ASSUME NEW f, NEW g, NEW r, Full(f, r),
           \A table \in {Opportunities, Candidates} : r \in table =>
               \A q \in table : f[q] = Absent <=> g[q] = Absent
    PROVE  Full(g, r)
<1>1. PICK table \in {Opportunities, Candidates} :
          r \in table /\ Cardinality({q \in table : f[q] # Absent}) = ListLimit
  BY DEF Full
<1>2. {q \in table : f[q] # Absent} = {q \in table : g[q] # Absent}
  BY <1>1
<1> QED
  BY <1>1, <1>2 DEF Full

(* A page shows its rows as they are, and all there are unless it is full.  *)
LEMMA PageIsCurrent ==
    ASSUME NEW table \in {Sources, Opportunities, Candidates}, NEW page \in Pages(table),
           NEW f, \A q \in table : f[q] = IF q \in page THEN rows[q] ELSE Absent,
           NEW r \in table
    PROVE  Current(f, r)
<1>1. CASE page = There(table)
  BY <1>1 DEF There, Current
<1>2. CASE page # There(table)
  <2>1. /\ table # Sources /\ page \subseteq There(table)
        /\ Cardinality(page) = ListLimit
    BY <1>2 DEF Pages
  <2>2. {q \in table : f[q] # Absent} = page
    BY <2>1 DEF There
  <2>3. Full(f, r)
    BY <2>1, <2>2 DEF Full
  <2> QED
    BY <2>3 DEF Current
<1> QED
  BY <1>1, <1>2

LEMMA TablesApart ==
    ASSUME NEW kind \in Kinds, NEW table \in {Opportunities, Candidates}
    PROVE  \/ table = RecordsOf(kind) /\ kind = "candidates"
           \/ \A q \in table : q \notin RecordsOf(kind)
  BY RecordKinds DEF RecordsOf, Kinds

(* A step of one task t of console c: the other consoles are as they were,  *)
(* or disturbed.                                                            *)
StepOf(t, c) ==
    /\ \A u \in Tasks \ {t} :
          task'[u] = task[u] /\ sent'[u] = sent[u] /\ served'[u] = served[u]
    /\ \A d \in Consoles \ {c} : shown'[d] = shown[d]
    /\ task[t].pc # "idle" => task[t].console = c
    /\ task'[t].pc # "idle" => task'[t].console = c
    /\ disturbed \subseteq disturbed'
    /\ rows' = rows \/ Consoles \ {c} \subseteq disturbed'

LEMMA OthersStale ==
    ASSUME NEW t \in Tasks, NEW c, StepOf(t, c)
    PROVE  \A u \in Tasks \ {t} : Stale(u)' = Stale(u)
  BY DEF StepOf, Stale, Touches, Outstanding

LEMMA FreshElsewhere ==
    ASSUME FreshInv, NEW t \in Tasks, NEW c \in Consoles, StepOf(t, c),
           c \in disturbed' \/ FreshFor(c)'
    PROVE  FreshInv'
<1> SUFFICES ASSUME NEW d \in Consoles \ disturbed', d # c
             PROVE  FreshFor(d)'
  BY DEF FreshInv
<1>1. FreshFor(d) /\ rows' = rows /\ shown'[d] = shown[d]
  BY DEF StepOf, FreshInv
<1>2. t \notin InFlight(d) /\ t \notin InFlight(d)'
  BY DEF StepOf, InFlight
<1>3. InFlight(d)' = InFlight(d)
  BY <1>2 DEF StepOf, InFlight
<1>4. \A u \in InFlight(d) : task'[u] = task[u] /\ served'[u] = served[u] /\ Stale(u)' = Stale(u)
  BY <1>2, OthersStale DEF StepOf, InFlight
<1> QED
  BY <1>1, <1>3, <1>4 DEF FreshFor, Current, Replaces, Reloads

(* The one handler of an undisturbed console.                               *)
LEMMA OnlyHandler ==
    ASSUME FreshInv, NEW t \in Tasks, NEW c \in Consoles, c \notin disturbed',
           StepOf(t, c), task[t].pc # "idle"
    PROVE  /\ InFlight(c) = {t}
           /\ task'[t].pc # "idle" => InFlight(c)' = {t}
           /\ task'[t].pc = "idle" => InFlight(c)' = {}
           /\ task[t].pc # "late"
           /\ \A r \in Records \ Stale(t) : Current(shown[c], r)
           /\ task[t].pc = "answered" => task[t].answer = rows[task[t].rec]
           /\ task[t].pc # "reloading" /\ Replaces(t) => shown[c][task[t].rec] # Absent
           /\ \A kind \in DOMAIN served[t] : \A r \in RecordsOf(kind) :
                 Current(served[t][kind], r)
<1>1. FreshFor(c)
  BY DEF FreshInv, StepOf
<1>2. t \in InFlight(c)
  BY DEF StepOf, InFlight
<1>3. InFlight(c) = {t}
  BY <1>1, <1>2 DEF FreshFor
<1>4. \A u \in Tasks \ {t} : u \notin InFlight(c)'
  BY <1>3 DEF StepOf, InFlight
<1>5. task'[t].pc # "idle" => InFlight(c)' = {t}
  BY <1>4 DEF StepOf, InFlight
<1>6. task'[t].pc = "idle" => InFlight(c)' = {}
  BY <1>4 DEF InFlight
<1> QED
  BY <1>1, <1>2, <1>3, <1>5, <1>6 DEF FreshFor

(* A handler that goes on, and what it must then make sure of.              *)
LEMMA FreshGoesOn ==
    ASSUME NEW t \in Tasks, NEW c \in Consoles, InFlight(c)' = {t},
           task'[t].pc # "late",
           \A r \in Records \ Stale(t)' : Current(shown[c], r)',
           task'[t].pc = "answered" => task'[t].answer = rows'[task'[t].rec],
           task'[t].pc # "reloading" /\ Replaces(t)' => shown'[c][task'[t].rec] # Absent,
           \A kind \in DOMAIN served'[t] : \A r \in RecordsOf(kind) :
               Current(served[t][kind], r)'
    PROVE  FreshFor(c)'
  BY DEF FreshFor

LEMMA FreshEnds ==
    ASSUME NEW c \in Consoles, InFlight(c)' = {}, \A r \in Records : Current(shown[c], r)'
    PROVE  FreshFor(c)'
  BY DEF FreshFor

LEMMA FreshStart ==
    ASSUME ConsoleInv, FormRows, FreshInv, NEW c \in Consoles, NEW t \in Tasks, task[t] = Idle,
           NEW op, NEW r, NEW label, NEW patch,
           Sent(c, op, r, label, patch), Start(c, t, op, r, label, patch)
    PROVE  FreshInv'
<1>1. /\ task'[t].pc = "request" /\ task'[t].console = c
      /\ task'[t].op = op /\ task'[t].rec = r
  BY DEF Start, Idle, ConsoleInv, TypeOK
<1>2. \A u \in Tasks \ {t} : task'[u] = task[u]
  BY DEF Start, ConsoleInv, TypeOK
<1>3. UNCHANGED <<rows, shown, sent, served>> /\ disturbed \subseteq disturbed'
  BY DEF Start, fetchVars
<1>4. StepOf(t, c)
  BY <1>1, <1>2, <1>3, IdleType DEF StepOf
<1>5. ASSUME c \notin disturbed' PROVE FreshFor(c)'
  <2>1. InFlight(c) = {} /\ c \notin disturbed
    BY <1>5 DEF Start
  <2>2. \A q \in Records : Current(shown[c], q)
    BY <2>1 DEF FreshInv, FreshFor
  <2>3. InFlight(c)' = {t}
    BY <1>1, <1>2, <2>1 DEF InFlight
  <2>4. DOMAIN served[t] = {}
    BY KindsServed, IdleType
  <2>5. Replaces(t)' => shown'[c][r] # Absent
    <3>1. Replaces(t)' => op = "quick" \/ (op = "save" /\ r \in Opportunities)
      BY <1>1 DEF Replaces, Reloads, Sent
    <3> QED
      BY <1>3, <3>1 DEF Sent, FormRows
  <2>6. \A q \in Records : Current(shown[c], q)'
    BY <1>3, <2>2 DEF Current
  <2> QED
    BY <1>1, <1>3, <2>3, <2>4, <2>5, <2>6, FreshGoesOn
<1> QED
  BY <1>4, <1>5, FreshElsewhere

LEMMA FreshServer ==
    ASSUME ConsoleInv, FreshInv, NEW t \in Tasks,
           Load(t) \/ Commit(t) \/ Answer(t) \/ RequestValidation(t) \/ Reload(t)
    PROVE  FreshInv'
<1>1. PICK c \in Consoles : c = task[t].console
  BY FieldStep, RequestRecords
<1>2. /\ \A u \in Tasks \ {t} : sent'[u] = sent[u] /\ served'[u] = served[u]
      /\ served' = served /\ shown' = shown
  <2>1. served' = served /\ shown' = shown
    BY FieldStep DEF viewVars
  <2>2. \A u \in Tasks \ {t} : sent'[u] = sent[u]
    BY DEF Load, Commit, Answer, RequestValidation, Reload, fetchVars, ConsoleInv
  <2> QED
    BY <2>1, <2>2
<1>3. disturbed \subseteq disturbed' /\ (rows' = rows \/ Consoles \ {c} \subseteq disturbed')
  BY <1>1 DEF Load, Commit, Answer, RequestValidation, Reload
<1>4. StepOf(t, c)
  BY <1>1, <1>2, <1>3, FieldStep DEF StepOf
<1>5. ASSUME c \notin disturbed' PROVE FreshFor(c)'
  <2>1. /\ InFlight(c)' = {t} /\ task[t].pc # "late" /\ task[t].pc # "idle"
        /\ \A r \in Records \ Stale(t) : Current(shown[c], r)
        /\ task[t].pc # "reloading" /\ Replaces(t) => shown[c][task[t].rec] # Absent
    BY <1>4, <1>5, FieldStep, OnlyHandler
  <2>2. DOMAIN served[t] = {} /\ DOMAIN served'[t] = {}
    <3>1. task[t].pc \notin {"reloading", "late"}
      BY FieldStep
    <3> QED
      BY <1>2, <3>1, KindsServed
  <2>3. Touches(t)' = Touches(t)
    BY FieldStep DEF Touches
  <2>4. task'[t].pc = "answered" => task'[t].answer = rows'[task'[t].rec]
    <3>1. CASE Answer(t)
      BY <3>1, TaskFields DEF Answer, ConsoleInv, TypeOK
    <3>2. CASE ~ Answer(t)
      BY <3>2, TaskFields DEF Load, Commit, RequestValidation, Reload, ConsoleInv, TypeOK
    <3> QED
      BY <3>1, <3>2
  <2>5. \A r \in Records \ Stale(t)' : Current(shown[c], r)'
    <3>1. CASE Load(t)
      <4>1. task[t].pc = "request" /\ task'[t].pc = "loaded" /\ rows' = rows
        BY <3>1, TaskFields DEF Load, Server, ConsoleInv, TypeOK
      <4>2. Stale(t) = {}
        BY <4>1 DEF Stale
      <4> QED
        BY <1>2, <2>1, <4>1, <4>2 DEF Current
    <3>2. CASE Commit(t)
      <4>1. task[t].pc = "loaded" /\ task'[t].pc = "committed"
        BY <3>2, TaskFields DEF Commit, Server, ConsoleInv, TypeOK
      <4>2. Stale(t) = {} /\ Stale(t)' = Touches(t)
        BY <2>3, <4>1 DEF Stale
      <4> QED
        BY <1>2, <2>1, <3>2, <4>2, CommitRows DEF Current
    <3>3. CASE Answer(t) \/ RequestValidation(t)
      <4>1. /\ task[t].pc \in {"committed", "answered"} /\ rows' = rows
            /\ task'[t].pc \in {"answered", "validating"}
        BY <3>3, TaskFields DEF Answer, RequestValidation, Server, ConsoleInv, TypeOK
      <4>2. Stale(t) = Touches(t) /\ Stale(t)' = Touches(t)
        BY <2>3, <4>1 DEF Stale
      <4> QED
        BY <1>2, <2>1, <4>1, <4>2 DEF Current
    <3>4. CASE Reload(t)
      <4>1. /\ task[t].pc \in {"answered", "validating"} /\ rows' = rows
            /\ task'[t].pc = "reloading" /\ sent'[t] = Lists(t)
        BY <3>4, TaskFields DEF Reload, Server, ConsoleInv, TypeOK
      <4>2. Stale(t) = Touches(t)
        BY <4>1 DEF Stale
      <4>3. Outstanding(t)' = Lists(t)
        BY <2>2, <4>1 DEF Outstanding
      <4>4. Stale(t)' = UNION {RecordsOf(kind) : kind \in Lists(t)}
        BY <4>1, <4>3 DEF Stale
      <4>5. Touches(t) \subseteq UNION {RecordsOf(kind) : kind \in Lists(t)}
        <5>1. \/ /\ task[t].op = "save" /\ task[t].rec \in Sources
              \/ /\ task[t].op \in {"submit", "approve", "reject", "rescan"}
                 /\ task[t].rec \in Candidates
          BY <3>4, <4>1 DEF Reload, Reloads, ConsoleInv, Requests
        <5>2. CASE task[t].op = "save"
          BY <5>1, <5>2 DEF Touches, Lists, RecordsOf
        <5>3. CASE task[t].op = "submit"
          BY <5>1, <5>3 DEF Touches, Lists, RecordsOf
        <5>4. CASE task[t].op \in {"approve", "reject", "rescan"}
          <6>1. task[t].rec \in Candidates /\ SourceOf[task[t].rec] \in Sources
            BY <5>1, <5>4, CmsConsoleAssumption
          <6>2. Lists(t) = {"sources", "candidates"}
            BY <5>4 DEF Lists
          <6>3. Candidates \cup Sources \subseteq UNION {RecordsOf(kind) : kind \in Lists(t)}
            BY <6>2 DEF RecordsOf
          <6> QED
            BY <5>4, <6>1, <6>3 DEF Touches
        <5> QED
          BY <5>1, <5>2, <5>3, <5>4
      <4> QED
        BY <1>2, <2>1, <4>1, <4>2, <4>4, <4>5 DEF Current
    <3> QED
      BY <3>1, <3>2, <3>3, <3>4
  <2>6. Replaces(t)' => shown'[c][task'[t].rec] # Absent
    <3>1. task[t].pc # "reloading"
      BY FieldStep
    <3>2. Replaces(t)' = Replaces(t)
      BY FieldStep DEF Replaces, Reloads
    <3> QED
      BY <1>2, <2>1, <3>1, <3>2, FieldStep
  <2> QED
    BY <2>1, <2>2, <2>4, <2>5, <2>6, FieldStep, FreshGoesOn
<1> QED
  BY <1>4, <1>5, FreshElsewhere

LEMMA FreshReceive ==
    ASSUME ConsoleInv, FreshInv, NEW t \in Tasks, Receive(t)
    PROVE  FreshInv'
<1>1. task[t].pc = "answered" /\ task' = [task EXCEPT ![t] = Idle]
      /\ UNCHANGED <<rows, fetchVars, clicks, disturbed>>
  BY DEF Receive, Server
<1>2. PICK c \in Consoles : c = task[t].console
  BY <1>1, RequestRecords
<1>3. \/ shown' = shown /\ task[t].op = "enqueue"
      \/ /\ shown' = [shown EXCEPT ![c][task[t].rec] =
                         IF @ = Absent THEN Absent ELSE task[t].answer]
         /\ task[t].op # "enqueue"
  BY <1>2 DEF Receive, ReplaceRow
<1>4. task'[t].pc = "idle" /\ \A u \in Tasks \ {t} : task'[u] = task[u]
  BY <1>1, IdleType, TaskStep
<1>5. \A d \in Consoles \ {c} : shown'[d] = shown[d]
  BY <1>3 DEF ConsoleInv, TypeOK
<1>6. StepOf(t, c)
  BY <1>1, <1>2, <1>4, <1>5 DEF StepOf, fetchVars
<1>7. ASSUME c \notin disturbed' PROVE FreshFor(c)'
  <2>1. /\ InFlight(c)' = {}
        /\ \A r \in Records \ Stale(t) : Current(shown[c], r)
        /\ task[t].answer = rows[task[t].rec]
        /\ Replaces(t) => shown[c][task[t].rec] # Absent
    BY <1>1, <1>4, <1>6, <1>7, OnlyHandler
  <2>2. Stale(t) = IF task[t].op = "enqueue" THEN {} ELSE {task[t].rec}
    BY <1>1 DEF Stale, Touches, Receive, Reloads
  <2>3. task[t].rec \in Records
    BY <1>1, RequestRecords
  <2>4. \A r \in Records : Current(shown[c], r)'
    <3>1. CASE task[t].op = "enqueue"
      BY <1>1, <1>3, <2>1, <2>2, <3>1 DEF Current
    <3>2. CASE task[t].op # "enqueue"
      <4>1. shown[c][task[t].rec] # Absent /\ task[t].answer # Absent
        BY <1>1, <2>1, <3>2 DEF Receive, Replaces, Reloads, ConsoleInv, Requests
      <4>2. /\ shown'[c][task[t].rec] = task[t].answer
            /\ \A r \in Records \ {task[t].rec} : shown'[c][r] = shown[c][r]
        BY <1>3, <2>3, <3>2, <4>1 DEF ConsoleInv, TypeOK
      <4>3. \A q \in Records : shown[c][q] = Absent <=> shown'[c][q] = Absent
        BY <4>1, <4>2
      <4> SUFFICES ASSUME NEW r \in Records PROVE Current(shown[c], r)'
        OBVIOUS
      <4>4. CASE r = task[t].rec
        BY <1>1, <2>1, <4>2, <4>4 DEF Current
      <4>5. CASE r # task[t].rec
        <5>1. Current(shown[c], r) /\ shown'[c][r] = shown[c][r]
          BY <2>1, <2>2, <3>2, <4>2, <4>5
        <5>2. Full(shown[c], r) => Full(shown'[c], r)
          BY <4>3, FullDepends, RecordKinds
        <5> QED
          BY <1>1, <5>1, <5>2 DEF Current
      <4> QED
        BY <4>4, <4>5
    <3> QED
      BY <3>1, <3>2
  <2> QED
    BY <2>1, <2>4, FreshEnds
<1> QED
  BY <1>6, <1>7, FreshElsewhere

LEMMA FreshServeList ==
    ASSUME ConsoleInv, FreshInv, NEW t \in Tasks, NEW kind \in Kinds, ServeList(t, kind)
    PROVE  FreshInv'
<1>1. UNCHANGED <<rows, viewVars, task, clicks, disturbed>>
  BY DEF ServeList
<1>2. kind \in sent[t] /\ task[t].pc \in {"reloading", "late"}
  BY KindsServed DEF ServeList
<1>3. PICK c \in Consoles : c = task[t].console
  BY <1>2 DEF ConsoleInv, Requests
<1>4. /\ sent'[t] = sent[t] \ {kind} /\ DOMAIN served'[t] = DOMAIN served[t] \cup {kind}
      /\ \A k \in DOMAIN served[t] \ {kind} : served'[t][k] = served[t][k]
      /\ \A r \in RecordsOf(kind) : Current(served'[t][kind], r)
  <2>1. PICK copy :
            /\ \E page \in Pages(RecordsOf(kind)) : copy = Listed(page, RecordsOf(kind))
            /\ served' = [served EXCEPT ![t] =
                             [k \in DOMAIN @ \cup {kind} |-> IF k = kind THEN copy ELSE @[k]]]
    BY DEF ServeList
  <2>2. /\ sent'[t] = sent[t] \ {kind} /\ DOMAIN served'[t] = DOMAIN served[t] \cup {kind}
        /\ \A k \in DOMAIN served[t] \ {kind} : served'[t][k] = served[t][k]
        /\ served'[t][kind] = copy
    BY <2>1 DEF ServeList, ConsoleInv
  <2>3. PICK page \in Pages(RecordsOf(kind)) :
            \A q \in RecordsOf(kind) : copy[q] = IF q \in page THEN rows[q] ELSE Absent
    BY <2>1 DEF Listed
  <2>4. RecordsOf(kind) \in {Sources, Opportunities, Candidates}
    BY DEF RecordsOf
  <2> QED
    BY <2>2, <2>3, <2>4, PageIsCurrent
<1>5. \A u \in Tasks \ {t} : sent'[u] = sent[u] /\ served'[u] = served[u]
  BY DEF ServeList, ConsoleInv
<1>6. StepOf(t, c)
  BY <1>1, <1>3, <1>5 DEF StepOf, viewVars
<1>7. ASSUME c \notin disturbed' PROVE FreshFor(c)'
  <2>1. /\ InFlight(c)' = {t} /\ task'[t].pc = "reloading"
        /\ \A r \in Records \ Stale(t) : Current(shown[c], r)
        /\ \A k \in DOMAIN served[t] : \A r \in RecordsOf(k) : Current(served[t][k], r)
    BY <1>1, <1>2, <1>6, <1>7, OnlyHandler
  <2>2. Outstanding(t)' = Outstanding(t)
    BY <1>2, <1>4 DEF Outstanding
  <2>3. Stale(t)' = Stale(t)
    BY <1>1, <2>2 DEF Stale, Touches
  <2>4. \A k \in DOMAIN served'[t] : \A r \in RecordsOf(k) : Current(served[t][k], r)'
    BY <1>1, <1>4, <2>1 DEF Current
  <2>5. \A r \in Records \ Stale(t)' : Current(shown[c], r)'
    BY <1>1, <2>1, <2>3 DEF Current, viewVars
  <2> QED
    BY <2>1, <2>4, <2>5, FreshGoesOn
<1> QED
  BY <1>6, <1>7, FreshElsewhere

LEMMA FreshReceiveList ==
    ASSUME ConsoleInv, FreshInv, NEW t \in Tasks, NEW kind \in Kinds, ReceiveList(t, kind)
    PROVE  FreshInv'
<1>1. /\ kind \in DOMAIN served[t] /\ kind \in Outstanding(t) /\ kind \notin sent[t]
      /\ task[t].pc \in {"reloading", "late"} /\ UNCHANGED <<rows, sent, clicks, disturbed>>
  BY KindsServed DEF ReceiveList, Outstanding
<1>2. PICK c \in Consoles : c = task[t].console
  BY <1>1 DEF ConsoleInv, Requests
<1>3. /\ \A d \in Consoles \ {c} : shown'[d] = shown[d]
      /\ \A r \in RecordsOf(kind) : shown'[c][r] = served[t][kind][r]
      /\ \A r \in Records \ RecordsOf(kind) : shown'[c][r] = shown[c][r]
  BY <1>2, RecordKinds DEF ReceiveList, ConsoleInv, TypeOK
<1>4. /\ DOMAIN served'[t] = DOMAIN served[t] \ {kind}
      /\ \A k \in DOMAIN served'[t] : served'[t][k] = served[t][k]
      /\ \A u \in Tasks \ {t} : served'[u] = served[u]
  BY DEF ReceiveList, ConsoleInv, Restrict
<1>5. \/ Outstanding(t) # {kind} /\ task' = task
      \/ Outstanding(t) = {kind} /\ task' = [task EXCEPT ![t] = Idle]
  BY DEF ReceiveList
<1>6. (\A u \in Tasks \ {t} : task'[u] = task[u]) /\ (task'[t] = task[t] \/ task'[t] = Idle)
  BY <1>5, TaskStep
<1>7. StepOf(t, c)
  BY <1>1, <1>2, <1>3, <1>4, <1>6, IdleType DEF StepOf
<1>8. ASSUME c \notin disturbed' PROVE FreshFor(c)'
  <2>1. /\ task[t].pc = "reloading"
        /\ task'[t].pc # "idle" => InFlight(c)' = {t}
        /\ task'[t].pc = "idle" => InFlight(c)' = {}
        /\ \A r \in Records \ Stale(t) : Current(shown[c], r)
        /\ \A k \in DOMAIN served[t] : \A r \in RecordsOf(k) : Current(served[t][k], r)
    BY <1>1, <1>7, <1>8, OnlyHandler
  <2>2. Stale(t) = UNION {RecordsOf(k) : k \in Outstanding(t)}
    BY <2>1 DEF Stale
  <2>3. \A r \in RecordsOf(kind) : Current(shown[c], r)'
    <3> SUFFICES ASSUME NEW r \in RecordsOf(kind) PROVE Current(shown[c], r)'
      OBVIOUS
    <3>1. Current(served[t][kind], r) /\ shown'[c][r] = served[t][kind][r]
      BY <1>1, <1>3, <2>1
    <3>2. Full(served[t][kind], r) => Full(shown'[c], r)
      BY <1>3, FullDepends, TablesApart
    <3> QED
      BY <1>1, <3>1, <3>2 DEF Current
  <2>6. \A r \in Records \ (Stale(t) \cup RecordsOf(kind)) : Current(shown[c], r)'
    <3> SUFFICES ASSUME NEW r \in Records \ (Stale(t) \cup RecordsOf(kind))
                 PROVE  Current(shown[c], r)'
      OBVIOUS
    <3>1. Current(shown[c], r) /\ shown'[c][r] = shown[c][r]
      BY <1>3, <2>1
    <3>2. Full(shown[c], r) => Full(shown'[c], r)
      BY <1>3, FullDepends, TablesApart, RecordKinds
    <3> QED
      BY <1>1, <3>1, <3>2 DEF Current
  <2>4. CASE Outstanding(t) # {kind}
    <3>1. task' = task
      BY <1>5, <2>4
    <3>2. Outstanding(t)' = Outstanding(t) \ {kind}
      BY <1>1, <1>4 DEF Outstanding
    <3>3. Stale(t)' = UNION {RecordsOf(k) : k \in Outstanding(t) \ {kind}}
      BY <2>1, <3>1, <3>2 DEF Stale
    <3>4. Records \ Stale(t)' \subseteq (Records \ (Stale(t) \cup RecordsOf(kind))) \cup RecordsOf(kind)
      BY <2>2, <3>3
    <3>5. \A r \in Records \ Stale(t)' : Current(shown[c], r)'
      BY <2>3, <2>6, <3>4
    <3>6. \A k \in DOMAIN served'[t] : \A r \in RecordsOf(k) : Current(served[t][k], r)'
      BY <1>1, <1>4, <2>1 DEF Current
    <3> QED
      BY <2>1, <3>1, <3>5, <3>6, FreshGoesOn
  <2>5. CASE Outstanding(t) = {kind}
    <3>1. InFlight(c)' = {}
      BY <1>5, <2>1, <2>5, IdleType, TaskStep
    <3>2. Stale(t) = RecordsOf(kind)
      BY <2>2, <2>5
    <3>3. \A r \in Records : Current(shown[c], r)'
      BY <2>3, <2>6, <3>2
    <3> QED
      BY <3>1, <3>3, FreshEnds
  <2> QED
    BY <2>4, <2>5
<1> QED
  BY <1>7, <1>8, FreshElsewhere

LEMMA FreshFails ==
    ASSUME ConsoleInv, FreshInv, NEW t \in Tasks, Fails(t)
    PROVE  FreshInv'
<1>1. task[t].pc # "idle"
  BY KindsServed DEF Fails, RequestFails, ListFails, Outstanding, Kinds
<1>2. PICK c \in Consoles : c = task[t].console
  BY <1>1 DEF ConsoleInv, Requests
<1>3. PICK due : task' = [task EXCEPT ![t] = Over(t, due)]
  BY DEF Fails, RequestFails, ListFails, GiveUp
<1>4. /\ \A u \in Tasks \ {t} : task'[u] = task[u] /\ sent'[u] = sent[u] /\ served'[u] = served[u]
      /\ UNCHANGED <<rows, shown>> /\ disturbed \subseteq disturbed'
  <2>1. \A u \in Tasks \ {t} : task'[u] = task[u]
    BY <1>3, TaskStep
  <2>2. UNCHANGED <<rows, shown>> /\ disturbed \subseteq disturbed'
    BY DEF Fails, RequestFails, ListFails, GiveUp, viewVars
  <2>3. \A u \in Tasks \ {t} : sent'[u] = sent[u] /\ served'[u] = served[u]
    BY DEF Fails, RequestFails, ListFails, fetchVars, ConsoleInv
  <2> QED
    BY <2>1, <2>2, <2>3
<1>5. task'[t] = Over(t, due)
  BY <1>3, TaskStep
<1>6. task'[t].pc # "idle" => task'[t].console = c
  BY <1>1, <1>2, <1>5, OverAsks
<1>7. StepOf(t, c)
  BY <1>2, <1>4, <1>6 DEF StepOf
<1>8. c \in disturbed' \/ task[t].pc = "late"
  BY <1>2, KindsServed DEF Fails, RequestFails, ListFails, GiveUp, Outstanding, Kinds
<1>9. c \in disturbed'
  BY <1>1, <1>7, <1>8, OnlyHandler
<1> QED
  BY <1>7, <1>9, FreshElsewhere

LEMMA FreshNext == ConsoleInv /\ FormRows /\ FreshInv /\ [Next]_vars => FreshInv'
<1> SUFFICES ASSUME ConsoleInv, FormRows, FreshInv, [Next]_vars PROVE FreshInv'
  OBVIOUS
<1>1. CASE UNCHANGED <<rows, shown, task, sent, served, disturbed>>
  BY <1>1 DEF FreshInv, FreshFor, InFlight, Stale, Touches, Outstanding, Current, Replaces, Reloads
<1>2. ASSUME NEW c \in Consoles, \E t \in Tasks : task[t] = Idle, Click(c, FreeTask)
      PROVE  FreshInv'
  BY <1>2, FreeTaskIsIdle, ClickSends, FreshStart
<1>3. ASSUME NEW c \in Consoles,
             \/ \E r \in Sources \cup Opportunities \cup {NewSource} : OpenEditor(c, r)
             \/ CloseEditor(c)
      PROVE  FreshInv'
  BY <1>1, <1>3 DEF OpenEditor, CloseEditor, fetchVars
<1>4. ASSUME NEW t \in Tasks, Proceed(t) PROVE FreshInv'
  BY <1>4, FreshServer, FreshReceive, FreshServeList, FreshReceiveList DEF Proceed, Kinds
<1>5. ASSUME NEW t \in Tasks, Fails(t) PROVE FreshInv'
  BY <1>5, FreshFails
<1>6. ASSUME NEW k \in Candidates, RunValidation(k) PROVE FreshInv'
  BY <1>6 DEF RunValidation, FreshInv
<1> QED
  BY <1>1, <1>2, <1>3, <1>4, <1>5, <1>6 DEF Next, vars, viewVars, fetchVars

LEMMA FreshInit == Init => FreshInv
<1> SUFFICES ASSUME Init, NEW c \in Consoles, NEW r \in Records PROVE Current(shown[c], r)
  BY IdleType DEF Init, InFlight, FreshInv, FreshFor
<1>1. PICK p \in Pages(Opportunities), q \in Pages(Candidates) :
          shown[c] = Listed(Sources \cup p \cup q, Records)
  <2>1. shown[c] \in Loads
    BY DEF Init
  <2> QED
    BY <2>1, LoadedPages
<1>2. /\ p \subseteq Opportunities /\ q \subseteq Candidates
      /\ \A e \in Records : shown[c][e] = IF e \in Sources \cup p \cup q THEN rows[e] ELSE Absent
  BY <1>1 DEF Pages, There, Listed
<1>3. CASE r \in Sources
  BY <1>2, <1>3 DEF Current
<1>4. CASE r \in Opportunities
  <2>1. \A e \in Opportunities : shown[c][e] = IF e \in p THEN rows[e] ELSE Absent
    BY <1>2, RecordKinds
  <2> QED
    BY <1>4, <2>1, PageIsCurrent
<1>5. CASE r \in Candidates
  <2>1. \A e \in Candidates : shown[c][e] = IF e \in q THEN rows[e] ELSE Absent
    BY <1>2, RecordKinds
  <2> QED
    BY <1>5, <2>1, PageIsCurrent
<1> QED
  BY <1>3, <1>4, <1>5 DEF Records

(* A console disturbed by no overlap of its own, no failure and no other    *)
(* writer shows every row as the server has it when its handlers are done,  *)
(* but for those a full list of opportunities or candidates leaves out:     *)
(* each handler replaces or reloads at least the rows its request may have  *)
(* changed (an approval two tables, saveSource one list, toggleSource one   *)
(* row).                                                                    *)
THEOREM OwnChangesAreShown == Spec => []OwnChangesShown
<1>1. FreshInv => OwnChangesShown
  BY DEF FreshInv, FreshFor, OwnChangesShown
<1> QED
  BY <1>1, ConsoleInvariant, FormRowsInvariant, FreshInit, FreshNext, PTL DEF Spec
=============================================================================
