----------------------------- MODULE CmsConsole -----------------------------
(***************************************************************************)
(* The operator console (CmsConsole.js) and the rows it edits.             *)
(*                                                                         *)
(* A console shows copies of the server's rows.  A click starts a handler: *)
(* it sets the one "busy" string of the console, sends a request, and with *)
(* the answer either replaces one row or reloads whole lists; the handler's *)
(* finally clears "busy" whoever set it.  Handlers of one console overlap, *)
(* and so do requests of several consoles; answers arrive in any order and *)
(* a request may fail before or after the server has committed.            *)
(*                                                                         *)
(* A row has a state (a source's enabled flag, an opportunity's or a       *)
(* candidate's status) and a text, which stands for the other fields of    *)
(* the edit form; a candidate has its source_id instead.  Articles and     *)
(* events are edited like opportunities, without a state.  What workers do *)
(* to candidates is in SourceCandidates; here a validation only decides a  *)
(* new candidate.  All lists but that of the sources are ranked and cut;   *)
(* the score that ranks a row is not kept, so any row may be cut off.      *)
(***************************************************************************)
EXTENDS Naturals, FiniteSets, Functions

CONSTANTS
    Consoles,
    Tasks,                              \* handler executions in flight
    Sources, Opportunities, Candidates,
    Discovered,                         \* the candidates there from the beginning
    SourceOf,                           \* the source each candidate becomes
    States,                             \* of sources and of opportunities
    Live,                               \* the state a new source has
    Texts, NewText,
    ListLimit,                          \* the limit of 200 of the ranked lists
    Absent, Closed, NewSource,          \* no row; no form open; the empty form
    MaxClicks                           \* bound: actions the operators start; a form
                                        \* is opened only while one is left

Records == Sources \cup Opportunities \cup Candidates
Statuses == {"discovered", "pending", "approved", "rejected"}
Row == [state : States, text : Texts] \cup [state : Statuses, source : Sources \cup {Absent}]

ASSUME CmsConsoleAssumption ==
    /\ Candidates \cap (Sources \cup Opportunities) = {}
    /\ Sources \cap Opportunities = {}
    /\ ListLimit \in Nat \ {0}
    /\ Discovered \subseteq Candidates
    /\ SourceOf \in [Candidates -> Sources]
    /\ Live \in States /\ NewText \in Texts
    /\ Absent \notin Row
    /\ Closed \notin Records /\ NewSource \notin Records /\ Closed # NewSource
    /\ MaxClicks \in Nat

VARIABLES
    rows,      \* the server's committed rows
    shown,     \* each console's copies
    busy,      \* each console's busy string
    editor,    \* the record each console's form was opened for
    task,
    sent,      \* each task's list requests the server has not read yet
    served,    \* list answers on their way
    clicks,
    disturbed, \* history: consoles whose copies nothing keeps fresh
    overtaken  \* history: handlers already saving when the form was opened

viewVars == <<shown, busy, editor, overtaken>>
fetchVars == <<sent, served>>
vars == <<rows, viewVars, task, fetchVars, clicks, disturbed>>

NotBusy == <<>>
NoPatch == <<>>
Idle == [pc |-> "idle", console |-> Absent, op |-> "none", rec |-> Absent,
         label |-> NotBusy, patch |-> NoPatch, loaded |-> Absent, answer |-> Absent]

(* Every source but those still to be found among the candidates is there. *)
FirstRows ==
    [r \in Records |->
        CASE r \in Discovered -> [state |-> "pending", source |-> Absent]
          [] r \in Range(SourceOf) \/ r \in Candidates -> Absent
          [] OTHER -> [state |-> Live, text |-> NewText]]

There(table) == {r \in table : rows[r] # Absent}

(* order_by(...).limit(limit), and the sources without a limit.             *)
Pages(table) ==
    IF table = Sources \/ Cardinality(There(table)) <= ListLimit THEN {There(table)}
    ELSE {page \in SUBSET There(table) : Cardinality(page) = ListLimit}

Listed(page, table) == [r \in table |-> IF r \in page THEN rows[r] ELSE Absent]

(* page.js loads every list before the console opens.                       *)
Loads == {Listed(Sources \cup p \cup q, Records) : p \in Pages(Opportunities), q \in Pages(Candidates)}

Init ==
    /\ rows = FirstRows
    /\ shown \in [Consoles -> Loads]
    /\ busy = [c \in Consoles |-> NotBusy]
    /\ editor = [c \in Consoles |-> Closed]
    /\ task = [t \in Tasks |-> Idle]
    /\ sent = [t \in Tasks |-> {}]
    /\ served = [t \in Tasks |-> <<>>]
    /\ clicks = 0
    /\ disturbed = {}
    /\ overtaken = {}

InFlight(c) == {t \in Tasks : task[t].pc # "idle" /\ task[t].console = c}
Saves(t) == task[t].op \in {"save", "submit"}

-----------------------------------------------------------------------------
(* Clicks.  The editor's backdrop covers every button outside the form.     *)

Start(c, t, op, r, label, patch) ==
    /\ clicks < MaxClicks
    /\ task' = [task EXCEPT ![t] = [Idle EXCEPT
                   !.pc = "request", !.console = c, !.op = op, !.rec = r,
                   !.label = label, !.patch = patch]]
    /\ busy' = [busy EXCEPT ![c] = label]
    /\ clicks' = clicks + 1
    /\ disturbed' = IF InFlight(c) = {} THEN disturbed ELSE disturbed \cup {c}
    /\ UNCHANGED <<rows, shown, editor, overtaken, fetchVars>>

(* What a quick change sends: the one field.                                *)
WholeRowPatch(c, r, s) == [shown[c][r] EXCEPT !.state = s]
StatePatch(c, r, s) == [state |-> s]

(* toggleSource, and the status select of an opportunity.                   *)
QuickChange(c, t, r) ==
    /\ editor[c] = Closed
    /\ shown[c][r] # Absent
    /\ busy[c] # <<r>>
    /\ \E s \in States \ {shown[c][r].state} :
           Start(c, t, "quick", r, <<r>>, StatePatch(c, r, s))

(* The form sends all of its fields, the state it was opened with included. *)
SaveLabel(r) == IF r \in Sources THEN <<"source-save">> ELSE <<r>>

Save(c, t, r) ==
    /\ editor[c] = r
    /\ busy[c] # SaveLabel(r)
    /\ \E row \in [state : States, text : Texts] : Start(c, t, "save", r, SaveLabel(r), row)

(* saveSource without an item: a new source enters as a candidate.          *)
SubmitSource(c, t, k) ==
    /\ editor[c] = NewSource
    /\ busy[c] # <<"source-save">>
    /\ Start(c, t, "submit", k, <<"source-save">>, NoPatch)

(* A candidate's buttons are disabled while anything is busy.               *)
CandidateAction(c, t, k, op) ==
    /\ editor[c] = Closed
    /\ shown[c][k] # Absent
    /\ busy[c] = NotBusy
    /\ op = "reject" => shown[c][k].state # "rejected"
    /\ op = "approve" => shown[c][k].source = Absent
    /\ Start(c, t, op, k, <<op, k>>, NoPatch)

(* crawl, crawlAll and runDiscovery: a job is published, nothing is shown.  *)
Enqueue(c, t, r) ==
    /\ editor[c] = Closed
    /\ shown[c][r] # Absent /\ shown[c][r].state = Live
    /\ busy[c] # <<"crawl", r>>
    /\ Start(c, t, "enqueue", r, <<"crawl", r>>, NoPatch)

OpenEditor(c, r) ==
    /\ clicks < MaxClicks
    /\ editor[c] = Closed
    /\ r # NewSource => shown[c][r] # Absent
    /\ editor' = [editor EXCEPT ![c] = r]
    /\ overtaken' = overtaken \cup {t \in InFlight(c) : Saves(t)}
    /\ UNCHANGED <<rows, shown, busy, task, fetchVars, clicks, disturbed>>

CloseEditor(c) ==
    /\ editor[c] # Closed
    /\ editor' = [editor EXCEPT ![c] = Closed]
    /\ overtaken' = overtaken \ InFlight(c)
    /\ UNCHANGED <<rows, shown, busy, task, fetchVars, clicks, disturbed>>

-----------------------------------------------------------------------------
(* The server.                                                              *)

Server(t, pc) == task[t].pc = pc

(* The handler's db.get; nothing is locked.                                 *)
Load(t) ==
    /\ Server(t, "request")
    /\ task[t].op # "submit" => rows[task[t].rec] # Absent
    /\ task' = [task EXCEPT ![t].pc = "loaded", ![t].loaded = rows[task[t].rec]]
    /\ UNCHANGED <<rows, viewVars, fetchVars, clicks, disturbed>>

(* A flush writes the columns whose value differs from the loaded one.      *)
Replaced(row, loaded, patch) == patch
Patched(row, loaded, patch) ==
    [f \in {"state", "text"} |->
        IF f \in DOMAIN patch /\ patch[f] # loaded[f] THEN patch[f] ELSE row[f]]

(* promote_candidate links an existing source or inserts one.               *)
Approved(k) ==
    LET s == SourceOf[k]
    IN [rows EXCEPT ![k] = [state |-> "approved", source |-> s],
                    ![s] = IF @ = Absent THEN [state |-> Live, text |-> NewText] ELSE @]

Committed(t) ==
    LET r == task[t].rec
        loaded == task[t].loaded
    IN CASE task[t].op \in {"quick", "save"} ->
                [rows EXCEPT ![r] = Patched(@, loaded, task[t].patch)]
         [] task[t].op = "submit" ->
                [rows EXCEPT ![r] = [state |-> "discovered", source |-> Absent]]
         [] task[t].op = "approve" /\ loaded.source = Absent -> Approved(r)
         [] task[t].op = "reject" /\ loaded.state # "rejected" ->
                [rows EXCEPT ![r].state = "rejected"]
         [] task[t].op = "rescan" /\ loaded.state = "rejected" ->
                [rows EXCEPT ![r].state = "discovered"]
         [] OTHER -> rows

(* A candidate's domain is unique; only a reviewable one can be approved.   *)
Accepted(t) ==
    /\ task[t].op = "submit" => rows[task[t].rec] = Absent
    /\ task[t].op = "approve" => task[t].loaded.source # Absent \/ task[t].loaded.state = "pending"

Commit(t) ==
    /\ Server(t, "loaded")
    /\ Accepted(t)
    /\ rows' = Committed(t)
    /\ task' = [task EXCEPT ![t].pc = "committed",
                            ![t].patch = NoPatch, ![t].loaded = Absent]
    /\ disturbed' = IF rows' = rows THEN disturbed
                    ELSE disturbed \cup (Consoles \ {task[t].console})
    /\ UNCHANGED <<viewVars, fetchVars, clicks>>

(* db.refresh, and the answer leaves.                                       *)
Answer(t) ==
    /\ Server(t, "committed")
    /\ task' = [task EXCEPT ![t].pc = "answered", ![t].answer = rows[task[t].rec]]
    /\ UNCHANGED <<rows, viewVars, fetchVars, clicks, disturbed>>

RecordsOf(kind) == IF kind = "sources" THEN Sources ELSE Candidates

ServeList(t, kind) ==
    /\ kind \in sent[t]
    /\ sent' = [sent EXCEPT ![t] = @ \ {kind}]
    /\ \E page \in Pages(RecordsOf(kind)) :
           served' = [served EXCEPT ![t] =
                         [k \in DOMAIN @ \cup {kind} |->
                             IF k = kind THEN Listed(page, RecordsOf(kind)) ELSE @[k]]]
    /\ UNCHANGED <<rows, viewVars, task, clicks, disturbed>>

(* A worker decides a candidate (SourceCandidates).                         *)
RunValidation(k) ==
    /\ rows[k] # Absent /\ rows[k].state = "discovered"
    /\ \E s \in {"pending", "rejected"} : rows' = [rows EXCEPT ![k].state = s]
    /\ disturbed' = Consoles
    /\ UNCHANGED <<viewVars, task, fetchVars, clicks>>

-----------------------------------------------------------------------------
(* Answers reach the console.                                               *)

Outstanding(t) == sent[t] \cup DOMAIN served[t]

(* The handler's finally.                                                   *)
StayBusy(c) == busy' = busy
ClearBusy(c) == busy' = [busy EXCEPT ![c] = NotBusy]

(* What is left of a handler that is over while list answers are still due. *)
Over(t, due) == IF due = {} THEN Idle
                ELSE [Idle EXCEPT !.pc = "late", !.console = task[t].console]

CloseAfterSave(t) ==
    /\ editor' = IF Saves(t) THEN [editor EXCEPT ![task[t].console] = Closed] ELSE editor
    /\ overtaken' = overtaken \ {t}

(* items.map: a row that the list has lost meanwhile does not come back.    *)
ReplaceRow(c, r, row) == shown' = [shown EXCEPT ![c][r] = IF @ = Absent THEN Absent ELSE row]

(* toggleSource, updateOpportunity and saveOpportunity (saveArticle and     *)
(* saveEvent): the answer replaces the row.  An enqueued job shows nothing. *)
Reloads(t) == \/ task[t].op \in {"submit", "approve", "reject", "rescan"}
              \/ task[t].op = "save" /\ task[t].rec \in Sources

Receive(t) ==
    /\ Server(t, "answered") /\ ~Reloads(t)
    /\ IF task[t].op = "enqueue" THEN UNCHANGED shown
       ELSE ReplaceRow(task[t].console, task[t].rec, task[t].answer)
    /\ CloseAfterSave(t)
    /\ ClearBusy(task[t].console)
    /\ task' = [task EXCEPT ![t] = Idle]
    /\ UNCHANGED <<rows, fetchVars, clicks, disturbed>>

(* A second request of saveSource starts the new candidate's validation.    *)
RequestValidation(t) ==
    /\ Server(t, "answered") /\ task[t].op = "submit"
    /\ task' = [task EXCEPT ![t].pc = "validating"]
    /\ UNCHANGED <<rows, viewVars, fetchVars, clicks, disturbed>>

OneList(t) == IF task[t].op = "save" THEN {"sources"} ELSE {"candidates"}
Lists(t) == CASE task[t].op = "submit" -> {"candidates"}
              [] task[t].op = "save" -> {"sources"}
              [] OTHER -> {"sources", "candidates"}

Reload(t) ==
    /\ Reloads(t)
    /\ Server(t, IF task[t].op = "submit" THEN "validating" ELSE "answered")
    /\ task' = [task EXCEPT ![t].pc = "reloading", ![t].answer = Absent]
    /\ sent' = [sent EXCEPT ![t] = Lists(t)]
    /\ UNCHANGED <<rows, viewVars, served, clicks, disturbed>>

(* Each list is shown when it comes; the last one ends Promise.all.         *)
ReceiveList(t, kind) ==
    /\ kind \in DOMAIN served[t]
    /\ shown' = [shown EXCEPT ![task[t].console] =
                    [r \in Records |-> IF r \in RecordsOf(kind) THEN served[t][kind][r] ELSE @[r]]]
    /\ served' = [served EXCEPT ![t] = Restrict(@, DOMAIN @ \ {kind})]
    /\ IF Outstanding(t) # {kind}
       THEN UNCHANGED <<busy, editor, overtaken, task>>
       ELSE /\ task' = [task EXCEPT ![t] = Idle]
            /\ IF task[t].pc = "late" THEN UNCHANGED <<busy, editor, overtaken>>
               ELSE CloseAfterSave(t) /\ ClearBusy(task[t].console)
    /\ UNCHANGED <<rows, sent, clicks, disturbed>>

(* The catch branch only notifies; the form stays open.                     *)
GiveUpBusy(t, due) ==
    /\ task' = [task EXCEPT ![t] = Over(t, due)]
    /\ disturbed' = disturbed \cup {task[t].console}
    /\ UNCHANGED <<rows, viewVars, clicks>>
GiveUpForm(t, due) ==
    /\ task' = [task EXCEPT ![t] = Over(t, due)]
    /\ CloseAfterSave(t)
    /\ ClearBusy(task[t].console)
    /\ disturbed' = disturbed \cup {task[t].console}
    /\ UNCHANGED <<rows, shown, clicks>>
GiveUp(t, due) ==
    /\ task' = [task EXCEPT ![t] = Over(t, due)]
    /\ ClearBusy(task[t].console)
    /\ overtaken' = overtaken \ {t}
    /\ disturbed' = disturbed \cup {task[t].console}
    /\ UNCHANGED <<rows, shown, editor, clicks>>

(* Refused or failed by the server, or lost on the way there or back.  What *)
(* the client sees does not depend on where, so one place before the commit *)
(* and one after it are enough.                                             *)
RequestFails(t) ==
    /\ task[t].pc \in {"loaded", "answered", "validating"}
    /\ GiveUp(t, {})
    /\ UNCHANGED fetchVars

ListFails(t, kind) ==
    /\ kind \in Outstanding(t)
    /\ sent' = [sent EXCEPT ![t] = @ \ {kind}]
    /\ served' = [served EXCEPT ![t] = Restrict(@, DOMAIN @ \ {kind})]
    /\ IF task[t].pc = "reloading" THEN GiveUp(t, Outstanding(t) \ {kind})
       ELSE /\ task' = [task EXCEPT ![t] = Over(t, Outstanding(t) \ {kind})]
            /\ UNCHANGED <<rows, viewVars, clicks, disturbed>>

-----------------------------------------------------------------------------
(* Which free slot a handler takes makes no difference.                     *)
FreeTask == CHOOSE t \in Tasks : task[t] = Idle

Click(c, t) ==
    \/ \E r \in Sources \cup Opportunities : QuickChange(c, t, r) \/ Save(c, t, r)
    \/ \E k \in Candidates : \/ SubmitSource(c, t, k)
                             \/ \E op \in {"approve", "reject", "rescan"} :
                                    CandidateAction(c, t, k, op)
    \/ \E r \in Sources : Enqueue(c, t, r)

Proceed(t) ==
    \/ Load(t) \/ Commit(t) \/ Answer(t)
    \/ Receive(t) \/ RequestValidation(t) \/ Reload(t)
    \/ \E kind \in {"sources", "candidates"} : ServeList(t, kind) \/ ReceiveList(t, kind)

Fails(t) ==
    \/ RequestFails(t)
    \/ \E kind \in {"sources", "candidates"} : ListFails(t, kind)

Next ==
    \/ \E c \in Consoles : /\ \E t \in Tasks : task[t] = Idle
                           /\ Click(c, FreeTask)
    \/ \E c \in Consoles : \/ \E r \in Sources \cup Opportunities \cup {NewSource} : OpenEditor(c, r)
                           \/ CloseEditor(c)
    \/ \E t \in Tasks : Proceed(t) \/ Fails(t)
    \/ \E k \in Candidates : RunValidation(k)

Spec == Init /\ [][Next]_vars

(* Every request is answered or fails: the browser ends a connection that   *)
(* is lost.  Operators may stop clicking at any time.                       *)
Fairness == \A t \in Tasks : WF_vars(Proceed(t) \/ Fails(t))
FairSpec == Spec /\ Fairness

-----------------------------------------------------------------------------
TaskType ==
    [pc : {"idle", "request", "loaded", "committed", "answered", "validating",
           "reloading", "late"},
     console : Consoles \cup {Absent},
     op : {"none", "quick", "save", "submit", "approve", "reject", "rescan", "enqueue"},
     rec : Records \cup {Absent},
     label : {NotBusy, <<"source-save">>} \cup {<<r>> : r \in Records}
             \cup {<<op, r>> : op \in {"approve", "reject", "rescan", "crawl"}, r \in Records},
     patch : {NoPatch} \cup [state : States] \cup [state : States, text : Texts],
     loaded : Row \cup {Absent},
     answer : Row \cup {Absent}]

(* The variables keep their types.                                          *)
TypeOK ==
    /\ rows \in [Records -> Row \cup {Absent}]
    /\ shown \in [Consoles -> [Records -> Row \cup {Absent}]]
    /\ \A c \in Consoles : busy[c] \in {NotBusy, <<"source-save">>} \cup {<<r>> : r \in Records}
             \cup {<<op, r>> : op \in {"approve", "reject", "rescan", "crawl"}, r \in Records}
    /\ editor \in [Consoles -> Sources \cup Opportunities \cup {Closed, NewSource}]
    /\ task \in [Tasks -> TaskType]
    /\ \A t \in Tasks : Outstanding(t) \subseteq {"sources", "candidates"}
    /\ clicks \in 0 .. MaxClicks
    /\ disturbed \subseteq Consoles
    /\ overtaken \subseteq Tasks

(* Whatever the overlap of handlers that all write and clear one string, a  *)
(* console is busy only with a handler that is under way: no button stays   *)
(* disabled after its handler has ended (the finally blocks).               *)
BusyIsOwned ==
    \A c \in Consoles : busy[c] # NotBusy =>
        \E t \in InFlight(c) : task[t].label = busy[c]

(* A quick change names only the state in its PATCH and the server writes   *)
(* only what the PATCH names, so that a console with an outdated row, or an *)
(* overlapping toggle, never undoes another operator's edit of the text.    *)
TextChangedByForm ==
    \A r \in Sources \cup Opportunities :
        rows[r] # Absent /\ rows'[r].text # rows[r].text =>
            \E t \in Tasks : /\ task[t].rec = r /\ task[t].op = "save"
                            /\ task[t].pc = "loaded" /\ task'[t].pc = "committed"
QuickChangeKeepsText == [][TextChangedByForm]_vars

(* An answer closes a form only when what the form had sent is stored: of   *)
(* the requests a save makes, whichever fails before the server has         *)
(* committed leaves the operator's input on the screen.  The exception is a *)
(* form opened while the handler was already under way, which setEditor(null) *)
(* closes as well, whatever has been typed into it.                         *)
Stores(t, form) == form = IF task[t].op = "submit" THEN NewSource ELSE task[t].rec

ClosedFormWasStored ==
    \A c \in Consoles :
        editor[c] # Closed /\ editor'[c] = Closed /\ task' # task =>
            \E t \in InFlight(c) : /\ task'[t] # task[t]
                                  /\ Saves(t)
                                  /\ task[t].pc \in {"answered", "reloading"}
                                  /\ (Stores(t, editor[c]) \/ t \in overtaken)
FormClosesOnlyWhenStored == [][ClosedFormWasStored]_vars

(* A console that nothing has disturbed (no overlap of its own actions, no  *)
(* failure, no write by anyone else) shows every row as the server has it   *)
(* when its handlers are done, but for rows missing from a ranked list that *)
(* is full: every action refreshes all it has changed, in every list.       *)
Full(copy, r) ==
    \E table \in {Opportunities, Candidates} :
        r \in table /\ Cardinality({q \in table : copy[q] # Absent}) = ListLimit
Current(copy, r) == copy[r] = rows[r] \/ (copy[r] = Absent /\ Full(copy, r))

OwnChangesShown ==
    \A c \in Consoles \ disturbed : InFlight(c) = {} =>
        \A r \in Records : Current(shown[c], r)

(* A disabled button comes back, however its request ends.                  *)
ButtonsComeBack ==
    \A c \in Consoles : busy[c] # NotBusy ~> busy[c] = NotBusy
=============================================================================
