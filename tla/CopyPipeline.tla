---------------------------- MODULE CopyPipeline ----------------------------
(***************************************************************************)
(* Copying cells to the clipboard (src/ui/table_renderer.cpp, refetchRows  *)
(* of src/workers/source_worker.cpp and refetch of the sources).           *)
(*                                                                         *)
(* Long cells are shown cut off.  Copying some makes the renderer set the  *)
(* copy aside and ask the source worker for their rows, one by one; when   *)
(* the answer comes the page may have been turned, another copy may have   *)
(* been started, the table may have been left or its rows deleted.  An     *)
(* answer names the rows by their place on the page copied from.           *)
(*                                                                         *)
(* Of a row only one cell matters here, the one selected.  Every load of a *)
(* table has a worker of its own; the workers run in parallel, and what    *)
(* they emit reaches the GUI thread in one queue.                          *)
(***************************************************************************)
EXTENDS Integers, Sequences, FiniteSets, FiniteSetsExt

CONSTANTS
    Row,            \* rows of the tables
    Cut,            \* the rows whose cell is shown cut off
    CellSize,       \* bytes of the cell of each row
    RowSize,        \* bytes of all cells of each row
    Doomed,         \* bound: the rows other programs may delete
    Budget,         \* kMaxCopyBudgetBytes
    Markup,         \* bytes Markdown adds to a cell
    Pages,          \* the pages there may be
    NoCopy,         \* no copy is pending
    Idle,           \* the worker is not refetching
    MaxView,        \* bound: loads
    MaxCopies       \* bound: copies

ASSUME CopyAssumption ==
    /\ Cut \subseteq Row
    /\ CellSize \in [Row -> Nat \ {0}]
    /\ RowSize \in [Row -> Nat]
    /\ Doomed \subseteq Row
    /\ Budget \in Nat
    /\ Markup \in Nat
    /\ Pages \subseteq Seq(Row)
    /\ MaxView \in Nat
    /\ MaxCopies \in Nat

VARIABLES
    view,           \* m_generation and *m_viewGen
    paged,          \* m_isPaged
    page,           \* the rows on display
    copyId,         \* m_currentCopyRequestId
    pending,        \* m_pendingCopy
    clipboard,
    notice,         \* copyRefetchIncomplete since the last request: rows, -1, or 0 for none
    kind,           \* "sqlite" or "csv"
    stored,         \* the rows that exist in the table
    opened,         \* those it had when it was opened
    source,         \* the source of the current worker is open
    calls,          \* refetchRows() queued for the worker of each load
    task,           \* the refetchRows() each worker is in
    events          \* refetchRowsCompleted signals on their way

guiVars == <<view, paged, page, copyId, pending, clipboard, notice>>
tableVars == <<kind, stored, opened, source>>
vars == <<guiVars, tableVars, calls, task, events>>

View == 0..MaxView

\* A selected cell: where it was on the page and of which row.
Cell == [at : Nat \ {0}, row : Row]

\* The text of a cell, whole or as displayed.
Text == [of : Row, whole : BOOLEAN]

\* What a refetch has for the row at a place.
Result == [at : Nat \ {0}, outcome : {"ok", "failed", "budget"}, row : Row]

Init ==
    /\ view = 0
    /\ paged = FALSE
    /\ page = <<>>
    /\ copyId = 0
    /\ pending = NoCopy
    /\ clipboard = [id |-> 0, markdown |-> FALSE, texts |-> {}]
    /\ notice = 0
    /\ kind = "csv"
    /\ stored = Row
    /\ opened = {}
    /\ source = FALSE
    /\ calls = [v \in View |-> <<>>]
    /\ task = [v \in View |-> Idle]
    /\ events = <<>>

-----------------------------------------------------------------------------
\* Sizes.
TextSize(text) == IF text.whole THEN CellSize[text.of] ELSE 1

TotalSize(texts) == MapThenSumSet(LAMBDA t : TextSize(t.text), texts)

\* The cells as they are displayed.
Displayed(cells) ==
    {[at |-> c.at, row |-> c.row, text |-> [of |-> c.row, whole |-> c.row \notin Cut]] : c \in cells}

\* Bytes of the payload a set of texts makes: separators, or Markdown.
Payload(texts, markdown) ==
    TotalSize(texts) + (IF markdown THEN Markup * Cardinality(texts) ELSE Cardinality(texts) - 1)

\* withinCopyBudget()
Fits(texts, markdown) == Payload(texts, markdown) <= Budget

\* The estimate made before anything is built.
TooMuchToStart(cells) == TotalSize(Displayed(cells)) + Cardinality(cells) > Budget

-----------------------------------------------------------------------------
\* The copy begins (performCopy).
RefuseCopy ==
    /\ pending' = NoCopy
    /\ notice' = -1
    /\ UNCHANGED clipboard

WriteClipboard(texts, markdown) ==
    /\ clipboard' = [id |-> copyId', markdown |-> markdown, texts |-> texts]
    /\ pending' = NoCopy

CopyDirectly(cells, markdown) ==
    IF Fits(Displayed(cells), markdown)
    THEN WriteClipboard(Displayed(cells), markdown) /\ notice' = 0
    ELSE RefuseCopy

\* Rows with a cell that is cut off are asked for.
ToRefetch(cells) == {c \in cells : c.row \in Cut}

AskForRows(cells, markdown) ==
    /\ pending' = [id |-> copyId', markdown |-> markdown, cells |-> cells, view |-> view]
    /\ calls' = [calls EXCEPT ![view] = Append(@, [id |-> copyId', cells |-> ToRefetch(cells)])]
    /\ notice' = 0
    /\ UNCHANGED clipboard

Copy ==
    /\ page # <<>>
    /\ copyId < MaxCopies
    /\ copyId' = copyId + 1
    /\ \E places \in SUBSET DOMAIN page \ {{}}, markdown \in BOOLEAN :
         LET cells == {[at |-> i, row |-> page[i]] : i \in places}
             cut == paged /\ ToRefetch(cells) # {}
         IN  \/ TooMuchToStart(cells) /\ RefuseCopy /\ UNCHANGED calls
             \/ ~TooMuchToStart(cells) /\ ~cut /\ CopyDirectly(cells, markdown) /\ UNCHANGED calls
             \/ ~TooMuchToStart(cells) /\ cut /\ AskForRows(cells, markdown)
    /\ UNCHANGED <<view, paged, page, tableVars, task, events>>

-----------------------------------------------------------------------------
\* The worker refetches the rows.
IsViewStale(v) == v # view

Emit(v, id, results) == events' = Append(events, [view |-> v, id |-> id, results |-> results])

Quits(v) == task' = [task EXCEPT ![v] = Idle]

\* The call that opens the source was queued before, so there is one.
BeginRefetch(v) ==
    /\ task[v] = Idle
    /\ calls[v] # <<>>
    /\ LET call == Head(calls[v])
       IN  IF IsViewStale(v)
           THEN Emit(v, call.id, {}) /\ UNCHANGED task
           ELSE /\ task' = [task EXCEPT ![v] = [id |-> call.id, left |-> call.cells,
                                                results |-> {}, bytes |-> 0]]
                /\ UNCHANGED events
    /\ calls' = [calls EXCEPT ![v] = Tail(@)]
    /\ UNCHANGED <<guiVars, tableVars>>

\* What the source may answer: a file that has changed serves nothing, nor does
\* a database that is closed; a row may be gone, a read may fail.
Outcomes(row) ==
    {"failed"} \union
    (CASE kind = "csv" /\ stored = opened -> {IF CellSize[row] > Budget THEN "budget" ELSE "ok"}
       [] kind = "sqlite" /\ source /\ row \in stored -> {"ok"}
       [] OTHER -> {})

\* Bytes that count: the cells selected of a record, all columns of a table's row.
Fetched(row) == IF kind = "csv" THEN CellSize[row] ELSE RowSize[row]

OverBudget(t) == t.bytes > Budget

Answer(cell, outcome) == [at |-> cell.at, outcome |-> outcome, row |-> cell.row]

Fetch(t, cell, outcome) ==
    [t EXCEPT !.left = @ \ {cell},
              !.results = @ \union {Answer(cell, outcome)},
              !.bytes = IF outcome = "ok" THEN @ + Fetched(cell.row) ELSE @]

RefetchRow(v) ==
    /\ task[v] # Idle
    /\ LET t == task[v]
       IN  \E cell \in t.left :
             /\ \A d \in t.left : cell.at <= d.at
             /\ \/ IsViewStale(v) /\ Emit(v, t.id, {}) /\ Quits(v)
                \/ /\ ~IsViewStale(v)
                   /\ \E outcome \in IF OverBudget(t) THEN {"budget"} ELSE Outcomes(cell.row) :
                        task' = [task EXCEPT ![v] = Fetch(t, cell, outcome)]
                   /\ UNCHANGED events
    /\ UNCHANGED <<guiVars, tableVars, calls>>

\* Mutant: only the rows after the one that went over the budget fail.
BatchAsIs(t) == t.results

\* A batch over the budget fails as a whole.
Batch(t) ==
    IF OverBudget(t) THEN {[r EXCEPT !.outcome = "budget"] : r \in t.results} ELSE t.results

FinishRefetch(v) ==
    /\ task[v] # Idle
    /\ task[v].left = {}
    /\ IF IsViewStale(v) THEN UNCHANGED events ELSE Emit(v, task[v].id, Batch(task[v]))
    /\ Quits(v)
    /\ UNCHANGED <<guiVars, tableVars, calls>>

RefetchStep(v) == BeginRefetch(v) \/ RefetchRow(v) \/ FinishRefetch(v)

-----------------------------------------------------------------------------
\* The copy ends (onRefetchRowsCompleted).

\* Mutant: any answer will do.
AwaitedAny(id) == pending # NoCopy

Awaited(id) == id = copyId /\ pending # NoCopy /\ pending.id = id

\* Mutant: what came back failed is taken as well.
RefreshedUnchecked(cell, results) ==
    {r \in results : r.at = cell.at /\ cell.row \in Cut}

\* The text of a cell once results are there.
Refreshed(cell, results) ==
    {r \in results : r.at = cell.at /\ r.outcome = "ok" /\ cell.row \in Cut}

FinalText(cell, results) ==
    IF Refreshed(cell, results) # {}
    THEN LET r == CHOOSE r \in Refreshed(cell, results) : TRUE
         IN  [of |-> r.row, whole |-> r.outcome = "ok"]
    ELSE [of |-> cell.row, whole |-> cell.row \notin Cut]

FinalTexts(cells, results) ==
    {[at |-> c.at, row |-> c.row, text |-> FinalText(c, results)] : c \in cells}

\* Mutant: a difference taken the wrong way round.
FailedRowsNegative(cells, results) ==
    Cardinality({r \in results : r.outcome = "ok"}) - Cardinality(ToRefetch(cells))

FailedRows(cells, results) ==
    Cardinality({c \in cells : c.row \in Cut /\ Refreshed(c, results) = {}})

CompleteCopy(id, results) ==
    IF ~Awaited(id) THEN UNCHANGED <<pending, clipboard, notice>>
    ELSE LET texts == FinalTexts(pending.cells, results)
         IN  IF (\E r \in results : r.outcome = "budget") \/ ~Fits(texts, pending.markdown)
             THEN RefuseCopy
             ELSE /\ WriteClipboard(texts, pending.markdown)
                  /\ notice' = FailedRows(pending.cells, results)

\* The handler of refetchRowsCompleted.
OnRefetchRowsCompleted ==
    /\ events # <<>>
    /\ events' = Tail(events)
    /\ UNCHANGED copyId
    /\ LET e == Head(events)
       IN  IF ~paged THEN UNCHANGED <<pending, clipboard, notice>>
           ELSE CompleteCopy(e.id, IF e.view = view THEN e.results ELSE {})
    /\ UNCHANGED <<view, paged, page, tableVars, calls, task>>

-----------------------------------------------------------------------------
\* What else happens to the renderer.

\* Mutant: the copy outlives its table.
ForgetKeepsCopy == page' = <<>> /\ UNCHANGED pending

\* TableRenderer::clear()
Forget == page' = <<>> /\ pending' = NoCopy

\* A page arrives (setPageData): a pending copy stays pending.
ShowPage ==
    /\ paged
    /\ source
    /\ \E p \in Pages :
         /\ \A i \in DOMAIN p : p[i] \in stored
         /\ page' = p
    /\ UNCHANGED <<view, paged, copyId, pending, clipboard, notice, tableVars, calls, task, events>>

\* loadSelectedTable(): the worker there was is retired.
LoadTable ==
    /\ view < MaxView
    /\ view' = view + 1
    /\ paged' = TRUE
    /\ Forget
    /\ source' = TRUE
    /\ kind' \in {"sqlite", "csv"}
    /\ opened' = stored
    /\ UNCHANGED <<copyId, clipboard, notice, stored, calls, task, events>>

\* doLoadFile() of something that is not paged.
LeaveTable ==
    /\ view < MaxView
    /\ view' = view + 1
    /\ paged' = FALSE
    /\ Forget
    /\ source' = FALSE
    /\ UNCHANGED <<copyId, clipboard, notice, kind, stored, opened, calls, task, events>>

\* A parse completes (setData): a table of which no cell is cut.
ShowParsed ==
    /\ ~paged
    /\ \E p \in Pages : (\A i \in DOMAIN p : p[i] \notin Cut) /\ page' = p
    /\ pending' = NoCopy
    /\ UNCHANGED <<view, paged, copyId, clipboard, notice, tableVars, calls, task, events>>

\* The source is reopened to recover from a sort; that may fail or be cancelled.
Reopen ==
    /\ paged /\ kind = "sqlite"
    /\ source' \in BOOLEAN
    /\ UNCHANGED <<guiVars, kind, stored, opened, calls, task, events>>

\* Another program deletes a row.
DeleteRow ==
    /\ \E r \in stored \intersect Doomed : stored' = stored \ {r}
    /\ UNCHANGED <<guiVars, kind, opened, source, calls, task, events>>

Next ==
    \/ Copy
    \/ \E v \in View : RefetchStep(v)
    \/ OnRefetchRowsCompleted
    \/ ShowPage
    \/ LoadTable
    \/ LeaveTable
    \/ ShowParsed
    \/ Reopen
    \/ DeleteRow

\* The event loops of the workers and of the GUI thread run.
Fairness ==
    /\ \A v \in View : WF_vars(RefetchStep(v))
    /\ WF_vars(OnRefetchRowsCompleted)

Spec == Init /\ [][Next]_vars /\ Fairness

-----------------------------------------------------------------------------
TypeOK ==
    /\ view \in View
    /\ paged \in BOOLEAN
    /\ page \in Seq(Row)
    /\ copyId \in Nat
    /\ pending = NoCopy \/ pending \in [id : 1..copyId, markdown : BOOLEAN,
                                        cells : SUBSET Cell, view : View]
    /\ clipboard.id \in 0..copyId
    /\ \A t \in clipboard.texts : [at |-> t.at, row |-> t.row] \in Cell /\ t.text \in Text
    /\ notice \in Nat \union {-1}
    /\ kind \in {"sqlite", "csv"}
    /\ stored \subseteq Row /\ opened \subseteq Row /\ source \in BOOLEAN
    /\ \A v \in View :
         /\ \A i \in DOMAIN calls[v] : calls[v][i].id \in 1..copyId /\ calls[v][i].cells \subseteq Cell
         /\ task[v] # Idle => task[v].results \subseteq Result /\ task[v].left \subseteq Cell
    /\ \A i \in DOMAIN events : events[i].view \in View /\ events[i].results \subseteq Result

\* Every text on the clipboard is that of the cell selected, though the page
\* it was on may have been turned, and though rows are named by place only
\* (the guards on copyRequestId in onRefetchRowsCompleted).
ClipboardIsSelection == \A t \in clipboard.texts : t.text.of = t.row

\* When the last copy has written the clipboard, the user has been told
\* exactly how many of its texts are cut off (copyRefetchIncomplete).
CutTextsAreReported ==
    clipboard.id = copyId =>
        notice = Cardinality({t \in clipboard.texts : ~t.text.whole})

\* No payload over the budget is on the clipboard, counted with everything
\* the formatter adds (withinCopyBudget).
ClipboardWithinBudget ==
    clipboard.texts # {} => Payload(clipboard.texts, clipboard.markdown) <= Budget

\* What a step takes from the answers, and the bytes the worker counts for it.
Taken == IF Len(events') < Len(events) THEN Head(events).results ELSE {}

Served(results) ==
    MapThenSumSet(LAMBDA r : Fetched(r.row), {r \in results : r.outcome = "ok"})

\* A copy that exceeds the budget anywhere leaves the clipboard as it was: one
\* cell over it by itself (refetch of a file), rows over it together, counted
\* with the columns nobody selected (refetchRows), or the text once Markdown
\* is added.  The rows that came before are not copied without the rest, even
\* if it is the last row that goes over and the text would fit.
OverBudgetCopiesNothing ==
    [][clipboard' # clipboard =>
          /\ \A r \in Taken : r.outcome # "budget"
          /\ Served(Taken) <= Budget
          /\ ClipboardWithinBudget']_vars

\* A copy that waits belongs to the table on display: what was asked of a
\* table that was left never reaches the clipboard.  (Its field "view" is
\* not in the code.)
PendingIsCurrent == pending # NoCopy => paged /\ pending.view = view

\* Every copy that waits for rows ends: it is written, refused, replaced by a
\* later one or dropped with its table.
CopyEnds == \A id \in 1..MaxCopies :
    (pending # NoCopy /\ pending.id = id) ~> ~(pending # NoCopy /\ pending.id = id)

\* What the comments in refetchRows() promise: the worker never leaves it
\* without completing the copy, not even when the view is stale.
AlwaysCompletes ==
    [][\A v \in View :
         task[v] # Idle /\ task'[v] = Idle => Len(events') = Len(events) + 1]_vars

=============================================================================
