--------------------------- MODULE DataTableViewer ---------------------------
(***************************************************************************)
(* The GUI thread's half of paging (src/ui/data_table_viewer.cpp) together *)
(* with the source worker and the COUNT worker it drives.  The user turns  *)
(* pages, sorts, cancels a sort and loads other tables, all while earlier  *)
(* calls are still on their way; the handlers of the workers' signals keep *)
(* what is displayed, the pager and the source in step.                    *)
(***************************************************************************)
EXTENDS SourceWorker, StatusBar

CONSTANTS
    Kinds,      \* the kinds of table that may be loaded
    Selects,    \* the user selects cells
    Tables,     \* the tables, each the set of its rows
    MaxView,    \* bound: loads
    MaxOp       \* bound: page turns and sorts the user asks for in one load

ASSUME ViewerAssumption ==
    /\ Kinds \subseteq Kind
    /\ Selects \in BOOLEAN
    /\ Tables \subseteq SUBSET Row
    /\ "csv" \in Kinds => \A t \in Tables : t = 1..Cardinality(t)
    /\ MaxView \in Nat
    /\ MaxOp \in Nat

VARIABLES
    ui,             \* the viewer's own fields, a record
    shown,          \* the page in the renderer
    counts,         \* calls queued on the COUNT worker's thread: their view
    countEvents     \* countCompleted signals on their way

guiVars == <<ui, shown, counts, countEvents>>
vars == <<rows, viewGen, opGen, inbox, task, src, parked, events,
          ui, shown, counts, countEvents>>

-----------------------------------------------------------------------------
\* committed and pending are Unsorted when the code's optional is empty.
\* busy and bar are the page bar: its m_busy and its copy of the pager; status
\* is the status bar.
\* vanishedAt is not in the code: the rows there were when a page last came
\* back empty.
Viewer == [gen : Nat, paged : BOOLEAN, kind : Kind, worker : BOOLEAN,
           firstPending : BOOLEAN, sorting : BOOLEAN, recovering : BOOLEAN,
           canSort : BOOLEAN, orderValid : BOOLEAN, sortTotal : BOOLEAN,
           committed : Order, pending : Order, inFlight : BOOLEAN,
           countRequested : BOOLEAN, countFailed : BOOLEAN,
           pendingPage : Nat, pendingFromPrev : BOOLEAN,
           pager : Pager, token : Token, busy : BOOLEAN, bar : Pager,
           status : Bar, vanishedAt : Total]

\* What cancelPending() leaves of the fields, for the load numbered gen.  It does
\* not touch the page bar: that keeps what it was told until the next load tells
\* it anew, but is hidden meanwhile, which busy and bar stand for by being reset.
Reset(gen, status) ==
    [gen |-> gen, paged |-> FALSE, kind |-> "csv", worker |-> FALSE,
     firstPending |-> FALSE, sorting |-> FALSE, recovering |-> FALSE,
     canSort |-> FALSE, orderValid |-> TRUE, sortTotal |-> FALSE,
     committed |-> Unsorted, pending |-> Unsorted, inFlight |-> FALSE,
     countRequested |-> FALSE, countFailed |-> FALSE,
     pendingPage |-> 1, pendingFromPrev |-> FALSE,
     pager |-> FreshPager, token |-> NoToken, busy |-> FALSE, bar |-> FreshPager,
     status |-> SetSorting(status, FALSE), vanishedAt |-> NoTotal]

\* Mutant: the pager survives into the next load.
CancelledKeepsPager(gen) == [Reset(gen, ui.status) EXCEPT !.pager = ui.pager]

Cancelled(gen) == Reset(gen, ui.status)

\* The renderer: the rows of one page, for the load they belong to.
NothingShown == [view |-> 0, rows |-> <<>>]

HasCountWorker(u) == u.kind # "csv" /\ u.worker

Post(c) == inbox' = Append(inbox, c)

\* A page request of the current operation.
PageCall(op, gen, token, total) ==
    [NewCall(op, viewGen, gen, ui.kind) EXCEPT
        !.token = token, !.total = total]

SortCall(gen, order) == [NewCall("sort", viewGen, gen, ui.kind) EXCEPT !.sort = order]

\* finishSortRecovery and failSortRecovery.
FinishSortRecovery(u) ==
    [u EXCEPT !.sorting = FALSE, !.recovering = FALSE, !.busy = FALSE,
              !.status = SetSorting(@, FALSE)]

FailSortRecovery(u) ==
    [u EXCEPT !.orderValid = FALSE, !.canSort = FALSE, !.sorting = FALSE,
              !.recovering = FALSE, !.busy = TRUE,
              !.status = SetValueText(SetSorting(@, FALSE), Message)]

\* What recoverSort() leaves of the fields.
Recovering(u) ==
    [u EXCEPT !.pending = Unsorted, !.recovering = TRUE, !.inFlight = FALSE,
              !.status = SetSorting(@, FALSE)]

\* Mutant: goes back without reopening the source, as if a cancelled sort
\* had never been promoted.
RecoverSortInPlace(u) ==
    /\ ui' = FinishSortRecovery([u EXCEPT !.pending = Unsorted, !.inFlight = FALSE])
    /\ opGen' = opGen + 1
    /\ UNCHANGED inbox

\* Mutant: the reopening call still carries the generation of the sort.
RecoverSortStale(u) ==
    /\ ui' = Recovering(u)
    /\ opGen' = opGen + 1
    /\ Post(NewCall("open", viewGen, opGen, u.kind))

\* Mutant: the label that cancels a sort stays while the order is restored.
RecoverSortLabelled(u) ==
    /\ ui' = [Recovering(u) EXCEPT !.status = u.status]
    /\ opGen' = opGen + 1
    /\ Post(NewCall("open", viewGen, opGen', u.kind))

\* recoverSort: reopen the source, whatever order it was left in.
RecoverSort(u) ==
    /\ ui' = Recovering(u)
    /\ opGen' = opGen + 1
    /\ Post(NewCall("open", viewGen, opGen', u.kind))

\* cancelPending: both generations move on, the workers are told to shut down.
\* The callers then say something in the status bar.
CancelPending(status) ==
    /\ ui' = [Cancelled(ui.gen + 1) EXCEPT !.status = status]
    /\ viewGen' = viewGen + 1
    /\ opGen' = opGen + 1
    /\ inbox' = IF ui.worker THEN Append(inbox, NewCall("shutdown", viewGen, opGen, ui.kind))
                             ELSE inbox

-----------------------------------------------------------------------------
(* What the user does.                                                     *)

\* loadSelectedTable: the workers of the last load are retired and new ones
\* made, with generations of their own.
LoadSelectedTable ==
    /\ ui.gen < MaxView
    /\ \E kind \in Kinds :
         /\ ui' = [Cancelled(ui.gen + 1) EXCEPT !.paged = TRUE, !.firstPending = TRUE,
                                                !.worker = TRUE, !.kind = kind,
                                                !.status = ShowLoading(@)]
         /\ NewWorker(ui.gen + 1, 1, kind)
    /\ rows' \in Tables
    /\ shown' = NothingShown
    /\ counts' = <<>>
    /\ UNCHANGED <<events, countEvents>>

\* doLoadFile on a database: the table on display goes at once, the list of
\* tables has to be read before one of them is loaded.
LeaveTable ==
    /\ ui.paged
    /\ ui.gen < MaxView
    /\ CancelPending(ShowLoading(SetSorting(ui.status, FALSE)))
    /\ shown' = NothingShown
    /\ UNCHANGED <<rows, task, src, parked, events, counts, countEvents>>

\* onSortClicked.  The order to toggle is the one asked for last.
ClickSort ==
    /\ ui.paged /\ ui.canSort /\ ui.worker
    /\ ~ui.recovering
    /\ ui.inFlight => ui.sorting
    /\ opGen < MaxOp
    /\ \E column \in Column :
         LET previous == IF ui.pending # Unsorted THEN ui.pending ELSE ui.committed
             order == [column |-> column,
                       ascending |-> ~(previous.column = column /\ previous.ascending)]
         IN  /\ ui' = [ui EXCEPT !.pending = order, !.sorting = TRUE, !.busy = TRUE,
                                  !.status = SetSorting(@, TRUE)]
             /\ Post(SortCall(opGen + 1, order))
    /\ opGen' = opGen + 1
    /\ UNCHANGED <<rows, viewGen, task, src, parked, events, shown, counts, countEvents>>

\* onSortClicked where nothing can be sorted, or not yet.
ClickUnsortable ==
    /\ ui.paged /\ ~ui.canSort
    /\ ui' = [ui EXCEPT !.status = SetValueText(@, Message)]
    /\ UNCHANGED <<workerVars, shown, counts, countEvents>>

\* The renderer's current cell changes; it is none when a filter hides it.
SelectCell ==
    /\ Selects
    /\ shown.rows # <<>>
    /\ \/ ui' = [ui EXCEPT !.status = SetValueText(@, CellText)]
       \/ ui' = [ui EXCEPT !.status = RestoreInfo(@)]
    /\ UNCHANGED <<workerVars, shown, counts, countEvents>>

CancelSort ==
    /\ ui.sorting /\ ~ui.recovering
    /\ RecoverSort(ui)
    /\ UNCHANGED <<rows, viewGen, task, src, parked, events, shown, counts, countEvents>>

MayNavigate ==
    ui.paged /\ ui.orderValid /\ ~ui.sorting /\ ~ui.inFlight /\ ui.worker

\* navigatePage, with the call its fetchFunc posts.
NavigatePage(op, page, fromPrev, total) ==
    /\ MayNavigate
    /\ opGen < MaxOp
    /\ ui' = [ui EXCEPT !.inFlight = TRUE, !.busy = TRUE,
                        !.pendingPage = page, !.pendingFromPrev = fromPrev]
    /\ opGen' = opGen + 1
    /\ Post(PageCall(op, opGen', ui.token, total))
    /\ UNCHANGED <<rows, viewGen, task, src, parked, events, shown, counts, countEvents>>

FirstPageClicked ==
    CanFirst(ui.pager) /\ NavigatePage("first", 1, FALSE, NoTotal)
PrevPageClicked ==
    CanPrev(ui.pager) /\ NavigatePage("prev", ui.pager.page - 1, TRUE, NoTotal)
NextPageClicked ==
    CanNext(ui.pager) /\ NavigatePage("next", ui.pager.page + 1, FALSE, NoTotal)
LastPageClicked ==
    /\ CanLast(ui.pager)
    /\ NavigatePage("last", PageCount(ui.pager.total), FALSE, ui.pager.total)

UserNext ==
    \/ LoadSelectedTable
    \/ LeaveTable
    \/ ClickSort
    \/ ClickUnsortable
    \/ CancelSort
    \/ SelectCell
    \/ FirstPageClicked
    \/ PrevPageClicked
    \/ NextPageClicked
    \/ LastPageClicked

-----------------------------------------------------------------------------
(* The signals of the source worker, read in the order they were posted.   *)

\* Mutant: an answer to an operation that was replaced is taken as well.
IsCurrentOfLoad(e) ==
    /\ ui.paged
    /\ e.view = ui.gen
    /\ e.sig = "indexProgress" => ui.kind = "csv"

\* A signal of the load and the operation the viewer is waiting for.
IsCurrent(e) ==
    /\ ui.paged
    /\ e.view = ui.gen
    /\ IF e.sig = "indexProgress" THEN ui.kind = "csv" ELSE e.gen = opGen

Receive(sig) ==
    /\ events # <<>>
    /\ Head(events).sig = sig
    /\ IsCurrent(Head(events))
    /\ events' = Tail(events)
    /\ UNCHANGED <<rows, task, src, parked, countEvents>>

\* Every handler returns at once for a signal of an earlier load or operation.
IgnoreStaleSignal ==
    /\ events # <<>>
    /\ ~IsCurrent(Head(events))
    /\ events' = Tail(events)
    /\ UNCHANGED <<rows, viewGen, opGen, inbox, task, src, parked, guiVars>>

OnOpenFailed ==
    /\ Receive("openCompleted")
    /\ ~ui.recovering
    /\ ~Head(events).ok
    /\ CancelPending(SetValueText(ClearBar, Message))
    /\ UNCHANGED <<shown, counts>>

OnOpened ==
    /\ Receive("openCompleted")
    /\ ~ui.recovering
    /\ Head(events).ok
    /\ ui' = [ui EXCEPT
                !.canSort = Head(events).canSort,
                !.pager = [FreshPager EXCEPT !.total = ui.pager.total,
                                             !.hasMore = ui.pager.total > PageSize],
                !.pendingPage = 1, !.pendingFromPrev = FALSE,
                !.inFlight = TRUE, !.busy = TRUE]
    /\ Post(PageCall("first", opGen, NoToken, NoTotal))
    /\ UNCHANGED <<viewGen, opGen, shown, counts>>

\* Back from a sort that was cancelled or failed: the source is open again,
\* and the order on display, if there is one, has to be restored in it.
OnReopened ==
    /\ Receive("openCompleted")
    /\ ui.recovering
    /\ LET u == [ui EXCEPT !.canSort = Head(events).canSort]
       IN  \/ /\ ~Head(events).ok
              /\ ui' = FailSortRecovery(u)
              /\ UNCHANGED inbox
           \/ /\ Head(events).ok
              /\ ui.committed # Unsorted
              /\ ui' = u
              /\ Post(SortCall(opGen, ui.committed))
           \/ /\ Head(events).ok
              /\ ui.committed = Unsorted
              /\ ui' = FinishSortRecovery(u)
              /\ UNCHANGED inbox
    /\ UNCHANGED <<viewGen, opGen, shown, counts>>

\* The fields once the page asked for is there.
Arrived(e) ==
    LET more == IF ui.pager.total # NoTotal
                THEN ui.pager.total > ui.pendingPage * PageSize
                ELSE e.hasMore
        p == [ui.pager EXCEPT !.page = ui.pendingPage, !.fromPrev = ui.pendingFromPrev,
                              !.hasMore = more]
        committing == ui.sorting /\ ~ui.recovering
        u == [ui EXCEPT !.inFlight = FALSE, !.busy = FALSE, !.firstPending = FALSE,
                        !.pager = p, !.bar = p, !.token = e.token,
                        !.status = SetPagedLoadInfo(@, p.page, p.total)]
    IN  IF committing
        THEN FinishSortRecovery([u EXCEPT !.committed = ui.pending, !.pending = Unsorted])
        ELSE u

\* COUNT is started once a load, unless a total is known by then.
WantsCount(u) ==
    /\ HasCountWorker(u)
    /\ ~u.countRequested /\ ~u.countFailed
    /\ u.pager.total = NoTotal

\* A page beyond the end: rows were deleted behind the viewer's back.  The page
\* on display stays and a new COUNT is to correct the pager.
Vanished(e) == e.ok /\ ~ui.firstPending /\ ~ui.sorting /\ e.rows = <<>>

OnPageReady ==
    /\ Receive("pageReady")
    /\ LET e == Head(events)
           u == Arrived(e)
       IN  /\ e.ok
           /\ ~Vanished(e)
           /\ ui' = [u EXCEPT !.countRequested = @ \/ WantsCount(u)]
           /\ shown' = [view |-> ui.gen, rows |-> e.rows]
           /\ counts' = IF WantsCount(u) THEN Append(counts, viewGen) ELSE counts
    /\ UNCHANGED <<viewGen, opGen, inbox>>

\* Mutant: the total of an earlier sort still outranks the new count.
RecountingKeepsSortTotal(u) == [u EXCEPT !.countRequested = TRUE]

Recounting(u) == [u EXCEPT !.sortTotal = FALSE, !.countRequested = TRUE]

OnPageVanished ==
    /\ Receive("pageReady")
    /\ Vanished(Head(events))
    /\ LET p == [ui.pager EXCEPT !.hasMore = FALSE]
           recount == HasCountWorker(ui) /\ ~ui.countFailed
           u == [ui EXCEPT !.inFlight = FALSE, !.busy = FALSE, !.pager = p, !.bar = p,
                           !.status = SetValueText(@, Message),
                           !.vanishedAt = Cardinality(rows)]
       IN  /\ ui' = IF recount THEN Recounting(u) ELSE u
           /\ counts' = IF recount THEN Append(counts, viewGen) ELSE counts
    /\ UNCHANGED <<viewGen, opGen, inbox, shown>>

OnPageFailed ==
    /\ Receive("pageReady")
    /\ ~Head(events).ok
    /\ LET u == [ui EXCEPT !.inFlight = FALSE, !.busy = FALSE]
       IN  \/ /\ ui.sorting
              /\ RecoverSort(u)
           \/ /\ ~ui.sorting
              /\ ui' = [u EXCEPT !.pendingPage = ui.pager.page,
                                 !.status = SetValueText(@, Message)]
              /\ UNCHANGED <<opGen, inbox>>
    /\ UNCHANGED <<viewGen, shown, counts>>

OnSortCompleted ==
    /\ Receive("sortCompleted")
    /\ LET e == Head(events)
       IN  \/ /\ ui.recovering
              /\ ui' = IF e.ok THEN FinishSortRecovery(ui) ELSE FailSortRecovery(ui)
              /\ UNCHANGED <<opGen, inbox>>
           \/ /\ ~ui.recovering /\ ~e.ok
              /\ RecoverSort([ui EXCEPT !.status = SetValueText(@, Message)])
           \/ /\ ~ui.recovering /\ e.ok
              /\ ui' = [ui EXCEPT !.sortTotal = TRUE, !.pager.total = e.total,
                                  !.pendingPage = 1, !.pendingFromPrev = FALSE,
                                  !.inFlight = TRUE]
              /\ Post(PageCall("first", opGen, NoToken, NoTotal))
              /\ UNCHANGED opGen
    /\ UNCHANGED <<viewGen, shown, counts>>

\* Mutant: the page bar is left as it is.
IndexedQuietly(u, total) ==
    [u EXCEPT !.pager.total = total, !.pager.hasMore = total > u.pager.page * PageSize,
              !.status = UpdatePagedTotal(@, total)]

\* The end of the file was reached: its number of records is the total.
Indexed(u, total) ==
    LET p == [u.pager EXCEPT !.total = total, !.hasMore = total > u.pager.page * PageSize]
    IN  [u EXCEPT !.pager = p, !.bar = IF u.firstPending THEN @ ELSE p,
                  !.status = UpdatePagedTotal(@, total)]

OnIndexProgress ==
    /\ Receive("indexProgress")
    /\ LET e == Head(events)
       IN  ui' = IF ~e.ok THEN [ui EXCEPT !.status = SetIndexingFailed(@)]
                 ELSE IF e.complete THEN Indexed(ui, e.total)
                 ELSE [ui EXCEPT !.status = SetIndexingProgress(@, e.total)]
    /\ UNCHANGED <<viewGen, opGen, inbox, shown, counts>>

-----------------------------------------------------------------------------
(* The COUNT worker, and its signal.                                       *)

\* Mutant: a count that failed says -1.
CountResultMinusOne(ok) ==
    [view |-> viewGen, ok |-> ok, total |-> IF ok THEN Cardinality(rows) ELSE -1]

CountResult(ok) ==
    [view |-> viewGen, ok |-> ok, total |-> IF ok THEN Cardinality(rows) ELSE 0]

\* A count of a retired load ends without a signal.
Count ==
    /\ counts # <<>>
    /\ counts' = Tail(counts)
    /\ \/ /\ Head(counts) # viewGen
          /\ UNCHANGED countEvents
       \/ /\ Head(counts) = viewGen
          /\ \E ok \in BOOLEAN : countEvents' = Append(countEvents, CountResult(ok))
    /\ UNCHANGED <<workerVars, ui, shown>>

Counted(u, total) ==
    LET p == [u.pager EXCEPT !.total = total]
    IN  [u EXCEPT !.pager = p, !.bar = p, !.status = UpdatePagedTotal(@, total)]

\* The total of a sort outranks a count.
OnCountCompleted ==
    /\ countEvents # <<>>
    /\ countEvents' = Tail(countEvents)
    /\ LET e == Head(countEvents)
       IN  ui' = IF e.view # ui.gen \/ ~ui.paged THEN ui
                 ELSE IF ~e.ok THEN [ui EXCEPT !.countFailed = TRUE,
                                               !.status = SetWarning(@, "count")]
                 ELSE IF ui.sortTotal THEN ui
                 ELSE Counted(ui, e.total)
    /\ UNCHANGED <<workerVars, shown, counts>>

SignalNext ==
    \/ IgnoreStaleSignal
    \/ OnOpenFailed
    \/ OnOpened
    \/ OnReopened
    \/ OnPageReady
    \/ OnPageVanished
    \/ OnPageFailed
    \/ OnSortCompleted
    \/ OnIndexProgress

-----------------------------------------------------------------------------
Init ==
    /\ WorkerInit
    /\ ui = Reset(0, EmptyBar)
    /\ shown = NothingShown
    /\ counts = <<>>
    /\ countEvents = <<>>

WorkerStep == WorkerNext /\ UNCHANGED guiVars

Next ==
    \/ UserNext
    \/ SignalNext
    \/ WorkerStep
    \/ Count
    \/ OnCountCompleted

\* The same, in a database that others write to.
SharedNext ==
    \/ Next
    \/ DeleteRow /\ UNCHANGED guiVars

\* Three event loops that keep running.  Nothing is assumed of the user.
Fairness ==
    /\ WF_vars(WorkerStep)
    /\ WF_vars(SignalNext)
    /\ WF_vars(Count)
    /\ WF_vars(OnCountCompleted)

Spec == Init /\ [][Next]_vars /\ Fairness

SharedSpec == Init /\ [][SharedNext]_vars /\ Fairness

-----------------------------------------------------------------------------
\* The fields keep their types; the rows on display come from the table.
TypeOK ==
    /\ WorkerTypeOK
    /\ ui \in Viewer
    /\ shown \in [view : Nat, rows : Seq(Nat)]
    /\ counts \in Seq(Nat)
    /\ countEvents \in Seq([view : Nat, ok : BOOLEAN, total : Nat])

\* A page of the loaded table is on display, and no call is under way whose
\* answer may change it.
OnDisplay == ui.paged /\ shown.view = ui.gen
Settled == OnDisplay /\ ~ui.inFlight /\ ~ui.sorting

PageOf(order, page) ==
    LET all == Ranked(rows, order)
        first == FirstRowOnPage(page)
    IN  AtMost(SubSeq(all, first, Len(all)), PageSize)

\* What the user reads off the window is true: the rows on display are the
\* rows of the page number in the pager, in the order the header shows.  Late
\* answers, cancelled sorts and tokens cut in another order all threaten it.
\* A file whose index failed is served as far as it was indexed: that page may
\* end early.  Nobody writes to the table meanwhile.
PageShowsItsRows ==
    OnDisplay =>
        LET page == PageOf(ui.committed, ui.pager.page)
        IN  \/ shown.rows = page
            \/ src.failed /\ shown.rows = AtMost(page, Len(shown.rows))

\* Whenever no sort is under way, the order in the source is the order the
\* viewer believes it is in, so a page turn goes on from the page on display
\* (recoverSort; m_sourceOrderValid is given up where that cannot be had).
IdleSourceOrder ==
    ui.paged /\ ~ui.sorting /\ ui.orderValid => src.order = ui.committed

\* Next page is offered exactly when rows follow the page on display, whether
\* the pager knows a total, trusts the source's hasMore, or has come backwards
\* (PagerState::canNext).  A file whose index has not reached the end may turn
\* out to have no more records, so there only one direction holds.
NextHonest ==
    Settled /\ ui.orderValid =>
        /\ ui.pager.page * PageSize < Cardinality(rows) => CanNext(ui.pager)
        /\ CanNext(ui.pager) /\ ui.kind # "csv" =>
               ui.pager.page * PageSize < Cardinality(rows)

\* A total, wherever it came from (COUNT, sort, end of the index), is the
\* number of rows: onLastPageClicked and pages() compute with it.
TotalIsExact ==
    ui.paged /\ ui.pager.total # NoTotal => ui.pager.total = Cardinality(rows)

\* The page bar shows the total the viewer knows once nothing is counted or
\* indexed any more (docs/SPEC.md, PageBar Controls).
TotalDisplayed ==
    Settled /\ counts = <<>> /\ countEvents = <<>> /\ events = <<>> =>
        ui.bar.total = ui.pager.total

\* What the status line says of the page is what the pager knows: the page and
\* the total of a summary are those of now, wherever the last of the two came
\* from (updatePagedTotal compares texts to find out whether to replace one).
SummaryIsCurrent ==
    OnDisplay /\ ui.status.text.kind = "summary" =>
        /\ ui.status.text.page = ui.pager.page
        /\ ui.status.text.total = ui.pager.total

\* Once the index has ended and its signals are read, a window that shows a
\* page neither says that records are being loaded nor shows the progress bar,
\* whether the last of the file or the first page came first.
LoadingTextEnds ==
    /\ OnDisplay /\ events = <<>>
    /\ ui.kind = "csv" => IndexEnded(src)
    => ui.status.text.kind # "loading" /\ ~ui.status.progress

\* A cell the user selected stays on the status line: progress of the index, a
\* count or the end of the file never put their text in its place (the comments
\* in updatePagedTotal and setIndexingProgress).  A new page, bad news and the
\* user do.
CellTextKept ==
    [][ui.status.text.kind = "cell" =>
            \/ ui'.status.text.kind \in {"cell", "failed", "message"}
            \/ shown' # shown \/ ui'.gen # ui.gen \/ ui'.token # ui.token
            \/ SelectCell]_vars

\* The label a click on which cancels the sort is there exactly as long as the
\* sort can be cancelled (StatusBar::setSorting, cancelSort).
SortingLabel == ui.status.sorting <=> ui.sorting /\ ~ui.recovering

\* Rows on display never repeat or go backwards, even in a table others delete
\* from: a page comes from one query in one order.
ShownInOrder ==
    OnDisplay => \A i, j \in DOMAIN shown.rows :
        i < j => Precedes(ui.committed, shown.rows[i], shown.rows[j])

\* After a page vanished the count is taken again, and its result, not one
\* that was taken before, is what the pager ends up with.
RecountIsFresh ==
    /\ ui.paged /\ ui.vanishedAt # NoTotal /\ HasCountWorker(ui)
    /\ counts = <<>> /\ countEvents = <<>> /\ ~ui.countFailed
    => ui.pager.total # NoTotal /\ ui.pager.total <= ui.vanishedAt

\* The window never stays busy: a page turn or a sort ends, with its answer,
\* with a failure or with the table being left, however it was interrupted.
BusyEnds == (ui.inFlight \/ ui.sorting) ~> ~(ui.inFlight \/ ui.sorting)

\* A page comes back empty only when rows were taken away after the table was
\* opened (the comment in the pageReady handler of loadSelectedTable).
VanishedMeansModified ==
    ui.paged /\ ui.vanishedAt # NoTotal => rows # src.asOpened

=============================================================================
