---------------------------- MODULE ViewerProofs ----------------------------
(***************************************************************************)
(* The viewer together with its workers, for tables of every size, every   *)
(* page size and every number of requests, and whether or not others       *)
(* delete rows meanwhile (SharedNext has every step of Next): the types of *)
(* what they keep, what belongs to which load, the sorting label, the      *)
(* requests on their way, the order of the rows and the recount.           *)
(***************************************************************************)
EXTENDS ViewerInvariant, SourceProofs

-----------------------------------------------------------------------------
(* Types of what the status bar's operations build.                        *)

\* Texts, the empty bar and the one that says "Loading".
LEMMA TextTypes ==
    /\ NoText \in Text /\ IndexingError \in Text /\ CellText \in Text /\ Message \in Text
    /\ EmptyBar \in Bar /\ ClearBar \in Bar
    /\ \A n \in Total : LoadingRecords(n) \in Text
BY DEF NoText, IndexingError, CellText, Message, LoadingRecords, Plain, Text, Total, NoTotal,
       Warning, EmptyBar, ClearBar, Bar

\* A text put on the line, and the sorting label.
LEMMA SetterTypes ==
    ASSUME NEW b \in Bar, NEW text \in Text, NEW sorting \in BOOLEAN
    PROVE  /\ SetValueText(b, text) \in Bar
           /\ SetSorting(b, sorting) \in Bar
           /\ HideUnlessIndexing(b) \in Bar
           /\ ShowLoading(b) \in Bar
           /\ OwnText(b) \in Text
BY TextTypes DEF SetValueText, SetSorting, HideUnlessIndexing, ShowLoading, OwnText, Bar

\* The summary of the page.
LEMMA RebuildType ==
    ASSUME NEW b \in Bar
    PROVE  RebuildPagedTexts(b) \in Bar
<1>1. [Plain("summary") EXCEPT !.page = b.page, !.total = b.total] \in Text
  BY DEF Plain, Text, Warning, Bar
<1> QED
  BY <1>1 DEF RebuildPagedTexts, Bar, Warning

\* A warning folded into it.
LEMMA WarningType ==
    ASSUME NEW b \in Bar, NEW warning \in Warning
    PROVE  SetWarning(b, warning) \in Bar
<1>1. [b.summary EXCEPT !.warning = warning] \in Text
  BY DEF Text, Bar
<1> DEFINE summary == [b.summary EXCEPT !.warning = warning]
<1> HIDE DEF summary
<1>2. [b EXCEPT !.applied = warning, !.summary = summary,
                !.text = IF b.text \in {NoText, b.summary} THEN summary ELSE b.text] \in Bar
  BY <1>1 DEF summary, Bar
<1> QED
  BY <1>2 DEF SetWarning, summary

\* A page that has arrived.
LEMMA LoadInfoType ==
    ASSUME NEW b \in Bar, NEW page \in Nat, NEW total \in Total
    PROVE  SetPagedLoadInfo(b, page, total) \in Bar
<1> DEFINE told == RebuildPagedTexts([b EXCEPT !.page = page, !.total = total, !.hasInfo = TRUE])
<1>1. [b EXCEPT !.page = page, !.total = total, !.hasInfo = TRUE] \in Bar
  BY DEF Bar
<1>2. told \in Bar
  BY <1>1, RebuildType
<1> HIDE DEF told
<1>3. SetWarning(told, b.error) \in Bar
  <2>1. b.error \in Warning
    BY DEF Bar, Warning
  <2> QED
    BY <1>2, <2>1, WarningType
<1> DEFINE warned == SetWarning(told, b.error)
<1> HIDE DEF warned
<1>4. SetValueText(warned, OwnText(warned)) \in Bar
  <2>1. warned \in Bar /\ OwnText(warned) \in Text
    BY <1>3, SetterTypes, TextTypes DEF warned
  <2> QED
    BY <2>1, SetterTypes
<1>5. HideUnlessIndexing(SetValueText(warned, OwnText(warned))) \in Bar
  BY <1>4, SetterTypes, TextTypes
<1> QED
  BY <1>5 DEF SetPagedLoadInfo, told, warned

\* The total, from a count or the end of the index.
LEMMA PagedTotalType ==
    ASSUME NEW b \in Bar, NEW total \in Total
    PROVE  UpdatePagedTotal(b, total) \in Bar
<1> DEFINE ended == [b EXCEPT !.indexing = FALSE, !.indexingText = NoText, !.error = "none"]
           retold == [ended EXCEPT !.total = total, !.progress = FALSE]
           told == RebuildPagedTexts(retold)
<1>1. ended \in Bar
  BY TextTypes DEF Bar
<1> HIDE DEF ended
<1>2. retold \in Bar
  BY <1>1 DEF Bar
<1> HIDE DEF retold
<1>3. told \in Bar
  BY <1>2, RebuildType
<1> HIDE DEF told
<1>4. told.summary \in Text
  BY <1>3 DEF Bar
<1>5. SetValueText(told, told.summary) \in Bar
  BY <1>3, <1>4, SetterTypes
<1> QED
  BY <1>1, <1>3, <1>5 DEF UpdatePagedTotal, ended, retold, told

\* Progress of the index, and its failure.
LEMMA IndexingTypes ==
    ASSUME NEW b \in Bar, NEW n \in Total
    PROVE  SetIndexingProgress(b, n) \in Bar /\ SetIndexingFailed(b) \in Bar
<1>1. LoadingRecords(n) \in Text /\ NoText \in Text /\ IndexingError \in Text
  BY TextTypes
<1>2. SetIndexingProgress(b, n) \in Bar
  <2> DEFINE line == IF b.text \in {NoText, b.summary, b.indexingText} THEN LoadingRecords(n) ELSE b.text
  <2>1. line \in Text
    BY <1>1 DEF Bar
  <2> HIDE DEF line
  <2>2. [b EXCEPT !.indexing = TRUE, !.indexingText = LoadingRecords(n), !.progress = TRUE,
                  !.text = line] \in Bar
    BY <1>1, <2>1 DEF Bar
  <2> QED
    BY <2>2 DEF SetIndexingProgress, line
<1>3. SetIndexingFailed(b) \in Bar
  <2> DEFINE failed == [b EXCEPT !.indexing = FALSE, !.indexingText = NoText, !.error = "index",
                                 !.progress = FALSE]
  <2>1. failed \in Bar
    BY <1>1 DEF Bar
  <2> HIDE DEF failed
  <2>2. SetWarning(failed, "index") \in Bar
    BY <2>1, WarningType DEF Warning
  <2>3. \A x \in Bar : SetValueText(x, IndexingError) \in Bar
    BY <1>1, SetterTypes
  <2> QED
    BY <2>1, <2>2, <2>3 DEF SetIndexingFailed, failed
<1> QED
  BY <1>2, <1>3

\* What is on the line once no cell is selected.
LEMMA RestoreType ==
    ASSUME NEW b \in Bar
    PROVE  RestoreInfo(b) \in Bar
<1>1. (IF b.hasInfo THEN OwnText(b) ELSE NoText) \in Text
  BY SetterTypes, TextTypes
<1>2. SetValueText(b, IF b.hasInfo THEN OwnText(b) ELSE NoText) \in Bar
  BY <1>1, SetterTypes
<1>3. HideUnlessIndexing(SetValueText(b, IF b.hasInfo THEN OwnText(b) ELSE NoText)) \in Bar
  BY <1>2, SetterTypes, TextTypes
<1> QED
  BY <1>3 DEF RestoreInfo

-----------------------------------------------------------------------------
(* Types of the viewer's fields.                                           *)

\* Constants of the fields.
LEMMA FieldTypes ==
    /\ Unsorted \in Order /\ NoToken \in Token /\ NoTotal \in Total /\ FreshPager \in Pager
    /\ 0 \in Total /\ Nat \subseteq Total
BY DEF Order, NoToken, Token, NoTotal, Total, FreshPager, Pager

\* The fields a load starts with.
LEMMA ResetType ==
    ASSUME NEW gen \in Nat, NEW status \in Bar
    PROVE  Reset(gen, status) \in Viewer
<1>1. SetSorting(status, FALSE) \in Bar
  BY SetterTypes, TextTypes
<1> QED
  BY <1>1, FieldTypes DEF Reset, Viewer, Kind

\* The fields after a sort, however it ended.
LEMMA RecoveryTypes ==
    ASSUME NEW u \in Viewer
    PROVE  /\ FinishSortRecovery(u) \in Viewer
           /\ FailSortRecovery(u) \in Viewer
           /\ Recovering(u) \in Viewer
<1>1. u.status \in Bar
  BY DEF Viewer
<1>2. /\ SetSorting(u.status, FALSE) \in Bar
      /\ SetValueText(SetSorting(u.status, FALSE), Message) \in Bar
  BY <1>1, SetterTypes, TextTypes
<1> QED
  BY <1>2, FieldTypes DEF FinishSortRecovery, FailSortRecovery, Recovering, Viewer

\* Going back to the order on display.
LEMMA RecoverSortType ==
    ASSUME NEW u \in Viewer, WorkerTypeOK, RecoverSort(u)
    PROVE  ui' \in Viewer /\ opGen' \in Nat /\ inbox' \in Seq(Call)
<1>1. opGen' = opGen + 1 /\ opGen' \in Nat /\ viewGen \in Nat /\ inbox \in Seq(Call)
  BY DEF RecoverSort, WorkerTypeOK
<1>2. NewCall("open", viewGen, opGen', u.kind) \in Call
  <2>1. u.kind \in Kind
    BY DEF Viewer
  <2> QED
    BY <1>1, <2>1, NewCallType DEF Ops
<1>3. inbox' \in Seq(Call)
  BY <1>1, <1>2, QueueAppend DEF RecoverSort, Post
<1> QED
  BY <1>1, <1>3, RecoveryTypes DEF RecoverSort

\* The calls the viewer posts.
LEMMA PageCallType ==
    ASSUME NEW op \in PageOps, NEW gen \in Nat, NEW token \in Token, NEW total \in Total,
           viewGen \in Nat, ui \in Viewer
    PROVE  PageCall(op, gen, token, total) \in Call
<1>1. ui.kind \in Kind
  BY DEF Viewer
<1>2. NewCall(op, viewGen, gen, ui.kind) \in Call
  BY <1>1, NewCallType DEF Ops
<1> QED
  BY <1>2 DEF PageCall, Call

\* And its sorts.
LEMMA SortCallType ==
    ASSUME NEW gen \in Nat, NEW order \in Order, viewGen \in Nat, ui \in Viewer
    PROVE  SortCall(gen, order) \in Call
<1>1. ui.kind \in Kind
  BY DEF Viewer
<1>2. NewCall("sort", viewGen, gen, ui.kind) \in Call
  BY <1>1, NewCallType DEF Ops
<1> QED
  BY <1>2 DEF SortCall, Call

\* A page that has arrived.
LEMMA ArrivedType ==
    ASSUME ui \in Viewer, NEW e \in Event
    PROVE  Arrived(e) \in Viewer
<1> DEFINE more == IF ui.pager.total # NoTotal
                   THEN ui.pager.total > ui.pendingPage * PageSize
                   ELSE e.hasMore
           p == [ui.pager EXCEPT !.page = ui.pendingPage, !.fromPrev = ui.pendingFromPrev,
                                 !.hasMore = more]
           status == SetPagedLoadInfo(ui.status, p.page, p.total)
           u == [ui EXCEPT !.inFlight = FALSE, !.busy = FALSE, !.firstPending = FALSE,
                           !.pager = p, !.bar = p, !.token = e.token,
                           !.status = status]
           committed == [u EXCEPT !.committed = ui.pending, !.pending = Unsorted]
<1>1. /\ ui.pager \in Pager /\ ui.pendingPage \in Nat /\ ui.pendingFromPrev \in BOOLEAN
      /\ ui.status \in Bar /\ ui.pending \in Order /\ e.token \in Token /\ e.hasMore \in BOOLEAN
  BY DEF Viewer, Event
<1>2. more \in BOOLEAN
  <2>1. CASE ui.pager.total # NoTotal
    BY <2>1
  <2>2. CASE ui.pager.total = NoTotal
    BY <1>1, <2>2
  <2> QED
    BY <2>1, <2>2
<1> HIDE DEF more
<1>3. p \in Pager /\ p.page \in Nat /\ p.total \in Total
  BY <1>1, <1>2 DEF Pager
<1> HIDE DEF p
<1>4. status \in Bar
  BY <1>1, <1>3, LoadInfoType
<1> HIDE DEF status
<1>5. u \in Viewer
  BY <1>1, <1>3, <1>4 DEF Viewer
<1> HIDE DEF u
<1>6. committed \in Viewer
  BY <1>1, <1>5, FieldTypes DEF Viewer
<1> HIDE DEF committed
<1>7. FinishSortRecovery(committed) \in Viewer
  BY <1>6, RecoveryTypes
<1>8. Arrived(e) = IF ui.sorting /\ ~ui.recovering THEN FinishSortRecovery(committed) ELSE u
  BY DEF Arrived, more, p, status, u, committed
<1> QED
  BY <1>5, <1>7, <1>8

-----------------------------------------------------------------------------
(* TypeOK is inductive by itself.                                          *)

\* A handler that leaves the table and the source alone.
LEMMA QueuesType ==
    ASSUME WorkerTypeOK, UNCHANGED <<rows, task, src, parked>>,
           viewGen' \in Nat, opGen' \in Nat, inbox' \in Seq(Call), events' \in Seq(Event)
    PROVE  WorkerTypeOK'
BY DEF WorkerTypeOK, IndexEnded, Broken

\* Parts of the state with the types TypeOK gives them.
LEMMA StateTypes ==
    ASSUME TypeOK
    PROVE  /\ WorkerTypeOK /\ ui \in Viewer
           /\ viewGen \in Nat /\ opGen \in Nat /\ inbox \in Seq(Call) /\ events \in Seq(Event)
           /\ ui.gen \in Nat /\ ui.kind \in Kind /\ ui.status \in Bar /\ ui.pager \in Pager
           /\ ui.pager.page \in Nat /\ ui.pager.total \in Total /\ ui.bar \in Pager
           /\ ui.token \in Token /\ ui.committed \in Order /\ ui.pending \in Order
           /\ ui.pendingPage \in Nat
           /\ shown \in [view : Nat, rows : Seq(Nat)]
           /\ counts \in Seq(Nat)
           /\ countEvents \in Seq([view : Nat, ok : BOOLEAN, total : Nat])
BY DEF TypeOK, WorkerTypeOK, Viewer, Pager

\* The signal being handled.
LEMMA HeadType ==
    ASSUME TypeOK, events # <<>>
    PROVE  /\ Head(events) \in Event
           /\ Head(events).ok \in BOOLEAN /\ Head(events).canSort \in BOOLEAN
           /\ Head(events).hasMore \in BOOLEAN /\ Head(events).complete \in BOOLEAN
           /\ Head(events).total \in Total /\ Head(events).token \in Token
           /\ Head(events).rows \in Seq(Nat)
           /\ Tail(events) \in Seq(Event)
<1>1. Head(events) \in Event /\ Tail(events) \in Seq(Event)
  BY StateTypes, QueueTail
<1> QED
  BY <1>1 DEF Event

\* An empty window.
LEMMA NothingShownType == NothingShown \in [view : Nat, rows : Seq(Nat)]
<1>1. <<>> \in Seq(Nat)
  OBVIOUS
<1> QED
  BY <1>1 DEF NothingShown

\* cancelPending().
LEMMA CancelPendingType ==
    ASSUME TypeOK, NEW status \in Bar, CancelPending(status)
    PROVE  ui' \in Viewer /\ viewGen' \in Nat /\ opGen' \in Nat /\ inbox' \in Seq(Call)
<1>1. Cancelled(ui.gen + 1) \in Viewer
  BY StateTypes, ResetType DEF Cancelled
<1>2. ui' \in Viewer
  BY <1>1 DEF CancelPending, Viewer
<1>3. NewCall("shutdown", viewGen, opGen, ui.kind) \in Call
  BY StateTypes, NewCallType DEF Ops
<1>4. inbox' \in Seq(Call)
  BY <1>3, StateTypes, QueueAppend DEF CancelPending
<1> QED
  BY <1>2, <1>4, StateTypes DEF CancelPending

\* Loading a table.
LEMMA LoadSelectedTableType == TypeOK /\ LoadSelectedTable => TypeOK'
<1> SUFFICES ASSUME TypeOK, LoadSelectedTable PROVE TypeOK'
  OBVIOUS
<1>1. PICK kind \in Kinds :
         /\ ui' = [Cancelled(ui.gen + 1) EXCEPT !.paged = TRUE, !.firstPending = TRUE,
                                                !.worker = TRUE, !.kind = kind,
                                                !.status = ShowLoading(Cancelled(ui.gen + 1).status)]
         /\ NewWorker(ui.gen + 1, 1, kind)
  BY DEF LoadSelectedTable, Cancelled, Reset
<1>2. Cancelled(ui.gen + 1) \in Viewer
  BY StateTypes, ResetType DEF Cancelled
<1>3. ui' \in Viewer
  <2> DEFINE u == Cancelled(ui.gen + 1)
             loading == ShowLoading(u.status)
  <2>1. loading \in Bar
    BY <1>2, SetterTypes, TextTypes DEF Viewer
  <2> HIDE DEF loading
  <2>2. kind \in Kind
    BY ViewerAssumption
  <2> HIDE DEF u
  <2>3. u \in Viewer
    BY <1>2 DEF u
  <2>4. [u EXCEPT !.paged = TRUE, !.firstPending = TRUE, !.worker = TRUE, !.kind = kind,
                  !.status = loading] \in Viewer
    BY <2>1, <2>2, <2>3 DEF Viewer
  <2> QED
    BY <1>1, <2>4 DEF u, loading
<1>4. WorkerTypeOK'
  <2>1. rows' \in SUBSET Row /\ UNCHANGED events /\ kind \in Kind /\ ui.gen + 1 \in Nat
    BY StateTypes, ViewerAssumption DEF LoadSelectedTable
  <2> QED
    BY <1>1, <2>1, StateTypes, NewWorkerType
<1>5. shown' \in [view : Nat, rows : Seq(Nat)] /\ counts' \in Seq(Nat) /\ UNCHANGED countEvents
  BY NothingShownType DEF LoadSelectedTable
<1> QED
  BY <1>3, <1>4, <1>5, StateTypes DEF TypeOK

\* Leaving the table on display.
LEMMA LeaveTableType == TypeOK /\ LeaveTable => TypeOK'
<1> SUFFICES ASSUME TypeOK, LeaveTable PROVE TypeOK'
  OBVIOUS
<1>1. ShowLoading(SetSorting(ui.status, FALSE)) \in Bar
  BY StateTypes, SetterTypes, TextTypes
<1>2. ui' \in Viewer /\ viewGen' \in Nat /\ opGen' \in Nat /\ inbox' \in Seq(Call)
  BY <1>1, CancelPendingType DEF LeaveTable
<1>3. /\ UNCHANGED <<rows, task, src, parked, events, counts, countEvents>>
      /\ shown' \in [view : Nat, rows : Seq(Nat)]
  BY NothingShownType DEF LeaveTable
<1> QED
  BY <1>2, <1>3, StateTypes, QueuesType DEF TypeOK

\* Sorting by a column.
LEMMA ClickSortType == TypeOK /\ ClickSort => TypeOK'
<1> SUFFICES ASSUME TypeOK, ClickSort PROVE TypeOK'
  OBVIOUS
<1>1. PICK column \in Column, ascending \in BOOLEAN :
         LET order == [column |-> column, ascending |-> ascending]
         IN  /\ ui' = [ui EXCEPT !.pending = order, !.sorting = TRUE, !.busy = TRUE,
                                  !.status = SetSorting(ui.status, TRUE)]
             /\ Post(SortCall(opGen + 1, order))
  <2>1. PICK column \in Column :
           LET previous == IF ui.pending # Unsorted THEN ui.pending ELSE ui.committed
               order == [column |-> column,
                         ascending |-> ~(previous.column = column /\ previous.ascending)]
           IN  /\ ui' = [ui EXCEPT !.pending = order, !.sorting = TRUE, !.busy = TRUE,
                                    !.status = SetSorting(ui.status, TRUE)]
               /\ Post(SortCall(opGen + 1, order))
    BY DEF ClickSort
  <2> DEFINE previous == IF ui.pending # Unsorted THEN ui.pending ELSE ui.committed
             ascending == ~(previous.column = column /\ previous.ascending)
  <2>2. ascending \in BOOLEAN
    OBVIOUS
  <2> QED
    BY <2>1, <2>2
<1> DEFINE order == [column |-> column, ascending |-> ascending]
<1>2. order \in Order
  BY DEF Order, SortState
<1>3. SetSorting(ui.status, TRUE) \in Bar
  BY StateTypes, SetterTypes, TextTypes
<1>4. SortCall(opGen + 1, order) \in Call
  BY <1>2, StateTypes, SortCallType
<1> HIDE DEF order
<1>5. ui' \in Viewer
  BY <1>1, <1>2, <1>3, StateTypes DEF Viewer, order
<1>6. inbox' \in Seq(Call)
  BY <1>1, <1>4, StateTypes, QueueAppend DEF Post, order
<1>7. /\ opGen' = opGen + 1
      /\ UNCHANGED <<rows, viewGen, task, src, parked, events, shown, counts, countEvents>>
  BY DEF ClickSort
<1> QED
  BY <1>5, <1>6, <1>7, StateTypes, QueuesType DEF TypeOK

\* Clicks and selections that only change the status bar.
LEMMA StatusOnlyType == TypeOK /\ (ClickUnsortable \/ SelectCell) => TypeOK'
<1> SUFFICES ASSUME TypeOK, ClickUnsortable \/ SelectCell PROVE TypeOK'
  OBVIOUS
<1>1. UNCHANGED <<workerVars, shown, counts, countEvents>>
  BY DEF ClickUnsortable, SelectCell
<1>2. \E status \in Bar : ui' = [ui EXCEPT !.status = status]
  <2>1. /\ SetValueText(ui.status, Message) \in Bar
        /\ SetValueText(ui.status, CellText) \in Bar
        /\ RestoreInfo(ui.status) \in Bar
    BY StateTypes, SetterTypes, TextTypes, RestoreType
  <2> QED
    BY <2>1 DEF ClickUnsortable, SelectCell
<1>3. ui' \in Viewer
  BY <1>2, StateTypes DEF Viewer
<1> QED
  BY <1>1, <1>3, StateTypes, QueuesType DEF TypeOK, workerVars

\* Cancelling a sort.
LEMMA CancelSortType == TypeOK /\ CancelSort => TypeOK'
<1> SUFFICES ASSUME TypeOK, CancelSort PROVE TypeOK'
  OBVIOUS
<1>1. ui' \in Viewer /\ opGen' \in Nat /\ inbox' \in Seq(Call)
  BY StateTypes, RecoverSortType DEF CancelSort
<1>2. UNCHANGED <<rows, viewGen, task, src, parked, events, shown, counts, countEvents>>
  BY DEF CancelSort
<1> QED
  BY <1>1, <1>2, StateTypes, QueuesType DEF TypeOK

\* Turning a page.
LEMMA NavigatePageType ==
    ASSUME TypeOK, NEW op \in PageOps, NEW page \in Nat, NEW fromPrev \in BOOLEAN,
           NEW total \in Total, NavigatePage(op, page, fromPrev, total)
    PROVE  TypeOK'
<1>1. /\ ui' = [ui EXCEPT !.inFlight = TRUE, !.busy = TRUE,
                          !.pendingPage = page, !.pendingFromPrev = fromPrev]
      /\ opGen' = opGen + 1
      /\ inbox' = Append(inbox, PageCall(op, opGen', ui.token, total))
      /\ UNCHANGED <<rows, viewGen, task, src, parked, events, shown, counts, countEvents>>
  BY DEF NavigatePage, Post
<1>2. ui' \in Viewer
  BY <1>1, StateTypes DEF Viewer
<1>3. inbox' \in Seq(Call) /\ opGen' \in Nat
  <2>1. opGen' \in Nat
    BY <1>1, StateTypes
  <2>2. PageCall(op, opGen', ui.token, total) \in Call
    BY <2>1, StateTypes, PageCallType
  <2> QED
    BY <1>1, <2>1, <2>2, StateTypes, QueueAppend
<1> QED
  BY <1>1, <1>2, <1>3, StateTypes, QueuesType DEF TypeOK

\* A page number.
LEMMA PageCountType ==
    ASSUME NEW total \in Total
    PROVE  PageCount(total) \in Nat
<1>1. CASE total = NoTotal
  BY <1>1 DEF PageCount
<1>2. CASE total \in Nat
  BY <1>2, Division DEF PageCount, NoTotal
<1> QED
  BY <1>1, <1>2 DEF Total

\* The four buttons.
LEMMA TurnPageType ==
    TypeOK /\ (FirstPageClicked \/ PrevPageClicked \/ NextPageClicked \/ LastPageClicked) => TypeOK'
<1> SUFFICES ASSUME TypeOK PROVE
      FirstPageClicked \/ PrevPageClicked \/ NextPageClicked \/ LastPageClicked => TypeOK'
  OBVIOUS
<1>1. ui.pager.page \in Nat /\ ui.pager.total \in Total /\ NoTotal \in Total
  BY StateTypes, FieldTypes
<1>2. {"first", "next", "prev", "last"} \subseteq PageOps
  BY DEF PageOps
<1>3. FirstPageClicked => TypeOK'
  BY <1>1, <1>2, NavigatePageType DEF FirstPageClicked
<1>4. PrevPageClicked => TypeOK'
  <2>1. CanPrev(ui.pager) => ui.pager.page - 1 \in Nat
    BY <1>1 DEF CanPrev
  <2> QED
    BY <1>1, <1>2, <2>1, NavigatePageType DEF PrevPageClicked
<1>5. NextPageClicked => TypeOK'
  <2>1. ui.pager.page + 1 \in Nat
    BY <1>1
  <2> QED
    BY <1>1, <1>2, <2>1, NavigatePageType DEF NextPageClicked
<1>6. LastPageClicked => TypeOK'
  BY <1>1, <1>2, PageCountType, NavigatePageType DEF LastPageClicked
<1> QED
  BY <1>3, <1>4, <1>5, <1>6

\* A signal nobody waits for.
LEMMA IgnoreStaleSignalType == TypeOK /\ IgnoreStaleSignal => TypeOK'
<1> SUFFICES ASSUME TypeOK, IgnoreStaleSignal PROVE TypeOK'
  OBVIOUS
<1>1. events' \in Seq(Event) /\ UNCHANGED <<rows, viewGen, opGen, inbox, task, src, parked, guiVars>>
  BY HeadType DEF IgnoreStaleSignal
<1> QED
  BY <1>1, StateTypes, QueuesType DEF TypeOK, guiVars

\* A handler of the source worker's signals.
LEMMA ReceiveTypes ==
    ASSUME TypeOK, NEW sig, Receive(sig),
           ui' \in Viewer, viewGen' \in Nat, opGen' \in Nat, inbox' \in Seq(Call),
           shown' \in [view : Nat, rows : Seq(Nat)], counts' \in Seq(Nat)
    PROVE  TypeOK'
<1>1. events' \in Seq(Event) /\ UNCHANGED <<rows, task, src, parked, countEvents>>
  BY HeadType DEF Receive
<1> QED
  BY <1>1, StateTypes, QueuesType DEF TypeOK

\* The source could not be opened.
LEMMA OnOpenFailedType == TypeOK /\ OnOpenFailed => TypeOK'
<1> SUFFICES ASSUME TypeOK, OnOpenFailed PROVE TypeOK'
  OBVIOUS
<1>1. SetValueText(ClearBar, Message) \in Bar
  BY SetterTypes, TextTypes
<1>2. ui' \in Viewer /\ viewGen' \in Nat /\ opGen' \in Nat /\ inbox' \in Seq(Call)
  BY <1>1, CancelPendingType DEF OnOpenFailed
<1> QED
  BY <1>2, StateTypes, ReceiveTypes DEF OnOpenFailed

\* It is open: the first page is asked for.
LEMMA OnOpenedType == TypeOK /\ OnOpened => TypeOK'
<1> SUFFICES ASSUME TypeOK, OnOpened PROVE TypeOK'
  OBVIOUS
<1> DEFINE e == Head(events)
           p == [FreshPager EXCEPT !.total = ui.pager.total,
                                   !.hasMore = ui.pager.total > PageSize]
<1>1. e.canSort \in BOOLEAN /\ events # <<>>
  BY HeadType DEF OnOpened, Receive
<1>2. p \in Pager
  <2> DEFINE more == ui.pager.total > PageSize
  <2>1. more \in BOOLEAN
    OBVIOUS
  <2> HIDE DEF more
  <2>2. [FreshPager EXCEPT !.total = ui.pager.total, !.hasMore = more] \in Pager
    BY <2>1, StateTypes, FieldTypes DEF Pager
  <2> QED
    BY <2>2 DEF more
<1>3. /\ ui' = [ui EXCEPT !.canSort = e.canSort, !.pager = p, !.pendingPage = 1,
                          !.pendingFromPrev = FALSE, !.inFlight = TRUE, !.busy = TRUE]
      /\ inbox' = Append(inbox, PageCall("first", opGen, NoToken, NoTotal))
  BY DEF OnOpened, Post
<1> HIDE DEF p
<1>4. ui' \in Viewer
  BY <1>1, <1>2, <1>3, StateTypes DEF Viewer
<1>5. inbox' \in Seq(Call)
  <2>1. PageCall("first", opGen, NoToken, NoTotal) \in Call
    BY StateTypes, FieldTypes, PageCallType DEF PageOps
  <2> QED
    BY <1>3, <2>1, StateTypes, QueueAppend
<1> QED
  BY <1>4, <1>5, StateTypes, ReceiveTypes DEF OnOpened

\* It is open again.
LEMMA OnReopenedType == TypeOK /\ OnReopened => TypeOK'
<1> SUFFICES ASSUME TypeOK, OnReopened PROVE TypeOK'
  OBVIOUS
<1> DEFINE u == [ui EXCEPT !.canSort = Head(events).canSort]
<1>1. events # <<>> /\ UNCHANGED <<viewGen, opGen, shown, counts>>
  BY DEF OnReopened, Receive
<1>2. u \in Viewer
  BY <1>1, HeadType, StateTypes DEF Viewer
<1>3. SortCall(opGen, ui.committed) \in Call
  BY StateTypes, SortCallType
<1>4. /\ ui' \in {FailSortRecovery(u), u, FinishSortRecovery(u)}
      /\ inbox' = inbox \/ inbox' = Append(inbox, SortCall(opGen, ui.committed))
  BY DEF OnReopened, Post
<1> HIDE DEF u
<1>5. ui' \in Viewer
  BY <1>2, <1>4, RecoveryTypes
<1>6. inbox' \in Seq(Call)
  <2>1. inbox \in Seq(Call)
    BY StateTypes
  <2>2. Append(inbox, SortCall(opGen, ui.committed)) \in Seq(Call)
    BY <1>3, <2>1, QueueAppend
  <2> QED
    BY <1>4, <2>1, <2>2
<1> QED
  BY <1>1, <1>5, <1>6, StateTypes, ReceiveTypes DEF OnReopened

\* A page to show.
LEMMA OnPageReadyType == TypeOK /\ OnPageReady => TypeOK'
<1> SUFFICES ASSUME TypeOK, OnPageReady PROVE TypeOK'
  OBVIOUS
<1> DEFINE e == Head(events)
           u == Arrived(e)
<1>1. events # <<>> /\ UNCHANGED <<viewGen, opGen, inbox>>
  BY DEF OnPageReady, Receive
<1>2. u \in Viewer
  BY <1>1, HeadType, StateTypes, ArrivedType
<1>3. u.countRequested \in BOOLEAN
  BY <1>2 DEF Viewer
<1> HIDE DEF u
<1>4. ui' = [u EXCEPT !.countRequested = u.countRequested \/ WantsCount(u)]
  BY DEF OnPageReady, u
<1>5. ui' \in Viewer
  <2> DEFINE b == u.countRequested \/ WantsCount(u)
  <2>1. b \in BOOLEAN
    OBVIOUS
  <2> HIDE DEF b
  <2>2. [u EXCEPT !.countRequested = b] \in Viewer
    BY <1>2, <2>1 DEF Viewer
  <2> QED
    BY <1>4, <2>2 DEF b
<1>6. shown' \in [view : Nat, rows : Seq(Nat)]
  BY <1>1, HeadType, StateTypes DEF OnPageReady
<1>7. counts' = counts \/ counts' = Append(counts, viewGen)
  BY DEF OnPageReady
<1>8. counts' \in Seq(Nat)
  <2>1. counts \in Seq(Nat) /\ viewGen \in Nat
    BY StateTypes
  <2>2. Append(counts, viewGen) \in Seq(Nat)
    BY <2>1
  <2> QED
    BY <1>7, <2>1, <2>2
<1> QED
  BY <1>1, <1>5, <1>6, <1>8, StateTypes, ReceiveTypes DEF OnPageReady

\* A page that is empty.
LEMMA OnPageVanishedType == TypeOK /\ OnPageVanished => TypeOK'
<1> SUFFICES ASSUME TypeOK, OnPageVanished PROVE TypeOK'
  OBVIOUS
<1> DEFINE p == [ui.pager EXCEPT !.hasMore = FALSE]
           status == SetValueText(ui.status, Message)
           n == Cardinality(rows)
           u == [ui EXCEPT !.inFlight = FALSE, !.busy = FALSE, !.pager = p, !.bar = p,
                           !.status = status, !.vanishedAt = n]
<1>1. UNCHANGED <<viewGen, opGen, inbox, shown>>
  BY DEF OnPageVanished
<1>2. p \in Pager /\ status \in Bar /\ n \in Total
  BY StateTypes, SetterTypes, TextTypes, RowsFinite, FieldTypes DEF Pager
<1>3. /\ ui' = u \/ ui' = Recounting(u)
      /\ counts' = counts \/ counts' = Append(counts, viewGen)
  BY DEF OnPageVanished
<1> HIDE DEF p, status, n
<1>4. u \in Viewer
  BY <1>2, StateTypes DEF Viewer
<1> HIDE DEF u
<1>5. Recounting(u) \in Viewer
  BY <1>4 DEF Recounting, Viewer
<1>6. counts' \in Seq(Nat)
  <2>1. counts \in Seq(Nat) /\ viewGen \in Nat
    BY StateTypes
  <2>2. Append(counts, viewGen) \in Seq(Nat)
    BY <2>1
  <2> QED
    BY <1>3, <2>1, <2>2
<1> QED
  BY <1>1, <1>3, <1>4, <1>5, <1>6, StateTypes, ReceiveTypes DEF OnPageVanished

\* A page that could not be read.
LEMMA OnPageFailedType == TypeOK /\ OnPageFailed => TypeOK'
<1> SUFFICES ASSUME TypeOK, OnPageFailed PROVE TypeOK'
  OBVIOUS
<1> DEFINE u == [ui EXCEPT !.inFlight = FALSE, !.busy = FALSE]
           status == SetValueText(u.status, Message)
<1>1. UNCHANGED <<viewGen, shown, counts>>
  BY DEF OnPageFailed
<1>2. u \in Viewer
  BY StateTypes DEF Viewer
<1>3. \/ RecoverSort(u)
      \/ /\ ui' = [u EXCEPT !.pendingPage = ui.pager.page, !.status = status]
         /\ UNCHANGED <<opGen, inbox>>
  BY DEF OnPageFailed
<1>4. status \in Bar
  BY <1>2, SetterTypes, TextTypes DEF Viewer
<1> HIDE DEF u, status
<1>5. CASE RecoverSort(u)
  BY <1>1, <1>2, <1>5, StateTypes, RecoverSortType, ReceiveTypes DEF OnPageFailed
<1>6. CASE /\ ui' = [u EXCEPT !.pendingPage = ui.pager.page, !.status = status]
           /\ UNCHANGED <<opGen, inbox>>
  <2>1. ui' \in Viewer
    BY <1>2, <1>4, <1>6, StateTypes DEF Viewer
  <2> QED
    BY <1>1, <1>6, <2>1, StateTypes, ReceiveTypes DEF OnPageFailed
<1> QED
  BY <1>3, <1>5, <1>6

\* A sort that ended.
LEMMA OnSortCompletedType == TypeOK /\ OnSortCompleted => TypeOK'
<1> SUFFICES ASSUME TypeOK, OnSortCompleted PROVE TypeOK'
  OBVIOUS
<1> DEFINE e == Head(events)
           failed == [ui EXCEPT !.status = SetValueText(ui.status, Message)]
           p == [ui.pager EXCEPT !.total = e.total]
           sorted == [ui EXCEPT !.sortTotal = TRUE, !.pager = p, !.pendingPage = 1,
                                !.pendingFromPrev = FALSE, !.inFlight = TRUE]
<1>1. events # <<>> /\ UNCHANGED <<viewGen, shown, counts>>
  BY DEF OnSortCompleted, Receive
<1>2. failed \in Viewer
  <2>1. SetValueText(ui.status, Message) \in Bar
    BY StateTypes, SetterTypes, TextTypes
  <2> QED
    BY <2>1, StateTypes DEF Viewer
<1>3. sorted \in Viewer
  <2>1. p \in Pager
    BY <1>1, HeadType, StateTypes DEF Pager
  <2> HIDE DEF p
  <2> QED
    BY <2>1, StateTypes DEF Viewer
<1>4. PageCall("first", opGen, NoToken, NoTotal) \in Call
  BY StateTypes, FieldTypes, PageCallType DEF PageOps
<1>5. \/ ui' \in {FinishSortRecovery(ui), FailSortRecovery(ui)} /\ UNCHANGED <<opGen, inbox>>
      \/ RecoverSort(failed)
      \/ /\ ui' = sorted /\ UNCHANGED opGen
         /\ inbox' = Append(inbox, PageCall("first", opGen, NoToken, NoTotal))
  BY DEF OnSortCompleted, Post
<1> HIDE DEF failed, sorted
<1>6. ui' \in Viewer /\ opGen' \in Nat /\ inbox' \in Seq(Call)
  <2>1. CASE ui' \in {FinishSortRecovery(ui), FailSortRecovery(ui)} /\ UNCHANGED <<opGen, inbox>>
    BY <2>1, StateTypes, RecoveryTypes
  <2>2. CASE RecoverSort(failed)
    BY <1>2, <2>2, StateTypes, RecoverSortType
  <2>3. CASE /\ ui' = sorted /\ UNCHANGED opGen
             /\ inbox' = Append(inbox, PageCall("first", opGen, NoToken, NoTotal))
    BY <1>3, <1>4, <2>3, StateTypes, QueueAppend
  <2> QED
    BY <1>5, <2>1, <2>2, <2>3
<1> QED
  BY <1>1, <1>6, StateTypes, ReceiveTypes DEF OnSortCompleted

\* How far the index is.
LEMMA OnIndexProgressType == TypeOK /\ OnIndexProgress => TypeOK'
<1> SUFFICES ASSUME TypeOK, OnIndexProgress PROVE TypeOK'
  OBVIOUS
<1> DEFINE e == Head(events)
           more == e.total > ui.pager.page * PageSize
           p == [ui.pager EXCEPT !.total = e.total, !.hasMore = more]
           bar == IF ui.firstPending THEN ui.bar ELSE p
           status == UpdatePagedTotal(ui.status, e.total)
           indexed == [ui EXCEPT !.pager = p, !.bar = bar, !.status = status]
<1>1. events # <<>> /\ UNCHANGED <<viewGen, opGen, inbox, shown, counts>>
  BY DEF OnIndexProgress, Receive
<1>2. /\ status \in Bar
      /\ SetIndexingFailed(ui.status) \in Bar
      /\ SetIndexingProgress(ui.status, e.total) \in Bar
  BY <1>1, HeadType, StateTypes, PagedTotalType, IndexingTypes
<1>3. p \in Pager
  <2>1. more \in BOOLEAN
    OBVIOUS
  <2> HIDE DEF more
  <2> QED
    BY <1>1, <2>1, HeadType, StateTypes DEF Pager
<1>4. bar \in Pager
  BY <1>3, StateTypes
<1>5. Indexed(ui, e.total) = indexed
  BY DEF Indexed
<1> HIDE DEF p, bar, status
<1>6. indexed \in Viewer
  BY <1>2, <1>3, <1>4, StateTypes DEF Viewer
<1> HIDE DEF indexed
<1>7. \A b \in Bar : [ui EXCEPT !.status = b] \in Viewer
  BY StateTypes DEF Viewer
<1>8. ui' \in Viewer
  BY <1>2, <1>5, <1>6, <1>7 DEF OnIndexProgress
<1> QED
  BY <1>1, <1>8, StateTypes, ReceiveTypes DEF OnIndexProgress

\* A count.
LEMMA CountType == TypeOK /\ Count => TypeOK'
<1> SUFFICES ASSUME TypeOK, Count PROVE TypeOK'
  OBVIOUS
<1> DEFINE Counting == [view : Nat, ok : BOOLEAN, total : Nat]
<1>1. counts # <<>> /\ counts' = Tail(counts) /\ UNCHANGED <<workerVars, ui, shown>>
  BY DEF Count
<1>2. counts' \in Seq(Nat)
  BY <1>1, StateTypes, QueueTail
<1>3. \A ok \in BOOLEAN : CountResult(ok) \in Counting
  BY StateTypes, RowsFinite DEF CountResult
<1>4. countEvents' \in Seq(Counting)
  <2>1. countEvents' = countEvents \/ \E ok \in BOOLEAN : countEvents' = Append(countEvents, CountResult(ok))
    BY DEF Count
  <2>2. countEvents \in Seq(Counting)
    BY StateTypes
  <2> HIDE DEF Counting
  <2> QED
    BY <1>3, <2>1, <2>2, QueueAppend
<1> QED
  BY <1>1, <1>2, <1>4, StateTypes, QueuesType DEF TypeOK, workerVars

\* And its signal.
LEMMA OnCountCompletedType == TypeOK /\ OnCountCompleted => TypeOK'
<1> SUFFICES ASSUME TypeOK, OnCountCompleted PROVE TypeOK'
  OBVIOUS
<1> DEFINE Counting == [view : Nat, ok : BOOLEAN, total : Nat]
           e == Head(countEvents)
           p == [ui.pager EXCEPT !.total = e.total]
           status == UpdatePagedTotal(ui.status, e.total)
           warned == SetWarning(ui.status, "count")
           failed == [ui EXCEPT !.countFailed = TRUE, !.status = warned]
           counted == [ui EXCEPT !.pager = p, !.bar = p, !.status = status]
<1>1. countEvents # <<>> /\ countEvents' = Tail(countEvents) /\ UNCHANGED <<workerVars, shown, counts>>
  BY DEF OnCountCompleted
<1>2. e \in Counting /\ Tail(countEvents) \in Seq(Counting)
  <2>1. countEvents \in Seq(Counting)
    BY StateTypes
  <2> HIDE DEF Counting
  <2> QED
    BY <1>1, <2>1, QueueTail
<1>3. /\ p \in Pager /\ status \in Bar
      /\ warned \in Bar
  <2>1. e.total \in Total
    BY <1>2 DEF Total
  <2>2. p \in Pager
    BY <2>1, StateTypes DEF Pager
  <2> QED
    BY <2>1, <2>2, StateTypes, PagedTotalType, WarningType DEF Warning
<1>4. ui' \in {ui, failed, counted}
  BY DEF OnCountCompleted, Counted
<1> HIDE DEF p, status, warned
<1>5. failed \in Viewer /\ counted \in Viewer
  BY <1>3, StateTypes DEF Viewer
<1>6. ui' \in Viewer
  BY <1>4, <1>5, StateTypes
<1> QED
  BY <1>1, <1>2, <1>6, StateTypes, QueuesType DEF TypeOK, workerVars

\* A step of the source worker, or of somebody else.
LEMMA OutsideType ==
    TypeOK /\ (WorkerStep \/ (DeleteRow /\ UNCHANGED guiVars) \/ UNCHANGED vars) => TypeOK'
<1> SUFFICES ASSUME TypeOK, WorkerStep \/ (DeleteRow /\ UNCHANGED guiVars) \/ UNCHANGED vars
             PROVE  TypeOK'
  OBVIOUS
<1>1. UNCHANGED guiVars
  BY DEF WorkerStep, vars, guiVars
<1>2. WorkerTypeOK'
  <2>1. CASE WorkerStep
    BY <2>1, StateTypes, WorkerType DEF WorkerStep
  <2>2. CASE DeleteRow
    BY <2>2, StateTypes, DeleteRowType
  <2>3. CASE UNCHANGED vars
    BY <2>3, StateTypes, QueuesType DEF vars
  <2> QED
    BY <2>1, <2>2, <2>3
<1> QED
  BY <1>1, <1>2, StateTypes DEF TypeOK, guiVars

\* Nothing is loaded yet.
LEMMA InitTypes == Init => TypeOK
<1> SUFFICES ASSUME Init PROVE TypeOK
  OBVIOUS
<1>1. WorkerTypeOK /\ 0 \in Nat
  BY InitType DEF Init
<1>2. ui \in Viewer
  BY <1>1, TextTypes, ResetType DEF Init
<1>3. counts \in Seq(Nat) /\ countEvents \in Seq([view : Nat, ok : BOOLEAN, total : Nat])
  BY DEF Init
<1> QED
  BY <1>1, <1>2, <1>3, NothingShownType DEF Init, TypeOK

\* Every step, with and without others writing to the table.
LEMMA NextType == TypeOK /\ [SharedNext]_vars => TypeOK'
BY LoadSelectedTableType, LeaveTableType, ClickSortType, StatusOnlyType, CancelSortType,
   TurnPageType, IgnoreStaleSignalType, OnOpenFailedType, OnOpenedType, OnReopenedType,
   OnPageReadyType, OnPageVanishedType, OnPageFailedType, OnSortCompletedType,
   OnIndexProgressType, CountType, OnCountCompletedType, OutsideType
DEF SharedNext, Next, UserNext, SignalNext

\* Nobody writes to the table: a special case.
LEMMA SpecIsShared == Spec => SharedSpec
<1>1. [Next]_vars => [SharedNext]_vars
  BY DEF SharedNext
<1> QED
  BY <1>1, PTL DEF Spec, SharedSpec

\* The fields of the viewer, the status bar, the queues and the source keep
\* their types in every interleaving, whoever writes to the table.
THEOREM ViewerTypeCorrect == SharedSpec => []TypeOK
<1>1. Init => TypeOK
  BY InitTypes
<1> QED
  BY <1>1, NextType, PTL DEF SharedSpec

-----------------------------------------------------------------------------
(* Every call, signal and page belongs to a load.                          *)

\* What is in a queue.
LEMMA QueueElement ==
    ASSUME NEW S, NEW q \in Seq(S)
    PROVE  \A i \in DOMAIN q : q[i] \in S
OBVIOUS

\* What is in the queues of the COUNT worker.
LEMMA CountTypes ==
    ASSUME TypeOK
    PROVE  /\ \A i \in DOMAIN counts : counts[i] \in Nat
           /\ \A i \in DOMAIN countEvents :
                countEvents[i].view \in Nat /\ countEvents[i].total \in Nat
                /\ countEvents[i].ok \in BOOLEAN
<1> DEFINE Counting == [view : Nat, ok : BOOLEAN, total : Nat]
<1>1. counts \in Seq(Nat) /\ countEvents \in Seq(Counting)
  BY StateTypes
<1>2. \A i \in DOMAIN counts : counts[i] \in Nat
  BY <1>1, QueueElement
<1> HIDE DEF Counting
<1>3. \A i \in DOMAIN countEvents : countEvents[i] \in Counting
  BY <1>1, QueueElement
<1> QED
  BY <1>2, <1>3 DEF Counting

\* A step that stays in its load: what is in a queue afterwards was there
\* before or belongs there.
LEMMA LoadsQuiet ==
    ASSUME TypeOK, TypeOK', LoadsInv, UNCHANGED <<viewGen, task, src, parked>>, opGen' >= opGen,
           ui'.gen = ui.gen, ui'.paged = ui.paged, ui'.worker = ui.worker, ui'.kind = ui.kind,
           ui'.sorting => ui.paged,
           \A i \in DOMAIN inbox' :
               (\E j \in DOMAIN inbox : inbox'[i] = inbox[j]) \/ CallBelongs(inbox'[i]),
           \A i \in DOMAIN events' : \E j \in DOMAIN events : events'[i] = events[j],
           \A i \in DOMAIN counts' :
               (\E j \in DOMAIN counts : counts'[i] = counts[j]) \/ Here(counts'[i]),
           \A i \in DOMAIN countEvents' :
               (\E j \in DOMAIN countEvents : countEvents'[i] = countEvents[j])
               \/ Past(countEvents'[i].view),
           shown'.view <= viewGen
    PROVE  LoadsInv'
<1>1. opGen \in Nat /\ opGen' \in Nat
  BY DEF TypeOK, WorkerTypeOK
<1> QED
  BY <1>1 DEF LoadsInv, CallBelongs, Here, Past

\* What the calls the viewer posts say.
LEMMA CallFields ==
    ASSUME NEW op, NEW gen, NEW token, NEW total, NEW order, NEW kind
    PROVE  /\ PageCall(op, gen, token, total).op = op
           /\ PageCall(op, gen, token, total).view = viewGen
           /\ PageCall(op, gen, token, total).gen = gen
           /\ PageCall(op, gen, token, total).kind = ui.kind
           /\ PageCall(op, gen, token, total).token = token
           /\ PageCall(op, gen, token, total).total = total
           /\ SortCall(gen, order).op = "sort"
           /\ SortCall(gen, order).view = viewGen
           /\ SortCall(gen, order).gen = gen
           /\ SortCall(gen, order).kind = ui.kind
           /\ SortCall(gen, order).sort = order
           /\ NewCall(op, viewGen, gen, kind).op = op
           /\ NewCall(op, viewGen, gen, kind).view = viewGen
           /\ NewCall(op, viewGen, gen, kind).gen = gen
           /\ NewCall(op, viewGen, gen, kind).kind = kind
BY DEF PageCall, SortCall, NewCall

\* A call of the current load that may be queued.
Posted(c) == c \in Call /\ c.view = viewGen /\ c.kind = ui.kind /\ c.op # "shutdown"

\* A step of the viewer within a load.
LEMMA LoadsStep ==
    ASSUME TypeOK, TypeOK', LoadsInv, ui.paged, UNCHANGED <<viewGen, task, src, parked, countEvents>>,
           opGen' >= opGen,
           ui'.gen = ui.gen, ui'.paged = ui.paged, ui'.worker = ui.worker, ui'.kind = ui.kind,
           inbox' = inbox \/ \E c : Posted(c) /\ inbox' = Append(inbox, c),
           events' = events \/ (events # <<>> /\ events' = Tail(events)),
           counts' = counts \/ counts' = Append(counts, viewGen),
           shown' = shown \/ shown'.view = ui.gen
    PROVE  LoadsInv'
<1>1. \A i \in DOMAIN inbox' :
         (\E j \in DOMAIN inbox : inbox'[i] = inbox[j]) \/ CallBelongs(inbox'[i])
  <2>1. CASE inbox' = inbox
    BY <2>1
  <2>2. ASSUME NEW c, Posted(c), inbox' = Append(inbox, c)
        PROVE  \A i \in DOMAIN inbox' :
                  (\E j \in DOMAIN inbox : inbox'[i] = inbox[j]) \/ CallBelongs(inbox'[i])
    <3>1. c \in Call /\ inbox \in Seq(Call)
      BY <2>2, StateTypes DEF Posted
    <3>2. CallBelongs(c)
      BY <2>2 DEF Posted, CallBelongs, Here
    <3> QED
      BY <2>2, <3>1, <3>2, QueueAppend
  <2> QED
    BY <2>1, <2>2
<1>2. \A i \in DOMAIN events' : \E j \in DOMAIN events : events'[i] = events[j]
  <2>1. CASE events' = events
    BY <2>1
  <2>2. CASE events # <<>> /\ events' = Tail(events)
    BY <2>2, StateTypes, QueueTail
  <2> QED
    BY <2>1, <2>2
<1>3. \A i \in DOMAIN counts' :
         (\E j \in DOMAIN counts : counts'[i] = counts[j]) \/ Here(counts'[i])
  <2>1. CASE counts' = counts
    BY <2>1
  <2>2. CASE counts' = Append(counts, viewGen)
    <3>1. Here(viewGen)
      BY DEF Here
    <3>2. counts \in Seq(Nat) /\ viewGen \in Nat
      BY StateTypes
    <3> HIDE DEF Here
    <3>3. \A i \in DOMAIN counts' : i \in DOMAIN counts \/ counts'[i] = viewGen
      BY <2>2, <3>2, QueueAppend
    <3>4. \A i \in DOMAIN counts : counts'[i] = counts[i]
      BY <2>2, <3>2, QueueAppend
    <3> QED
      BY <3>1, <3>3, <3>4
  <2> QED
    BY <2>1, <2>2
<1>4. shown'.view <= viewGen
  BY StateTypes DEF LoadsInv
<1> QED
  BY <1>1, <1>2, <1>3, <1>4, LoadsQuiet

\* Handlers of the signals the viewer waits for.
LEMMA ReceiveShape ==
    ASSUME TypeOK, LoadsInv, NEW sig, Receive(sig)
    PROVE  /\ ui.paged /\ events # <<>> /\ events' = Tail(events)
           /\ UNCHANGED <<rows, task, src, parked, countEvents>>
           /\ Head(events).sig = sig /\ Head(events).view = viewGen
           /\ sig # "indexProgress" => Head(events).gen = opGen
BY DEF Receive, IsCurrent, LoadsInv

\* A step that does not leave the load.
SameLoad ==
    ui'.gen = ui.gen /\ ui'.paged = ui.paged /\ ui'.worker = ui.worker /\ ui'.kind = ui.kind

\* What a click on a column does.
LEMMA ClickSortFacts ==
    ASSUME TypeOK, ClickSort
    PROVE  /\ ui.paged /\ ui.canSort /\ ~ui.recovering /\ (ui.inFlight => ui.sorting)
           /\ opGen' = opGen + 1
           /\ UNCHANGED <<rows, viewGen, task, src, parked, events, shown, counts, countEvents>>
           /\ SameLoad
           /\ \E order \in SortState :
                 /\ ui' = [ui EXCEPT !.pending = order, !.sorting = TRUE, !.busy = TRUE,
                                     !.status = SetSorting(ui.status, TRUE)]
                 /\ inbox' = Append(inbox, SortCall(opGen', order))
                 /\ Posted(SortCall(opGen', order))
<1>1. /\ ui.paged /\ ui.canSort /\ ~ui.recovering /\ (ui.inFlight => ui.sorting)
      /\ opGen' = opGen + 1
      /\ UNCHANGED <<rows, viewGen, task, src, parked, events, shown, counts, countEvents>>
  BY DEF ClickSort
<1>2. PICK column \in Column :
         LET previous == IF ui.pending # Unsorted THEN ui.pending ELSE ui.committed
             order == [column |-> column,
                       ascending |-> ~(previous.column = column /\ previous.ascending)]
         IN  /\ ui' = [ui EXCEPT !.pending = order, !.sorting = TRUE, !.busy = TRUE,
                                  !.status = SetSorting(ui.status, TRUE)]
             /\ Post(SortCall(opGen + 1, order))
  BY DEF ClickSort
<1> DEFINE previous == IF ui.pending # Unsorted THEN ui.pending ELSE ui.committed
           ascending == ~(previous.column = column /\ previous.ascending)
           order == [column |-> column, ascending |-> ascending]
<1>3. ascending \in BOOLEAN
  OBVIOUS
<1>4. order \in SortState
  <2> HIDE DEF ascending
  <2> QED
    BY <1>3 DEF SortState
<1>5. /\ ui' = [ui EXCEPT !.pending = order, !.sorting = TRUE, !.busy = TRUE,
                          !.status = SetSorting(ui.status, TRUE)]
      /\ inbox' = Append(inbox, SortCall(opGen', order))
  BY <1>1, <1>2 DEF Post
<1> HIDE DEF order
<1>6. SameLoad
  BY <1>5, StateTypes DEF SameLoad, Viewer
<1>7. Posted(SortCall(opGen', order))
  <2>1. opGen' \in Nat
    BY <1>1, StateTypes
  <2>2. order \in Order
    BY <1>4 DEF Order
  <2>3. SortCall(opGen', order) \in Call
    BY <2>1, <2>2, StateTypes, SortCallType
  <2> QED
    BY <2>3, CallFields DEF Posted
<1> QED
  BY <1>1, <1>4, <1>5, <1>6, <1>7

\* What going back to the order on display does.
LEMMA RecoverSortFacts ==
    ASSUME TypeOK, NEW u \in Viewer, u.kind = ui.kind, RecoverSort(u)
    PROVE  /\ ui' = Recovering(u)
           /\ ui'.gen = u.gen /\ ui'.paged = u.paged /\ ui'.worker = u.worker /\ ui'.kind = u.kind
           /\ ui'.pending = Unsorted /\ ui'.recovering /\ ~ui'.inFlight /\ ui'.sorting = u.sorting
           /\ ui'.orderValid = u.orderValid /\ ui'.canSort = u.canSort
           /\ ui'.firstPending = u.firstPending /\ ui'.committed = u.committed
           /\ opGen' = opGen + 1
           /\ inbox' = Append(inbox, NewCall("open", viewGen, opGen', ui.kind))
           /\ Posted(NewCall("open", viewGen, opGen', ui.kind))
<1>1. /\ ui' = Recovering(u) /\ opGen' = opGen + 1
      /\ inbox' = Append(inbox, NewCall("open", viewGen, opGen', ui.kind))
  BY DEF RecoverSort, Post
<1>2. Posted(NewCall("open", viewGen, opGen', ui.kind))
  <2>1. opGen' \in Nat
    BY <1>1, StateTypes
  <2>2. NewCall("open", viewGen, opGen', ui.kind) \in Call
    BY <2>1, StateTypes, NewCallType DEF Ops
  <2> QED
    BY <2>2, CallFields DEF Posted
<1> QED
  BY <1>1, <1>2 DEF Recovering, Viewer

\* Sorting, and cancelling it.
LEMMA LoadsSortClicks ==
    TypeOK /\ TypeOK' /\ LoadsInv /\ (ClickSort \/ CancelSort) => LoadsInv'
<1> SUFFICES ASSUME TypeOK, TypeOK', LoadsInv, ClickSort \/ CancelSort PROVE LoadsInv'
  OBVIOUS
<1>1. ui.paged /\ UNCHANGED <<viewGen, task, src, parked, events, shown, counts, countEvents>>
  BY DEF ClickSort, CancelSort, LoadsInv
<1>2. opGen' >= opGen
  <2>1. opGen \in Nat
    BY StateTypes
  <2>2. ClickSort => opGen' = opGen + 1
    BY ClickSortFacts
  <2>3. CancelSort => opGen' = opGen + 1
    BY DEF CancelSort, RecoverSort
  <2> QED
    BY <2>1, <2>2, <2>3
<1>3. /\ ui'.gen = ui.gen /\ ui'.paged = ui.paged /\ ui'.worker = ui.worker /\ ui'.kind = ui.kind
      /\ \E c : Posted(c) /\ inbox' = Append(inbox, c)
  <2>1. CASE ClickSort
    BY <2>1, ClickSortFacts DEF SameLoad
  <2>2. CASE CancelSort
    <3>1. RecoverSort(ui) /\ ui \in Viewer
      BY <2>2, StateTypes DEF CancelSort
    <3> QED
      BY <3>1, RecoverSortFacts
  <2> QED
    BY <2>1, <2>2
<1> QED
  BY <1>1, <1>2, <1>3, LoadsStep

\* The four buttons: where they lead, and what they ask for.
TurnPage == FirstPageClicked \/ PrevPageClicked \/ NextPageClicked \/ LastPageClicked

TurnsTo(op, page, fromPrev, total) ==
    \/ op = "first" /\ page = 1 /\ ~fromPrev /\ CanFirst(ui.pager)
    \/ op = "prev" /\ page = ui.pager.page - 1 /\ fromPrev /\ CanPrev(ui.pager)
    \/ op = "next" /\ page = ui.pager.page + 1 /\ ~fromPrev /\ CanNext(ui.pager)
    \/ op = "last" /\ total = ui.pager.total /\ page = PageCount(total) /\ ~fromPrev
                   /\ CanLast(ui.pager)

\* What a click on one of them does.
LEMMA TurnPageFacts ==
    ASSUME TypeOK, TurnPage
    PROVE  /\ ui.paged /\ ui.orderValid /\ ~ui.sorting /\ ~ui.inFlight
           /\ opGen' = opGen + 1
           /\ UNCHANGED <<rows, viewGen, task, src, parked, events, shown, counts, countEvents>>
           /\ SameLoad
           /\ \E op \in PageOps, page \in Nat, fromPrev \in BOOLEAN, total \in Total :
                 /\ TurnsTo(op, page, fromPrev, total)
                 /\ ui' = [ui EXCEPT !.inFlight = TRUE, !.busy = TRUE,
                                     !.pendingPage = page, !.pendingFromPrev = fromPrev]
                 /\ inbox' = Append(inbox, PageCall(op, opGen', ui.token, total))
                 /\ Posted(PageCall(op, opGen', ui.token, total))
<1>1. ui.pager.page \in Nat /\ ui.pager.total \in Total /\ NoTotal \in Total
  BY StateTypes, FieldTypes
<1>2. PICK op \in PageOps, page \in Nat, fromPrev \in BOOLEAN, total \in Total :
         TurnsTo(op, page, fromPrev, total) /\ NavigatePage(op, page, fromPrev, total)
  <2>1. PageCount(ui.pager.total) \in Nat
    BY <1>1, PageCountType
  <2>2. CanPrev(ui.pager) => ui.pager.page - 1 \in Nat
    BY <1>1 DEF CanPrev
  <2>3. CASE FirstPageClicked
    BY <1>1, <2>3 DEF FirstPageClicked, TurnsTo, PageOps
  <2>4. CASE PrevPageClicked
    BY <1>1, <2>2, <2>4 DEF PrevPageClicked, TurnsTo, PageOps
  <2>5. CASE NextPageClicked
    <3>1. ui.pager.page + 1 \in Nat
      BY <1>1
    <3> QED
      BY <1>1, <2>5, <3>1 DEF NextPageClicked, TurnsTo, PageOps
  <2>6. CASE LastPageClicked
    BY <1>1, <2>1, <2>6 DEF LastPageClicked, TurnsTo, PageOps
  <2> QED
    BY <2>3, <2>4, <2>5, <2>6 DEF TurnPage
<1>3. /\ ui.paged /\ ui.orderValid /\ ~ui.sorting /\ ~ui.inFlight
      /\ opGen' = opGen + 1
      /\ UNCHANGED <<rows, viewGen, task, src, parked, events, shown, counts, countEvents>>
      /\ ui' = [ui EXCEPT !.inFlight = TRUE, !.busy = TRUE,
                          !.pendingPage = page, !.pendingFromPrev = fromPrev]
      /\ inbox' = Append(inbox, PageCall(op, opGen', ui.token, total))
  BY <1>2 DEF NavigatePage, MayNavigate, Post
<1>4. SameLoad
  BY <1>3, StateTypes DEF SameLoad, Viewer
<1>5. Posted(PageCall(op, opGen', ui.token, total))
  <2>1. opGen' \in Nat /\ ui.token \in Token
    BY <1>3, StateTypes
  <2>2. PageCall(op, opGen', ui.token, total) \in Call
    BY <2>1, StateTypes, PageCallType
  <2>3. op # "shutdown"
    BY DEF PageOps
  <2> QED
    BY <2>2, <2>3, CallFields DEF Posted
<1> QED
  BY <1>2, <1>3, <1>4, <1>5

\* Fields that no news about totals, and nothing said in the status bar, touch.
SameUi ==
    /\ SameLoad
    /\ ui'.firstPending = ui.firstPending /\ ui'.sorting = ui.sorting
    /\ ui'.recovering = ui.recovering /\ ui'.inFlight = ui.inFlight
    /\ ui'.canSort = ui.canSort /\ ui'.orderValid = ui.orderValid
    /\ ui'.committed = ui.committed /\ ui'.pending = ui.pending
    /\ ui'.pendingPage = ui.pendingPage /\ ui'.pendingFromPrev = ui.pendingFromPrev
    /\ ui'.token = ui.token /\ ui'.pager.page = ui.pager.page
    /\ ui'.pager.fromPrev = ui.pager.fromPrev
    /\ ui'.vanishedAt = ui.vanishedAt /\ ui'.sortTotal = ui.sortTotal

Aside == \/ ClickUnsortable \/ SelectCell \/ IgnoreStaleSignal \/ OnIndexProgress
         \/ Count \/ OnCountCompleted \/ (DeleteRow /\ UNCHANGED guiVars) \/ UNCHANGED vars

\* News about totals, the status bar, and others writing to the table.
LEMMA AsideFacts ==
    ASSUME TypeOK, Aside
    PROVE  SameUi /\ UNCHANGED <<viewGen, opGen, inbox, task, src, parked, shown>>
<1>1. UNCHANGED <<viewGen, opGen, inbox, task, src, parked, shown>>
  BY DEF Aside, ClickUnsortable, SelectCell, IgnoreStaleSignal, OnIndexProgress, Receive,
         Count, OnCountCompleted, DeleteRow, vars, guiVars, workerVars
<1> SUFFICES SameUi
  BY <1>1
<1>2. ui \in Viewer /\ ui.pager \in Pager
  BY StateTypes
<1>3. CASE OnIndexProgress
  <2>1. ui' = Indexed(ui, Head(events).total) \/ \E status : ui' = [ui EXCEPT !.status = status]
    BY <1>3 DEF OnIndexProgress
  <2>2. ASSUME NEW status, ui' = [ui EXCEPT !.status = status]
        PROVE  SameUi
    BY <1>2, <2>2 DEF SameUi, SameLoad, Viewer
  <2>3. ASSUME ui' = Indexed(ui, Head(events).total)
        PROVE  SameUi
    BY <1>2, <2>3 DEF SameUi, SameLoad, Indexed, Viewer, Pager
  <2> QED
    BY <2>1, <2>2, <2>3
<1>4. CASE OnCountCompleted
  <2>1. \/ ui' = ui
        \/ ui' = Counted(ui, Head(countEvents).total)
        \/ ui' = [ui EXCEPT !.countFailed = TRUE, !.status = SetWarning(ui.status, "count")]
    BY <1>4 DEF OnCountCompleted
  <2>2. CASE ui' = ui
    BY <2>2 DEF SameUi, SameLoad
  <2>3. CASE ui' = Counted(ui, Head(countEvents).total)
    BY <1>2, <2>3 DEF SameUi, SameLoad, Counted, Viewer, Pager
  <2>4. CASE ui' = [ui EXCEPT !.countFailed = TRUE, !.status = SetWarning(ui.status, "count")]
    BY <1>2, <2>4 DEF SameUi, SameLoad, Viewer
  <2> QED
    BY <2>1, <2>2, <2>3, <2>4
<1>5. CASE ClickUnsortable \/ SelectCell
  <2>1. \E status : ui' = [ui EXCEPT !.status = status]
    BY <1>5 DEF ClickUnsortable, SelectCell
  <2> QED
    BY <1>2, <2>1 DEF SameUi, SameLoad, Viewer
<1>6. CASE IgnoreStaleSignal \/ Count \/ (DeleteRow /\ UNCHANGED guiVars) \/ UNCHANGED vars
  <2>1. ui' = ui
    BY <1>6 DEF IgnoreStaleSignal, Count, guiVars, vars
  <2> QED
    BY <2>1 DEF SameUi, SameLoad
<1> QED
  BY <1>3, <1>4, <1>5, <1>6 DEF Aside

\* The fields of the order, and those that stay with a load.
SameOrder ==
    ui'.committed = ui.committed /\ ui'.pending = ui.pending
    /\ ui'.sorting = ui.sorting /\ ui'.recovering = ui.recovering
    /\ ui'.orderValid = ui.orderValid

SameCounts ==
    ui'.vanishedAt = ui.vanishedAt /\ ui'.sortTotal = ui.sortTotal
    /\ ui'.countFailed = ui.countFailed

\* The source is open and the first page is asked for.
LEMMA OnOpenedFacts ==
    ASSUME TypeOK, OnOpened
    PROVE  /\ Receive("openCompleted") /\ ~ui.recovering
           /\ SameLoad /\ SameOrder /\ SameCounts
           /\ ui'.canSort = Head(events).canSort /\ ui'.inFlight /\ ui'.token = ui.token
           /\ ui'.firstPending = ui.firstPending
           /\ ui'.pendingPage = 1 /\ ~ui'.pendingFromPrev
           /\ ui'.pager.page = 1 /\ ui'.pager.total = ui.pager.total /\ ~ui'.pager.fromPrev
           /\ UNCHANGED <<viewGen, opGen, shown, counts>>
           /\ inbox' = Append(inbox, PageCall("first", opGen, NoToken, NoTotal))
           /\ Posted(PageCall("first", opGen, NoToken, NoTotal))
<1> DEFINE p == [FreshPager EXCEPT !.total = ui.pager.total,
                                   !.hasMore = ui.pager.total > PageSize]
<1>1. /\ Receive("openCompleted") /\ ~ui.recovering
      /\ ui' = [ui EXCEPT !.canSort = Head(events).canSort, !.pager = p, !.pendingPage = 1,
                          !.pendingFromPrev = FALSE, !.inFlight = TRUE, !.busy = TRUE]
      /\ inbox' = Append(inbox, PageCall("first", opGen, NoToken, NoTotal))
      /\ UNCHANGED <<viewGen, opGen, shown, counts>>
  BY DEF OnOpened, Post
<1>2. p.page = 1 /\ p.total = ui.pager.total /\ ~p.fromPrev
  BY DEF FreshPager
<1> HIDE DEF p
<1>3. /\ SameLoad /\ SameOrder /\ SameCounts
      /\ ui'.canSort = Head(events).canSort /\ ui'.inFlight /\ ui'.token = ui.token
      /\ ui'.firstPending = ui.firstPending
      /\ ui'.pendingPage = 1 /\ ~ui'.pendingFromPrev
      /\ ui'.pager = p
  BY <1>1, StateTypes DEF SameLoad, SameOrder, SameCounts, Viewer
<1>4. Posted(PageCall("first", opGen, NoToken, NoTotal))
  <2>1. PageCall("first", opGen, NoToken, NoTotal) \in Call
    BY StateTypes, FieldTypes, PageCallType DEF PageOps
  <2> QED
    BY <2>1, CallFields DEF Posted
<1> QED
  BY <1>1, <1>2, <1>3, <1>4

\* What the end of a recovery leaves of the fields.
LEMMA RecoveryFields ==
    ASSUME NEW u \in Viewer
    PROVE  /\ \A v \in {FinishSortRecovery(u), FailSortRecovery(u)} :
                /\ v.gen = u.gen /\ v.paged = u.paged /\ v.worker = u.worker /\ v.kind = u.kind
                /\ ~v.sorting /\ ~v.recovering /\ v.inFlight = u.inFlight
                /\ v.committed = u.committed /\ v.pending = u.pending
                /\ v.firstPending = u.firstPending /\ v.token = u.token
                /\ v.pager = u.pager /\ v.bar = u.bar
                /\ v.pendingPage = u.pendingPage /\ v.pendingFromPrev = u.pendingFromPrev
                /\ v.vanishedAt = u.vanishedAt /\ v.sortTotal = u.sortTotal
                /\ v.countFailed = u.countFailed
           /\ FinishSortRecovery(u).orderValid = u.orderValid
           /\ FinishSortRecovery(u).canSort = u.canSort
           /\ ~FailSortRecovery(u).orderValid /\ ~FailSortRecovery(u).canSort
BY DEF FinishSortRecovery, FailSortRecovery, Viewer

\* The fields that go back to what they were before the sort, in a step.
Recovered ==
    /\ SameLoad /\ SameCounts
    /\ ~ui'.sorting /\ ~ui'.recovering /\ ui'.inFlight = ui.inFlight
    /\ ui'.committed = ui.committed /\ ui'.pending = ui.pending
    /\ ui'.firstPending = ui.firstPending /\ ui'.token = ui.token
    /\ ui'.pager = ui.pager /\ ui'.bar = ui.bar
    /\ ui'.pendingPage = ui.pendingPage /\ ui'.pendingFromPrev = ui.pendingFromPrev

\* The source is open again.
LEMMA OnReopenedFacts ==
    ASSUME TypeOK, OnReopened
    PROVE  /\ Receive("openCompleted") /\ ui.recovering
           /\ UNCHANGED <<viewGen, opGen, shown, counts>>
           /\ \/ Recovered /\ ~ui'.orderValid /\ ~ui'.canSort /\ inbox' = inbox
              \/ /\ Recovered /\ ui'.orderValid = ui.orderValid /\ ui.committed = Unsorted
                 /\ ui'.canSort = Head(events).canSort /\ inbox' = inbox
              \/ /\ SameLoad /\ SameOrder /\ SameCounts /\ ui.committed # Unsorted
                 /\ ui'.inFlight = ui.inFlight /\ ui'.firstPending = ui.firstPending
                 /\ ui'.token = ui.token /\ ui'.pager = ui.pager /\ ui'.bar = ui.bar
                 /\ ui'.pendingPage = ui.pendingPage
                 /\ ui'.pendingFromPrev = ui.pendingFromPrev
                 /\ ui'.canSort = Head(events).canSort
                 /\ inbox' = Append(inbox, SortCall(opGen, ui.committed))
                 /\ Posted(SortCall(opGen, ui.committed))
<1> DEFINE u == [ui EXCEPT !.canSort = Head(events).canSort]
<1>1. /\ Receive("openCompleted") /\ ui.recovering /\ events # <<>>
      /\ UNCHANGED <<viewGen, opGen, shown, counts>>
  BY DEF OnReopened, Receive
<1>2. u \in Viewer
  BY <1>1, HeadType, StateTypes DEF Viewer
<1>3. /\ u.gen = ui.gen /\ u.paged = ui.paged /\ u.worker = ui.worker /\ u.kind = ui.kind
      /\ u.committed = ui.committed /\ u.pending = ui.pending
      /\ u.sorting = ui.sorting /\ u.recovering = ui.recovering
      /\ u.orderValid = ui.orderValid /\ u.inFlight = ui.inFlight
      /\ u.firstPending = ui.firstPending /\ u.token = ui.token
      /\ u.pager = ui.pager /\ u.bar = ui.bar
      /\ u.pendingPage = ui.pendingPage /\ u.pendingFromPrev = ui.pendingFromPrev
      /\ u.vanishedAt = ui.vanishedAt /\ u.sortTotal = ui.sortTotal
      /\ u.countFailed = ui.countFailed /\ u.canSort = Head(events).canSort
  BY StateTypes DEF Viewer
<1>4. \/ ui' = FailSortRecovery(u) /\ inbox' = inbox
      \/ ui' = FinishSortRecovery(u) /\ ui.committed = Unsorted /\ inbox' = inbox
      \/ /\ ui' = u /\ ui.committed # Unsorted
         /\ inbox' = Append(inbox, SortCall(opGen, ui.committed))
  BY DEF OnReopened, Post
<1>5. Posted(SortCall(opGen, ui.committed))
  <2>1. SortCall(opGen, ui.committed) \in Call
    BY StateTypes, SortCallType
  <2> QED
    BY <2>1, CallFields DEF Posted
<1> HIDE DEF u
<1>6. CASE ui' = FailSortRecovery(u) /\ inbox' = inbox
  BY <1>1, <1>2, <1>3, <1>6, RecoveryFields DEF Recovered, SameLoad, SameCounts
<1>7. CASE ui' = FinishSortRecovery(u) /\ ui.committed = Unsorted /\ inbox' = inbox
  BY <1>1, <1>2, <1>3, <1>7, RecoveryFields DEF Recovered, SameLoad, SameCounts
<1>8. CASE /\ ui' = u /\ ui.committed # Unsorted
           /\ inbox' = Append(inbox, SortCall(opGen, ui.committed))
  BY <1>1, <1>3, <1>5, <1>8 DEF SameLoad, SameOrder, SameCounts
<1> QED
  BY <1>4, <1>6, <1>7, <1>8

\* What a page that arrives makes of the fields.
LEMMA ArrivedFields ==
    ASSUME ui \in Viewer, NEW e \in Event
    PROVE  /\ Arrived(e).gen = ui.gen /\ Arrived(e).paged = ui.paged /\ Arrived(e).worker = ui.worker /\ Arrived(e).kind = ui.kind
           /\ Arrived(e).canSort = ui.canSort /\ Arrived(e).orderValid = ui.orderValid
           /\ ~Arrived(e).inFlight /\ ~Arrived(e).firstPending /\ Arrived(e).token = e.token
           /\ Arrived(e).pager = [ui.pager EXCEPT !.page = ui.pendingPage, !.fromPrev = ui.pendingFromPrev,
                            !.hasMore = IF ui.pager.total # NoTotal
                                        THEN ui.pager.total > ui.pendingPage * PageSize
                                        ELSE e.hasMore]
           /\ Arrived(e).bar = Arrived(e).pager
           /\ Arrived(e).vanishedAt = ui.vanishedAt /\ Arrived(e).sortTotal = ui.sortTotal
           /\ Arrived(e).countFailed = ui.countFailed
           /\ Arrived(e).status.sorting <=> (ui.status.sorting /\ (~ui.sorting \/ ui.recovering))
           /\ ui.sorting /\ ~ui.recovering =>
                 Arrived(e).committed = ui.pending /\ Arrived(e).pending = Unsorted /\ ~Arrived(e).sorting /\ ~Arrived(e).recovering
           /\ ~ui.sorting \/ ui.recovering =>
                 /\ Arrived(e).committed = ui.committed /\ Arrived(e).pending = ui.pending
                 /\ Arrived(e).sorting = ui.sorting /\ Arrived(e).recovering = ui.recovering
<1> DEFINE u == Arrived(e)
           more == IF ui.pager.total # NoTotal
                   THEN ui.pager.total > ui.pendingPage * PageSize
                   ELSE e.hasMore
           p == [ui.pager EXCEPT !.page = ui.pendingPage, !.fromPrev = ui.pendingFromPrev,
                                 !.hasMore = more]
           status == SetPagedLoadInfo(ui.status, p.page, p.total)
           v == [ui EXCEPT !.inFlight = FALSE, !.busy = FALSE, !.firstPending = FALSE,
                           !.pager = p, !.bar = p, !.token = e.token,
                           !.status = status]
           w == [v EXCEPT !.committed = ui.pending, !.pending = Unsorted]
           f == [w EXCEPT !.sorting = FALSE, !.recovering = FALSE, !.busy = FALSE,
                          !.status = SetSorting(w.status, FALSE)]
<1>1. u = IF ui.sorting /\ ~ui.recovering THEN f ELSE v
  BY DEF Arrived, FinishSortRecovery, more, p, status, v, w, f
<1>2. p.page \in Nat /\ p.total \in Total
  BY DEF Viewer, Pager
<1> HIDE DEF p, u
<1>3. status \in Bar /\ status.sorting = ui.status.sorting
  <2>1. status \in Bar
    BY <1>2, LoadInfoType DEF Viewer
  <2>2. status.sorting = ui.status.sorting
    BY DEF SetPagedLoadInfo, RebuildPagedTexts, SetWarning, HideUnlessIndexing, SetValueText, Viewer, Bar
  <2> QED
    BY <2>1, <2>2
<1> HIDE DEF status
<1>4. /\ v.gen = ui.gen /\ v.paged = ui.paged /\ v.worker = ui.worker /\ v.kind = ui.kind
      /\ v.canSort = ui.canSort /\ v.orderValid = ui.orderValid
      /\ ~v.inFlight /\ ~v.firstPending /\ v.token = e.token /\ v.pager = p /\ v.bar = p
      /\ v.vanishedAt = ui.vanishedAt /\ v.sortTotal = ui.sortTotal
      /\ v.countFailed = ui.countFailed /\ v.status = status
      /\ v.committed = ui.committed /\ v.pending = ui.pending
      /\ v.sorting = ui.sorting /\ v.recovering = ui.recovering
  BY DEF Viewer
<1>6. /\ f.gen = v.gen /\ f.paged = v.paged /\ f.worker = v.worker /\ f.kind = v.kind
      /\ f.canSort = v.canSort /\ f.orderValid = v.orderValid
      /\ f.inFlight = v.inFlight /\ f.firstPending = v.firstPending /\ f.token = v.token
      /\ f.pager = v.pager /\ f.bar = v.bar
      /\ f.vanishedAt = v.vanishedAt /\ f.sortTotal = v.sortTotal
      /\ f.countFailed = v.countFailed
      /\ f.committed = ui.pending /\ f.pending = Unsorted /\ ~f.sorting /\ ~f.recovering
      /\ f.status = SetSorting(v.status, FALSE)
  BY DEF Viewer
<1>7. ~SetSorting(v.status, FALSE).sorting
  BY <1>3, <1>4 DEF SetSorting, Bar
<1>8. p = [ui.pager EXCEPT !.page = ui.pendingPage, !.fromPrev = ui.pendingFromPrev,
                            !.hasMore = IF ui.pager.total # NoTotal
                                        THEN ui.pager.total > ui.pendingPage * PageSize
                                        ELSE e.hasMore]
  BY DEF p, more
<1> HIDE DEF v, w, f
<1>9. CASE ui.sorting /\ ~ui.recovering
  <2>1. Arrived(e) = f
    BY <1>1, <1>9 DEF u
  <2>2. ~f.status.sorting
    BY <1>6, <1>7
  <2>3. f.pager = p /\ f.bar = p
    BY <1>4, <1>6
  <2>4. ~f.inFlight /\ ~f.firstPending
    BY <1>4, <1>6
  <2> QED
    BY <1>4, <1>6, <1>9, <1>8, <2>1, <2>2, <2>3, <2>4
<1>10. CASE ~(ui.sorting /\ ~ui.recovering)
  <2>1. Arrived(e) = v
    BY <1>1, <1>10 DEF u
  <2>2. ~v.inFlight /\ ~v.firstPending /\ v.pager = p /\ v.bar = p /\ v.status.sorting = ui.status.sorting
    BY <1>3, <1>4
  <2> QED
    BY <1>4, <1>10, <1>8, <2>1, <2>2
<1> QED
  BY <1>9, <1>10

\* A page that is shown.
LEMMA OnPageReadyFacts ==
    ASSUME TypeOK, OnPageReady
    PROVE  /\ Receive("pageReady") /\ Head(events).ok /\ ~Vanished(Head(events))
           /\ SameLoad /\ SameCounts
           /\ ui'.canSort = ui.canSort /\ ui'.orderValid = ui.orderValid
           /\ ~ui'.inFlight /\ ~ui'.firstPending /\ ui'.token = Head(events).token
           /\ ui'.pager = Arrived(Head(events)).pager /\ ui'.bar = ui'.pager
           /\ ui'.status = Arrived(Head(events)).status
           /\ ui.sorting /\ ~ui.recovering =>
                 ui'.committed = ui.pending /\ ui'.pending = Unsorted /\ ~ui'.sorting /\ ~ui'.recovering
           /\ ~ui.sorting \/ ui.recovering => SameOrder
           /\ shown' = [view |-> ui.gen, rows |-> Head(events).rows]
           /\ counts' = counts \/ counts' = Append(counts, viewGen)
           /\ UNCHANGED <<viewGen, opGen, inbox>>
<1> DEFINE e == Head(events)
           u == Arrived(e)
           b == u.countRequested \/ WantsCount(u)
<1>1. /\ Receive("pageReady") /\ e.ok /\ ~Vanished(e)
      /\ ui' = [u EXCEPT !.countRequested = b]
      /\ shown' = [view |-> ui.gen, rows |-> e.rows]
      /\ counts' = counts \/ counts' = Append(counts, viewGen)
      /\ UNCHANGED <<viewGen, opGen, inbox>>
  BY DEF OnPageReady
<1>2. e \in Event /\ ui \in Viewer
  BY <1>1, HeadType, StateTypes DEF Receive
<1>3. u \in Viewer
  BY <1>2, ArrivedType
<1> HIDE DEF u, e
<1>4. /\ u.gen = ui.gen /\ u.paged = ui.paged /\ u.worker = ui.worker /\ u.kind = ui.kind
      /\ u.canSort = ui.canSort /\ u.orderValid = ui.orderValid
      /\ ~u.inFlight /\ ~u.firstPending /\ u.token = e.token
      /\ u.bar = u.pager
      /\ u.vanishedAt = ui.vanishedAt /\ u.sortTotal = ui.sortTotal
      /\ u.countFailed = ui.countFailed
      /\ ui.sorting /\ ~ui.recovering =>
            u.committed = ui.pending /\ u.pending = Unsorted /\ ~u.sorting /\ ~u.recovering
      /\ ~ui.sorting \/ ui.recovering =>
            /\ u.committed = ui.committed /\ u.pending = ui.pending
            /\ u.sorting = ui.sorting /\ u.recovering = ui.recovering
  BY <1>2, ArrivedFields DEF u
<1> HIDE DEF b
<1>5. /\ ui'.gen = u.gen /\ ui'.paged = u.paged /\ ui'.worker = u.worker /\ ui'.kind = u.kind
      /\ ui'.canSort = u.canSort /\ ui'.orderValid = u.orderValid
      /\ ui'.inFlight = u.inFlight /\ ui'.firstPending = u.firstPending /\ ui'.token = u.token
      /\ ui'.pager = u.pager /\ ui'.bar = u.bar /\ ui'.status = u.status
      /\ ui'.vanishedAt = u.vanishedAt /\ ui'.sortTotal = u.sortTotal
      /\ ui'.countFailed = u.countFailed
      /\ ui'.committed = u.committed /\ ui'.pending = u.pending
      /\ ui'.sorting = u.sorting /\ ui'.recovering = u.recovering
  BY <1>1, <1>3 DEF Viewer
<1>6. SameLoad /\ SameCounts /\ (~ui.sorting \/ ui.recovering => SameOrder)
  BY <1>4, <1>5 DEF SameLoad, SameCounts, SameOrder
<1>7. ui'.pager = Arrived(e).pager /\ ui'.status = Arrived(e).status
  BY <1>5 DEF u
<1> QED
  BY <1>1, <1>4, <1>5, <1>6, <1>7 DEF e

\* A page that is not there any more.
LEMMA OnPageVanishedFacts ==
    ASSUME TypeOK, OnPageVanished
    PROVE  /\ Receive("pageReady") /\ Vanished(Head(events))
           /\ SameLoad /\ SameOrder
           /\ ui'.canSort = ui.canSort /\ ui'.firstPending = ui.firstPending
           /\ ~ui'.inFlight /\ ui'.token = ui.token
           /\ ui'.pager = [ui.pager EXCEPT !.hasMore = FALSE] /\ ui'.bar = ui'.pager
           /\ ui'.status = SetValueText(ui.status, Message)
           /\ ui'.vanishedAt = Cardinality(rows) /\ ui'.countFailed = ui.countFailed
           /\ \/ /\ HasCountWorker(ui) /\ ~ui.countFailed
                 /\ counts' = Append(counts, viewGen) /\ ~ui'.sortTotal
              \/ /\ ~HasCountWorker(ui) \/ ui.countFailed
                 /\ counts' = counts /\ ui'.sortTotal = ui.sortTotal
           /\ UNCHANGED <<viewGen, opGen, inbox, shown>>
<1> DEFINE p == [ui.pager EXCEPT !.hasMore = FALSE]
           status == SetValueText(ui.status, Message)
           n == Cardinality(rows)
           u == [ui EXCEPT !.inFlight = FALSE, !.busy = FALSE, !.pager = p, !.bar = p,
                           !.status = status, !.vanishedAt = n]
<1>1. /\ Receive("pageReady") /\ Vanished(Head(events))
      /\ UNCHANGED <<viewGen, opGen, inbox, shown>>
      /\ \/ /\ HasCountWorker(ui) /\ ~ui.countFailed
            /\ counts' = Append(counts, viewGen) /\ ui' = Recounting(u)
         \/ /\ ~HasCountWorker(ui) \/ ui.countFailed
            /\ counts' = counts /\ ui' = u
  BY DEF OnPageVanished
<1> HIDE DEF p, status, n
<1>2. /\ u.gen = ui.gen /\ u.paged = ui.paged /\ u.worker = ui.worker /\ u.kind = ui.kind
      /\ u.committed = ui.committed /\ u.pending = ui.pending
      /\ u.sorting = ui.sorting /\ u.recovering = ui.recovering
      /\ u.canSort = ui.canSort /\ u.orderValid = ui.orderValid
      /\ ~u.inFlight /\ u.firstPending = ui.firstPending /\ u.token = ui.token
      /\ u.pager = p /\ u.bar = p /\ u.status = status /\ u.vanishedAt = n
      /\ u.countFailed = ui.countFailed /\ u.sortTotal = ui.sortTotal
  BY StateTypes DEF Viewer
<1>3. /\ Recounting(u).gen = u.gen /\ Recounting(u).paged = u.paged
      /\ Recounting(u).worker = u.worker /\ Recounting(u).kind = u.kind
      /\ Recounting(u).committed = u.committed /\ Recounting(u).pending = u.pending
      /\ Recounting(u).sorting = u.sorting /\ Recounting(u).recovering = u.recovering
      /\ Recounting(u).canSort = u.canSort /\ Recounting(u).orderValid = u.orderValid
      /\ Recounting(u).inFlight = u.inFlight /\ Recounting(u).firstPending = u.firstPending
      /\ Recounting(u).token = u.token
      /\ Recounting(u).pager = u.pager /\ Recounting(u).bar = u.bar
      /\ Recounting(u).status = u.status /\ Recounting(u).vanishedAt = u.vanishedAt
      /\ Recounting(u).countFailed = u.countFailed /\ ~Recounting(u).sortTotal
  BY StateTypes DEF Recounting, Viewer
<1> HIDE DEF u
<1>4. CASE ui' = u
  BY <1>1, <1>2, <1>3, <1>4 DEF SameLoad, SameOrder, p, status, n
<1>5. CASE ui' = Recounting(u)
  BY <1>1, <1>2, <1>3, <1>5 DEF SameLoad, SameOrder, p, status, n
<1> QED
  BY <1>1, <1>4, <1>5

\* Going back to the order on display, in a step.
GoesBack ==
    /\ SameLoad /\ SameCounts
    /\ ui'.recovering /\ ~ui'.inFlight /\ ui'.sorting = ui.sorting
    /\ ui'.committed = ui.committed /\ ui'.pending = Unsorted
    /\ ui'.orderValid = ui.orderValid /\ ui'.canSort = ui.canSort
    /\ ui'.firstPending = ui.firstPending /\ ui'.token = ui.token /\ ui'.pager = ui.pager
    /\ ui'.bar = ui.bar
    /\ opGen' = opGen + 1
    /\ inbox' = Append(inbox, NewCall("open", viewGen, opGen', ui.kind))
    /\ Posted(NewCall("open", viewGen, opGen', ui.kind))

\* From any fields that differ in the status bar and the flags it resets.
LEMMA GoesBackFacts ==
    ASSUME TypeOK, NEW u \in Viewer, RecoverSort(u),
           u.gen = ui.gen, u.paged = ui.paged, u.worker = ui.worker, u.kind = ui.kind,
           u.sorting = ui.sorting, u.committed = ui.committed, u.orderValid = ui.orderValid,
           u.canSort = ui.canSort, u.firstPending = ui.firstPending, u.token = ui.token,
           u.pager = ui.pager, u.bar = ui.bar, u.vanishedAt = ui.vanishedAt,
           u.sortTotal = ui.sortTotal, u.countFailed = ui.countFailed
    PROVE  GoesBack
<1>1. /\ Recovering(u).vanishedAt = u.vanishedAt /\ Recovering(u).sortTotal = u.sortTotal
      /\ Recovering(u).countFailed = u.countFailed /\ Recovering(u).token = u.token
      /\ Recovering(u).pager = u.pager /\ Recovering(u).bar = u.bar
  BY DEF Recovering, Viewer
<1> QED
  BY <1>1, RecoverSortFacts DEF GoesBack, SameLoad, SameCounts

\* Cancelling a sort.
LEMMA CancelSortFacts ==
    ASSUME TypeOK, CancelSort
    PROVE  /\ ui.sorting /\ ~ui.recovering /\ GoesBack
           /\ ui'.pendingPage = ui.pendingPage /\ ui'.pendingFromPrev = ui.pendingFromPrev
           /\ UNCHANGED <<rows, viewGen, task, src, parked, events, shown, counts, countEvents>>
<1>1. ui \in Viewer /\ RecoverSort(ui)
  BY StateTypes DEF CancelSort
<1>2. GoesBack
  BY <1>1, GoesBackFacts
<1>3. ui'.pendingPage = ui.pendingPage /\ ui'.pendingFromPrev = ui.pendingFromPrev
  BY <1>1 DEF RecoverSort, Recovering, Viewer
<1> QED
  BY <1>2, <1>3 DEF CancelSort

\* A page that could not be read.
LEMMA OnPageFailedFacts ==
    ASSUME TypeOK, OnPageFailed
    PROVE  /\ Receive("pageReady") /\ ~Head(events).ok
           /\ UNCHANGED <<viewGen, shown, counts>>
           /\ \/ ui.sorting /\ GoesBack
              \/ /\ ~ui.sorting /\ SameLoad /\ SameOrder /\ SameCounts
                 /\ ui'.canSort = ui.canSort /\ ui'.firstPending = ui.firstPending
                 /\ ~ui'.inFlight /\ ui'.token = ui.token /\ ui'.pager = ui.pager
                 /\ ui'.bar = ui.bar /\ ui'.status = SetValueText(ui.status, Message)
                 /\ UNCHANGED <<opGen, inbox>>
<1> DEFINE u == [ui EXCEPT !.inFlight = FALSE, !.busy = FALSE]
           v == [u EXCEPT !.pendingPage = ui.pager.page,
                          !.status = SetValueText(u.status, Message)]
<1>1. /\ Receive("pageReady") /\ ~Head(events).ok
      /\ UNCHANGED <<viewGen, shown, counts>>
      /\ \/ ui.sorting /\ RecoverSort(u)
         \/ ~ui.sorting /\ ui' = v /\ UNCHANGED <<opGen, inbox>>
  BY DEF OnPageFailed
<1>2. u \in Viewer
  BY StateTypes DEF Viewer
<1>3. /\ u.gen = ui.gen /\ u.paged = ui.paged /\ u.worker = ui.worker /\ u.kind = ui.kind
      /\ u.sorting = ui.sorting /\ u.committed = ui.committed /\ u.orderValid = ui.orderValid
      /\ u.canSort = ui.canSort /\ u.firstPending = ui.firstPending /\ u.token = ui.token
      /\ u.pager = ui.pager /\ u.bar = ui.bar /\ u.vanishedAt = ui.vanishedAt
      /\ u.sortTotal = ui.sortTotal /\ u.countFailed = ui.countFailed
  BY StateTypes DEF Viewer
<1>4. CASE ui.sorting /\ RecoverSort(u)
  <2> HIDE DEF u
  <2> QED
    BY <1>1, <1>2, <1>3, <1>4, GoesBackFacts
<1>5. CASE ~ui.sorting /\ ui' = v /\ UNCHANGED <<opGen, inbox>>
  BY <1>1, <1>5, StateTypes DEF SameLoad, SameOrder, SameCounts, Viewer
<1> QED
  BY <1>1, <1>4, <1>5

\* A sort that ended.
LEMMA OnSortCompletedFacts ==
    ASSUME TypeOK, OnSortCompleted
    PROVE  /\ Receive("sortCompleted")
           /\ UNCHANGED <<viewGen, shown, counts>>
           /\ \/ /\ ui.recovering /\ Recovered /\ inbox' = inbox /\ opGen' = opGen
                 /\ \/ Head(events).ok /\ ui'.orderValid = ui.orderValid /\ ui'.canSort = ui.canSort
                    \/ ~ui'.orderValid /\ ~ui'.canSort
              \/ ~ui.recovering /\ GoesBack
              \/ /\ ~ui.recovering /\ Head(events).ok
                 /\ SameLoad /\ SameOrder
                 /\ ui'.canSort = ui.canSort /\ ui'.firstPending = ui.firstPending
                 /\ ui'.inFlight /\ ui'.token = ui.token
                 /\ ui'.pager = [ui.pager EXCEPT !.total = Head(events).total]
                 /\ ui'.status = ui.status
                 /\ ui'.pendingPage = 1 /\ ~ui'.pendingFromPrev
                 /\ ui'.vanishedAt = ui.vanishedAt /\ ui'.countFailed = ui.countFailed
                 /\ ui'.sortTotal
                 /\ opGen' = opGen
                 /\ inbox' = Append(inbox, PageCall("first", opGen, NoToken, NoTotal))
                 /\ Posted(PageCall("first", opGen, NoToken, NoTotal))
<1> DEFINE e == Head(events)
           failed == [ui EXCEPT !.status = SetValueText(ui.status, Message)]
           p == [ui.pager EXCEPT !.total = e.total]
           sorted == [ui EXCEPT !.sortTotal = TRUE, !.pager = p, !.pendingPage = 1,
                                !.pendingFromPrev = FALSE, !.inFlight = TRUE]
<1>1. /\ Receive("sortCompleted") /\ UNCHANGED <<viewGen, shown, counts>>
      /\ \/ /\ ui.recovering /\ inbox' = inbox /\ opGen' = opGen
            /\ \/ e.ok /\ ui' = FinishSortRecovery(ui)
               \/ ui' = FailSortRecovery(ui)
         \/ ~ui.recovering /\ RecoverSort(failed)
         \/ /\ ~ui.recovering /\ e.ok /\ ui' = sorted /\ UNCHANGED opGen
            /\ inbox' = Append(inbox, PageCall("first", opGen, NoToken, NoTotal))
  BY DEF OnSortCompleted, Post
<1>2. ui \in Viewer /\ failed \in Viewer
  <2>1. SetValueText(ui.status, Message) \in Bar
    BY StateTypes, SetterTypes, TextTypes
  <2>2. ui \in Viewer
    BY StateTypes
  <2> QED
    BY <2>1, <2>2 DEF Viewer
<1>3. CASE /\ ui.recovering /\ inbox' = inbox /\ opGen' = opGen
           /\ \/ e.ok /\ ui' = FinishSortRecovery(ui)
              \/ ui' = FailSortRecovery(ui)
  <2>1. Recovered
    BY <1>2, <1>3, RecoveryFields DEF Recovered, SameLoad, SameCounts
  <2> QED
    BY <1>1, <1>2, <1>3, <2>1, RecoveryFields
<1>4. CASE ~ui.recovering /\ RecoverSort(failed)
  <2>1. /\ failed.gen = ui.gen /\ failed.paged = ui.paged /\ failed.worker = ui.worker
        /\ failed.kind = ui.kind
        /\ failed.sorting = ui.sorting /\ failed.committed = ui.committed
        /\ failed.orderValid = ui.orderValid
        /\ failed.canSort = ui.canSort /\ failed.firstPending = ui.firstPending
        /\ failed.token = ui.token
        /\ failed.pager = ui.pager /\ failed.bar = ui.bar /\ failed.vanishedAt = ui.vanishedAt
        /\ failed.sortTotal = ui.sortTotal /\ failed.countFailed = ui.countFailed
    BY <1>2 DEF Viewer
  <2> HIDE DEF failed
  <2> QED
    BY <1>1, <1>2, <1>4, <2>1, GoesBackFacts
<1>5. CASE /\ ~ui.recovering /\ e.ok /\ ui' = sorted /\ UNCHANGED opGen
           /\ inbox' = Append(inbox, PageCall("first", opGen, NoToken, NoTotal))
  <2>1. Posted(PageCall("first", opGen, NoToken, NoTotal))
    <3>1. PageCall("first", opGen, NoToken, NoTotal) \in Call
      BY StateTypes, FieldTypes, PageCallType DEF PageOps
    <3> QED
      BY <3>1, CallFields DEF Posted
  <2>2. /\ SameLoad /\ SameOrder
        /\ ui'.canSort = ui.canSort /\ ui'.firstPending = ui.firstPending
        /\ ui'.inFlight /\ ui'.token = ui.token /\ ui'.pager = p /\ ui'.status = ui.status
        /\ ui'.pendingPage = 1 /\ ~ui'.pendingFromPrev
        /\ ui'.vanishedAt = ui.vanishedAt /\ ui'.countFailed = ui.countFailed
        /\ ui'.sortTotal
    <3> HIDE DEF p
    <3> QED
      BY <1>2, <1>5 DEF SameLoad, SameOrder, Viewer
  <2> QED
    BY <1>1, <1>5, <2>1, <2>2
<1> QED
  BY <1>1, <1>3, <1>4, <1>5

\* What a reset leaves of the fields, in a step.
WasReset ==
    /\ ui'.gen = ui.gen + 1
    /\ ~ui'.sorting /\ ~ui'.recovering /\ ~ui'.inFlight /\ ~ui'.canSort /\ ui'.orderValid
    /\ ui'.committed = Unsorted /\ ui'.pending = Unsorted /\ ui'.token = NoToken
    /\ ui'.pager = FreshPager /\ ui'.bar = FreshPager
    /\ ui'.vanishedAt = NoTotal /\ ~ui'.sortTotal /\ ~ui'.countFailed

\* Leaving a table, or not getting it open.
LEMMA LeaveFacts ==
    ASSUME TypeOK, LeaveTable \/ OnOpenFailed
    PROVE  /\ WasReset /\ ~ui'.paged /\ ~ui'.worker /\ ~ui'.firstPending
           /\ viewGen' = viewGen + 1 /\ opGen' = opGen + 1
           /\ \/ inbox' = inbox
              \/ inbox' = Append(inbox, NewCall("shutdown", viewGen, opGen, ui.kind))
           /\ UNCHANGED <<rows, task, src, parked, counts, countEvents>>
           /\ (LeaveTable /\ UNCHANGED events) \/ (Receive("openCompleted") /\ ~ui.recovering)
           /\ shown' = NothingShown \/ shown' = shown
<1>1. PICK status : CancelPending(status)
  BY DEF LeaveTable, OnOpenFailed
<1>2. /\ UNCHANGED <<rows, task, src, parked, counts, countEvents>>
      /\ (LeaveTable /\ UNCHANGED events) \/ (Receive("openCompleted") /\ ~ui.recovering)
      /\ shown' = NothingShown \/ shown' = shown
  BY DEF LeaveTable, OnOpenFailed, Receive
<1>3. WasReset /\ ~ui'.paged /\ ~ui'.worker /\ ~ui'.firstPending
  BY <1>1 DEF CancelPending, Cancelled, Reset, WasReset
<1> QED
  BY <1>1, <1>2, <1>3 DEF CancelPending

\* Loading a table.
LEMMA LoadFacts ==
    ASSUME TypeOK, LoadSelectedTable
    PROVE  /\ WasReset /\ ui'.paged /\ ui'.worker /\ ui'.firstPending /\ ui'.kind \in Kinds
           /\ viewGen' = ui.gen + 1 /\ opGen' = 1
           /\ inbox' = <<NewCall("open", viewGen', 1, ui'.kind)>>
           /\ task' = NoCall /\ src' = NoSource /\ parked' = NoCall
           /\ rows' \in Tables /\ shown' = NothingShown /\ counts' = <<>>
           /\ UNCHANGED <<events, countEvents>>
<1>1. PICK kind \in Kinds :
         /\ ui' = [Cancelled(ui.gen + 1) EXCEPT !.paged = TRUE, !.firstPending = TRUE,
                                                !.worker = TRUE, !.kind = kind,
                                                !.status = ShowLoading(Cancelled(ui.gen + 1).status)]
         /\ NewWorker(ui.gen + 1, 1, kind)
  BY DEF LoadSelectedTable, Cancelled, Reset
<1>2. /\ WasReset /\ ui'.paged /\ ui'.worker /\ ui'.firstPending /\ ui'.kind = kind
  BY <1>1 DEF Cancelled, Reset, WasReset
<1> QED
  BY <1>1, <1>2 DEF LoadSelectedTable, NewWorker

\* The table is left: everything on its way belongs to the past.
LEMMA LoadsLeave ==
    TypeOK /\ TypeOK' /\ LoadsInv /\ (LeaveTable \/ OnOpenFailed) => LoadsInv'
<1> SUFFICES ASSUME TypeOK, TypeOK', LoadsInv, LeaveTable \/ OnOpenFailed PROVE LoadsInv'
  OBVIOUS
<1>1. /\ ui'.gen = ui.gen + 1 /\ ~ui'.sorting /\ ~ui'.paged /\ ~ui'.worker
      /\ viewGen' = viewGen + 1 /\ opGen' = opGen + 1
      /\ \/ inbox' = inbox
         \/ inbox' = Append(inbox, NewCall("shutdown", viewGen, opGen, ui.kind))
      /\ UNCHANGED <<task, src, parked, counts, countEvents>>
      /\ shown' = NothingShown \/ shown' = shown
  BY LeaveFacts DEF WasReset
<1>2. viewGen \in Nat /\ opGen \in Nat
  BY StateTypes
<1>3. ui'.worker = ui'.paged
  <2>1. ui' \in Viewer
    BY DEF TypeOK
  <2> QED
    BY <1>1, <2>1 DEF Viewer
<1>4. \A i \in DOMAIN inbox' : inbox'[i].view < viewGen'
  <2>1. \A i \in DOMAIN inbox : inbox[i].view <= viewGen
    BY <1>2, Numbers, StateTypes DEF LoadsInv, CallBelongs, Here
  <2>2. NewCall("shutdown", viewGen, opGen, ui.kind) \in Call /\ inbox \in Seq(Call)
    BY StateTypes, NewCallType DEF Ops
  <2>3. \A i \in DOMAIN inbox' : (i \in DOMAIN inbox /\ inbox'[i] = inbox[i])
                                 \/ inbox'[i] = NewCall("shutdown", viewGen, opGen, ui.kind)
    <3>1. CASE inbox' = inbox
      BY <3>1
    <3>2. CASE inbox' = Append(inbox, NewCall("shutdown", viewGen, opGen, ui.kind))
      BY <2>2, <3>2, QueueAppend
    <3> QED
      BY <1>1, <3>1, <3>2
  <2>4. NewCall("shutdown", viewGen, opGen, ui.kind).view = viewGen
    BY CallFields
  <2>5. \A i \in DOMAIN inbox : inbox[i].view \in Nat
    BY StateTypes, Numbers
  <2> HIDE DEF Call
  <2> QED
    BY <1>1, <1>2, <2>1, <2>3, <2>4, <2>5
<1>5. \A i \in DOMAIN events' : events'[i].view < viewGen'
  <2>1. \A i \in DOMAIN events' : \E j \in DOMAIN events : events'[i] = events[j]
    <3>1. events' = events \/ (events # <<>> /\ events' = Tail(events))
      BY LeaveFacts DEF Receive
    <3>2. events \in Seq(Event)
      BY StateTypes
    <3> QED
      BY <3>1, <3>2, QueueTail
  <2>2. \A i \in DOMAIN events : events[i].view \in Nat /\ events[i].view <= viewGen
    BY <1>2, Numbers, StateTypes DEF LoadsInv, Past
  <2> QED
    BY <1>1, <1>2, <2>1, <2>2
<1>6. /\ task # NoCall => task.view < viewGen'
      /\ parked # NoCall => parked.view < viewGen'
      /\ src.kind # "none" => src.view < viewGen'
  <2>1. task.view \in Nat /\ parked.view \in Nat /\ src.view \in Nat
    BY StateTypes DEF WorkerTypeOK, Call, Source
  <2> QED
    BY <1>1, <1>2, <2>1 DEF LoadsInv, CallBelongs, Here
<1>7. /\ \A i \in DOMAIN counts : counts[i] < viewGen'
      /\ \A i \in DOMAIN countEvents : countEvents[i].view < viewGen'
  <2>1. /\ \A i \in DOMAIN counts : counts[i] \in Nat
        /\ \A i \in DOMAIN countEvents : countEvents[i].view \in Nat
    BY CountTypes
  <2> QED
    BY <1>1, <1>2, <2>1 DEF LoadsInv, Past, Here
<1>8. shown'.view <= viewGen'
  <2>1. shown.view \in Nat /\ NothingShown.view = 0
    BY StateTypes DEF NothingShown
  <2> QED
    BY <1>1, <1>2, <2>1 DEF LoadsInv
<1>9. viewGen' = ui'.gen
  BY <1>1 DEF LoadsInv
<1> QED
  BY <1>1, <1>3, <1>4, <1>5, <1>6, <1>7, <1>8, <1>9 DEF LoadsInv, CallBelongs, Here, Past

\* The next table is loaded.
LEMMA LoadsLoad ==
    TypeOK /\ TypeOK' /\ LoadsInv /\ LoadSelectedTable => LoadsInv'
<1> SUFFICES ASSUME TypeOK, TypeOK', LoadsInv, LoadSelectedTable PROVE LoadsInv'
  OBVIOUS
<1>1. /\ ui'.gen = ui.gen + 1 /\ ~ui'.sorting /\ ui'.paged /\ ui'.worker
      /\ viewGen' = ui.gen + 1 /\ opGen' = 1
      /\ inbox' = <<NewCall("open", viewGen', 1, ui'.kind)>>
      /\ task' = NoCall /\ src' = NoSource /\ parked' = NoCall
      /\ shown' = NothingShown /\ counts' = <<>>
      /\ UNCHANGED <<events, countEvents>>
  BY LoadFacts DEF WasReset
<1>2. viewGen \in Nat /\ viewGen' = viewGen + 1
  BY <1>1, StateTypes DEF LoadsInv
<1>3. ui'.worker = ui'.paged
  <2>1. ui' \in Viewer
    BY DEF TypeOK
  <2> QED
    BY <1>1, <2>1 DEF Viewer
<1>4. /\ \A i \in DOMAIN events : events[i].view <= viewGen'
      /\ \A i \in DOMAIN countEvents : countEvents[i].view <= viewGen'
  <2>1. \A i \in DOMAIN events : events[i].view \in Nat
    BY Numbers, StateTypes
  <2>2. \A i \in DOMAIN countEvents : countEvents[i].view \in Nat
    BY CountTypes
  <2> QED
    BY <1>2, <2>1, <2>2 DEF LoadsInv, Past
<1>5. inbox'[1].view = viewGen' /\ inbox'[1].kind = ui'.kind /\ inbox'[1].op = "open"
      /\ DOMAIN inbox' = {1}
  <2>1. inbox'[1] = NewCall("open", viewGen', 1, ui'.kind) /\ DOMAIN inbox' = {1}
    BY <1>1
  <2> QED
    BY <2>1 DEF NewCall
<1>6. NoSource.kind = "none" /\ NoSource.order = Unsorted /\ NothingShown.view = 0
  BY DEF NoSource, EmptySource, NothingShown
<1> QED
  BY <1>1, <1>2, <1>3, <1>4, <1>5, <1>6 DEF LoadsInv, CallBelongs, Here, Past

\* News, the status bar, others writing.
LEMMA LoadsAside ==
    TypeOK /\ TypeOK' /\ LoadsInv /\ Aside => LoadsInv'
<1> SUFFICES ASSUME TypeOK, TypeOK', LoadsInv, Aside PROVE LoadsInv'
  OBVIOUS
<1>1. SameUi /\ UNCHANGED <<viewGen, opGen, inbox, task, src, parked, shown>>
  BY AsideFacts
<1>2. /\ ui'.gen = ui.gen /\ ui'.paged = ui.paged /\ ui'.worker = ui.worker /\ ui'.kind = ui.kind
      /\ ui'.sorting = ui.sorting
  BY <1>1 DEF SameUi, SameLoad
<1>3. \A i \in DOMAIN events' : \E j \in DOMAIN events : events'[i] = events[j]
  <2>1. events' = events \/ (events # <<>> /\ events' = Tail(events))
    BY DEF Aside, ClickUnsortable, SelectCell, IgnoreStaleSignal, OnIndexProgress, Receive,
           Count, OnCountCompleted, DeleteRow, vars, workerVars
  <2>2. events \in Seq(Event)
    BY StateTypes
  <2> QED
    BY <2>1, <2>2, QueueTail
<1>4. \A i \in DOMAIN counts' : \E j \in DOMAIN counts : counts'[i] = counts[j]
  <2>1. counts' = counts \/ (counts # <<>> /\ counts' = Tail(counts))
    BY DEF Aside, ClickUnsortable, SelectCell, IgnoreStaleSignal, OnIndexProgress, Receive,
           Count, OnCountCompleted, DeleteRow, vars, workerVars, guiVars
  <2>2. counts \in Seq(Nat)
    BY StateTypes
  <2> QED
    BY <2>1, <2>2, QueueTail
<1>5. \A i \in DOMAIN countEvents' :
         (\E j \in DOMAIN countEvents : countEvents'[i] = countEvents[j])
         \/ Past(countEvents'[i].view)
  <2> DEFINE Counting == [view : Nat, ok : BOOLEAN, total : Nat]
  <2>1. \/ countEvents' = countEvents
        \/ countEvents # <<>> /\ countEvents' = Tail(countEvents)
        \/ /\ counts # <<>> /\ Head(counts) = viewGen
           /\ \E ok \in BOOLEAN : countEvents' = Append(countEvents, CountResult(ok))
    BY DEF Aside, ClickUnsortable, SelectCell, IgnoreStaleSignal, OnIndexProgress, Receive,
           Count, OnCountCompleted, DeleteRow, vars, workerVars, guiVars
  <2>2. countEvents \in Seq(Counting)
    BY StateTypes
  <2>3. \A ok \in BOOLEAN : CountResult(ok) \in Counting /\ CountResult(ok).view = viewGen
    BY StateTypes, RowsFinite DEF CountResult
  <2> HIDE DEF Counting
  <2>4. CASE countEvents # <<>> /\ countEvents' = Tail(countEvents)
    BY <2>2, <2>4, QueueTail
  <2>5. ASSUME counts # <<>>, Head(counts) = viewGen,
               NEW ok \in BOOLEAN, countEvents' = Append(countEvents, CountResult(ok))
        PROVE  \A i \in DOMAIN countEvents' :
                  (\E j \in DOMAIN countEvents : countEvents'[i] = countEvents[j])
                  \/ Past(countEvents'[i].view)
    <3>1. 1 \in DOMAIN counts /\ counts[1] = viewGen
      <4>1. counts \in Seq(Nat)
        BY StateTypes
      <4> QED
        BY <2>5, <4>1, QueueTail
    <3>2. Past(viewGen)
      BY <3>1, StateTypes DEF LoadsInv, Here, Past
    <3>3. \A i \in DOMAIN countEvents' : i \in DOMAIN countEvents \/ countEvents'[i] = CountResult(ok)
      BY <2>2, <2>3, <2>5, QueueAppend
    <3>4. \A i \in DOMAIN countEvents : countEvents'[i] = countEvents[i]
      BY <2>2, <2>3, <2>5, QueueAppend
    <3> HIDE DEF Past
    <3> QED
      BY <2>3, <3>2, <3>3, <3>4
  <2> QED
    BY <2>1, <2>4, <2>5
<1>6. shown'.view <= viewGen
  BY <1>1 DEF LoadsInv
<1>7. opGen' >= opGen /\ (ui'.sorting => ui.paged)
  BY <1>1, <1>2, StateTypes DEF LoadsInv
<1> QED
  BY <1>1, <1>2, <1>3, <1>4, <1>5, <1>6, <1>7, LoadsQuiet

\* The handlers that stay in the load, and the buttons.
LEMMA LoadsHandlers ==
    ASSUME TypeOK, TypeOK', LoadsInv,
           \/ TurnPage \/ OnOpened \/ OnReopened \/ OnPageReady \/ OnPageVanished \/ OnPageFailed
           \/ OnSortCompleted
    PROVE  LoadsInv'
<1>1. opGen \in Nat
  BY StateTypes
<1>2. CASE TurnPage
  <2>1. ui.paged /\ opGen' = opGen + 1 /\ SameLoad
        /\ UNCHANGED <<viewGen, task, src, parked, events, shown, counts, countEvents>>
    BY <1>2, TurnPageFacts
  <2>2. \E c : Posted(c) /\ inbox' = Append(inbox, c)
    BY <1>2, TurnPageFacts
  <2>3. opGen' >= opGen
    BY <1>1, <2>1
  <2> QED
    BY <2>1, <2>2, <2>3, LoadsStep DEF SameLoad
<1>3. CASE OnOpened
  <2>1. ui.paged /\ events # <<>> /\ events' = Tail(events) /\ UNCHANGED <<task, src, parked, countEvents>>
    BY <1>3, OnOpenedFacts, ReceiveShape
  <2> QED
    BY <1>1, <1>3, <2>1, OnOpenedFacts, LoadsStep DEF SameLoad
<1>4. CASE OnReopened
  <2>1. ui.paged /\ events # <<>> /\ events' = Tail(events) /\ UNCHANGED <<task, src, parked, countEvents>>
    BY <1>4, OnReopenedFacts, ReceiveShape
  <2>2. SameLoad /\ (inbox' = inbox \/ \E c : Posted(c) /\ inbox' = Append(inbox, c))
    BY <1>4, OnReopenedFacts DEF Recovered
  <2>3. UNCHANGED <<viewGen, opGen, shown, counts>>
    BY <1>4, OnReopenedFacts
  <2> QED
    BY <1>1, <2>1, <2>2, <2>3, LoadsStep DEF SameLoad
<1>5. CASE OnPageReady
  <2>1. ui.paged /\ events # <<>> /\ events' = Tail(events) /\ UNCHANGED <<task, src, parked, countEvents>>
    BY <1>5, OnPageReadyFacts, ReceiveShape
  <2>2. SameLoad /\ UNCHANGED <<viewGen, opGen, inbox>> /\ shown'.view = ui.gen
    BY <1>5, OnPageReadyFacts
  <2>3. counts' = counts \/ counts' = Append(counts, viewGen)
    BY <1>5, OnPageReadyFacts
  <2> QED
    BY <1>1, <2>1, <2>2, <2>3, LoadsStep DEF SameLoad
<1>6. CASE OnPageVanished
  <2>1. ui.paged /\ events # <<>> /\ events' = Tail(events) /\ UNCHANGED <<task, src, parked, countEvents>>
    BY <1>6, OnPageVanishedFacts, ReceiveShape
  <2>2. SameLoad /\ UNCHANGED <<viewGen, opGen, inbox, shown>>
    BY <1>6, OnPageVanishedFacts
  <2>3. counts' = counts \/ counts' = Append(counts, viewGen)
    BY <1>6, OnPageVanishedFacts
  <2> QED
    BY <1>1, <2>1, <2>2, <2>3, LoadsStep DEF SameLoad
<1>7. CASE OnPageFailed
  <2>1. ui.paged /\ events # <<>> /\ events' = Tail(events) /\ UNCHANGED <<task, src, parked, countEvents>>
    BY <1>7, OnPageFailedFacts, ReceiveShape
  <2>2. SameLoad /\ UNCHANGED <<viewGen, shown, counts>> /\ opGen' >= opGen
        /\ (inbox' = inbox \/ \E c : Posted(c) /\ inbox' = Append(inbox, c))
    BY <1>1, <1>7, OnPageFailedFacts DEF GoesBack
  <2> QED
    BY <2>1, <2>2, LoadsStep DEF SameLoad
<1>8. CASE OnSortCompleted
  <2>1. ui.paged /\ events # <<>> /\ events' = Tail(events) /\ UNCHANGED <<task, src, parked, countEvents>>
    BY <1>8, OnSortCompletedFacts, ReceiveShape
  <2>2. SameLoad /\ UNCHANGED <<viewGen, shown, counts>> /\ opGen' >= opGen
        /\ (inbox' = inbox \/ \E c : Posted(c) /\ inbox' = Append(inbox, c))
    BY <1>1, <1>8, OnSortCompletedFacts DEF GoesBack, Recovered
  <2> QED
    BY <2>1, <2>2, LoadsStep DEF SameLoad
<1> QED
  BY <1>2, <1>3, <1>4, <1>5, <1>6, <1>7, <1>8
\* A step of the worker: its new source and its calls are of the load it serves.
LEMMA LoadsWorkerStep ==
    ASSUME TypeOK, TypeOK', LoadsInv, UNCHANGED <<viewGen, opGen, ui, shown, counts, countEvents>>,
           \A i \in DOMAIN inbox' :
               (\E j \in DOMAIN inbox : inbox'[i] = inbox[j]) \/ CallBelongs(inbox'[i]),
           \/ task' \in {task, NoCall}
           \/ CallBelongs(task') /\ task'.op \in {"open", "sort"},
           parked' \in {parked, NoCall} \/ CallBelongs(parked'),
           \A i \in DOMAIN events' :
               (\E j \in DOMAIN events : events'[i] = events[j]) \/ Past(events'[i].view),
           \/ src' = NoSource
           \/ src'.kind # "none" /\ CallBelongs(task) /\ src'.kind = task.kind
              /\ src'.view = task.view /\ src'.order = Unsorted
           \/ src'.kind = src.kind /\ src'.view = src.view
              /\ (src.kind = "none" => src' = src)
              /\ (src'.order # Unsorted => src.kind = "rowid")
    PROVE  LoadsInv'
<1>1. NoSource.kind = "none" /\ NoSource.order = Unsorted
  BY DEF NoSource, EmptySource
<1>2. \A i \in DOMAIN inbox' : CallBelongs(inbox[i])'
  BY DEF LoadsInv, CallBelongs, Here
<1>3. \A i \in DOMAIN events' : Past(events[i].view)'
  BY DEF LoadsInv, Past
<1>4. task' # NoCall => CallBelongs(task)' /\ task'.op \in {"open", "sort"}
  BY DEF LoadsInv, CallBelongs, Here
<1>5. parked' # NoCall => CallBelongs(parked)'
  BY DEF LoadsInv, CallBelongs, Here
<1>6. /\ src'.kind # "none" => Here(src.view)' /\ (ui'.paged => src'.kind = ui'.kind)
      /\ src'.kind = "none" => src' = NoSource
      /\ src'.order # Unsorted => src'.kind = "rowid"
  BY <1>1 DEF LoadsInv, CallBelongs, Here
<1>7. /\ viewGen' = ui'.gen /\ ui'.worker = ui'.paged /\ (ui'.sorting => ui'.paged)
      /\ ui'.paged => viewGen' > 0 /\ opGen' > 0
      /\ \A i \in DOMAIN counts' : Here(counts[i])'
      /\ \A i \in DOMAIN countEvents' : Past(countEvents[i].view)'
      /\ shown'.view <= viewGen'
  BY DEF LoadsInv, Here, Past
<1> QED
  BY <1>2, <1>3, <1>4, <1>5, <1>6, <1>7 DEF LoadsInv

\* The first call on the queue, and the ones behind it.
LEMMA InboxTail ==
    ASSUME TypeOK, inbox # <<>>
    PROVE  /\ Head(inbox) \in Call /\ 1 \in DOMAIN inbox /\ inbox[1] = Head(inbox)
           /\ Tail(inbox) \in Seq(Call)
           /\ \A i \in DOMAIN Tail(inbox) : i + 1 \in DOMAIN inbox /\ Tail(inbox)[i] = inbox[i + 1]
BY StateTypes, QueueTail

\* And those once one more is queued behind them.
LEMMA InboxCycled ==
    ASSUME TypeOK, inbox # <<>>, inbox' = Tail(inbox) \/ inbox' = Append(Tail(inbox), Head(inbox))
    PROVE  \A i \in DOMAIN inbox' :
              \/ (i \in DOMAIN Tail(inbox) /\ i + 1 \in DOMAIN inbox /\ inbox'[i] = inbox[i + 1])
              \/ inbox'[i] = Head(inbox)
<1>1. /\ Head(inbox) \in Call /\ Tail(inbox) \in Seq(Call)
      /\ \A i \in DOMAIN Tail(inbox) : i + 1 \in DOMAIN inbox /\ Tail(inbox)[i] = inbox[i + 1]
  BY InboxTail
<1>2. CASE inbox' = Tail(inbox)
  BY <1>1, <1>2
<1>3. CASE inbox' = Append(Tail(inbox), Head(inbox))
  <2>1. \A i \in DOMAIN inbox' :
           (i \in DOMAIN Tail(inbox) /\ inbox'[i] = Tail(inbox)[i]) \/ inbox'[i] = Head(inbox)
    BY <1>1, <1>3, QueueAppend
  <2> QED
    BY <1>1, <2>1
<1> QED
  BY <1>2, <1>3

\* The signals once some were added: those that were there, and the new ones.
LEMMA EventsAdded ==
    ASSUME NEW q \in Seq(Event), NEW e \in Event
    PROVE  /\ Append(q, e) \in Seq(Event)
           /\ \A i \in DOMAIN Append(q, e) :
                 (i \in DOMAIN q /\ Append(q, e)[i] = q[i]) \/ (i = Len(q) + 1 /\ Append(q, e)[i] = e)
BY QueueAppend, QueueLast

\* The worker stays within the load it was made for.
LEMMA LoadsWorker ==
    TypeOK /\ TypeOK' /\ LoadsInv /\ WorkerStep => LoadsInv'
<1> SUFFICES ASSUME TypeOK, TypeOK', LoadsInv, WorkerStep PROVE LoadsInv'
  OBVIOUS
<1>1. UNCHANGED <<ui, shown, counts, countEvents>> /\ WorkerTypeOK /\ events \in Seq(Event)
      /\ inbox \in Seq(Call) /\ src \in Source
  BY StateTypes DEF WorkerStep, guiVars, WorkerTypeOK
<1>2. inbox # <<>> => CallBelongs(Head(inbox))
  BY InboxTail DEF LoadsInv
<1>3. Past(viewGen) => TRUE
  OBVIOUS
<1>4. \A c \in Call : CallBelongs(c) => Past(c.view)
  BY <1>1, StateTypes DEF CallBelongs, Here, Past, Call
<1>5. CASE BeginTask
  <2>1. /\ inbox # <<>> /\ inbox' = Tail(inbox) /\ UNCHANGED <<viewGen, opGen, src, events>>
        /\ Head(inbox).op \in {"open", "sort"}
        /\ \/ UNCHANGED <<task, parked>>
           \/ task' = Head(inbox) /\ parked' \in {parked, NoCall}
    BY <1>1, <1>5, BeginTaskFacts
  <2>2. \A i \in DOMAIN inbox' : \E j \in DOMAIN inbox : inbox'[i] = inbox[j]
    BY <2>1, InboxTail
  <2>3. src' = src /\ (src.order # Unsorted => src.kind = "rowid")
    BY <2>1 DEF LoadsInv
  <2> HIDE DEF CallBelongs
  <2> QED
    BY <1>1, <1>2, <2>1, <2>2, <2>3, LoadsWorkerStep
<1>6. CASE FinishOpen
  <2>1. /\ task.op = "open" /\ task' = NoCall /\ UNCHANGED <<viewGen, opGen, parked>>
        /\ src' \in OpenOutcomes(task)
        /\ \/ inbox' = inbox
           \/ inbox' = Append(inbox, NewCall("slice", task.view, 0, "csv")) /\ src'.kind = "csv"
        /\ \/ events' = events
           \/ \E done \in Event : /\ done.view = task.view
                                  /\ \/ events' = Append(events, done)
                                     \/ events' = Append(Append(events, done), Progress(task.view, src'))
    BY <1>1, <1>6, FinishOpenFacts
  <2>2. task \in Call /\ task # NoCall /\ task.view \in Nat
    BY <1>1, <2>1, NoCallType DEF WorkerTypeOK, Call
  <2>3. CallBelongs(task) /\ Past(task.view)
    BY <1>4, <2>2 DEF LoadsInv
  <2>4. src' \in Source /\ src'.kind = task.kind /\ src'.view = task.view /\ src'.order = Unsorted
        /\ src'.kind # "none"
    BY <1>1, <2>1, <2>2, OpenOutcomesFacts DEF Call, Kind
  <2>5. \A i \in DOMAIN inbox' :
           (\E j \in DOMAIN inbox : inbox'[i] = inbox[j]) \/ CallBelongs(inbox'[i])
    <3> DEFINE slice == NewCall("slice", task.view, 0, "csv")
    <3>1. slice \in Call /\ slice.op = "slice" /\ slice.view = task.view /\ slice.kind = "csv"
      BY <2>2, NewCallType DEF NewCall, Ops, Kind
    <3> HIDE DEF slice
    <3>2. src'.kind = "csv" => CallBelongs(slice)
      BY <2>3, <2>4, <3>1 DEF CallBelongs
    <3>3. CASE inbox' = inbox
      BY <3>3
    <3>4. CASE inbox' = Append(inbox, slice) /\ src'.kind = "csv"
      BY <1>1, <3>1, <3>2, <3>4, QueueAppend
    <3> QED
      BY <2>1, <3>3, <3>4 DEF slice
  <2>6. \A i \in DOMAIN events' :
           (\E j \in DOMAIN events : events'[i] = events[j]) \/ Past(events'[i].view)
    <3>1. Progress(task.view, src') \in Event /\ Progress(task.view, src').view = task.view
      <4>1. Progress(task.view, src') \in Event
        BY <2>2, <2>4, ProgressType
      <4>2. Progress(task.view, src').view = task.view
        BY EventFields
      <4> QED
        BY <4>1, <4>2
    <3>2. CASE events' = events
      BY <3>2
    <3>3. ASSUME NEW done \in Event, done.view = task.view,
                 \/ events' = Append(events, done)
                 \/ events' = Append(Append(events, done), Progress(task.view, src'))
          PROVE  \A i \in DOMAIN events' :
                    (\E j \in DOMAIN events : events'[i] = events[j]) \/ Past(events'[i].view)
      <4>1. /\ Append(events, done) \in Seq(Event)
            /\ \A i \in DOMAIN Append(events, done) :
                  (i \in DOMAIN events /\ Append(events, done)[i] = events[i])
                  \/ Append(events, done)[i] = done
        BY <1>1, EventsAdded
      <4>2. \A i \in DOMAIN Append(Append(events, done), Progress(task.view, src')) :
               (i \in DOMAIN Append(events, done)
                /\ Append(Append(events, done), Progress(task.view, src'))[i] = Append(events, done)[i])
               \/ Append(Append(events, done), Progress(task.view, src'))[i] = Progress(task.view, src')
        BY <3>1, <4>1, EventsAdded
      <4> HIDE DEF Past
      <4> QED
        BY <2>3, <3>1, <3>3, <4>1, <4>2
    <3> QED
      BY <2>1, <3>2, <3>3
  <2> QED
    BY <1>1, <2>1, <2>3, <2>4, <2>5, <2>6, LoadsWorkerStep
<1>7. CASE FinishSort
  <2>1. /\ task.op = "sort" /\ task' = NoCall /\ UNCHANGED <<viewGen, opGen, inbox, parked>>
        /\ src'.kind = src.kind /\ src'.view = src.view
        /\ src' = src \/ CanSort(src)
        /\ events' = events \/ \E e \in Event : e.view = task.view /\ events' = Append(events, e)
    BY <1>1, <1>7, FinishSortFacts
  <2>2. task \in Call /\ task # NoCall
    BY <1>1, <2>1, NoCallType DEF WorkerTypeOK
  <2>3. Past(task.view)
    BY <1>4, <2>2 DEF LoadsInv
  <2>4. /\ src.kind = "none" => src' = src
        /\ src'.order # Unsorted => src.kind = "rowid"
    BY <2>1 DEF CanSort, LoadsInv
  <2>5. \A i \in DOMAIN events' :
           (\E j \in DOMAIN events : events'[i] = events[j]) \/ Past(events'[i].view)
    BY <1>1, <2>1, <2>3, EventsAdded
  <2> QED
    BY <1>1, <2>1, <2>4, <2>5, LoadsWorkerStep
<1>8. CASE FetchPage
  <2>1. /\ inbox # <<>> /\ inbox' = Tail(inbox) /\ UNCHANGED <<viewGen, opGen, task>>
        /\ Head(inbox).op \in PageOps
        /\ parked' \in {parked, NoCall, Head(inbox)}
        /\ src' = src \/ src' = Verified(src)
        /\ \/ events' = events
           \/ \E page \in Pages(Head(inbox), src) :
                events' = Append(events, PageReady(Head(inbox), page))
    BY <1>1, <1>8, FetchPageFacts
  <2>2. \A i \in DOMAIN inbox' : \E j \in DOMAIN inbox : inbox'[i] = inbox[j]
    BY <2>1, InboxTail
  <2>3. Head(inbox) \in Call /\ Past(Head(inbox).view) /\ CallBelongs(Head(inbox))
    BY <1>2, <1>4, <2>1, InboxTail
  <2>4. \A page \in Pages(Head(inbox), src) :
           PageReady(Head(inbox), page) \in Event
           /\ PageReady(Head(inbox), page).view = Head(inbox).view
    BY <1>1, <2>1, <2>3, PagesType, PageReadyType, EventFields
  <2>5. \A i \in DOMAIN events' :
           (\E j \in DOMAIN events : events'[i] = events[j]) \/ Past(events'[i].view)
    <3>1. ASSUME NEW page \in Pages(Head(inbox), src),
                 events' = Append(events, PageReady(Head(inbox), page))
          PROVE  \A i \in DOMAIN events' :
                    (\E j \in DOMAIN events : events'[i] = events[j]) \/ Past(events'[i].view)
      BY <1>1, <2>3, <2>4, <3>1, EventsAdded
    <3> QED
      BY <2>1, <3>1
  <2>6. /\ src'.kind = src.kind /\ src'.view = src.view
        /\ src.kind = "none" => src' = src
        /\ src'.order # Unsorted => src.kind = "rowid"
    <3>1. CASE src' = src
      BY <3>1 DEF LoadsInv
    <3>2. CASE src' = Verified(src)
      <4>1. SameSource(src, Verified(src))
        BY <1>1, VerifiedSame
      <4>2. src.kind = "none" => Verified(src) = src
        BY <1>1 DEF Verified, Source, LoadsInv, NoSource, EmptySource
      <4> QED
        BY <3>2, <4>1, <4>2 DEF SameSource, LoadsInv
    <3> QED
      BY <2>1, <3>1, <3>2
  <2> QED
    BY <1>1, <2>1, <2>2, <2>3, <2>5, <2>6, LoadsWorkerStep
<1>9. CASE IndexSlice
  <2>1. /\ inbox # <<>> /\ Head(inbox).op = "slice"
        /\ inbox' = Tail(inbox) \/ inbox' = Append(Tail(inbox), Head(inbox))
        /\ UNCHANGED <<viewGen, opGen, task>>
        /\ \/ UNCHANGED <<parked, src, events>>
           \/ /\ src.kind = "csv"
              /\ \E s \in SliceOutcomes(src), sofar \in Seq(Event) :
                   /\ s \in Source
                   /\ src' = s \/ src' = Verified(s)
                   /\ sofar = events \/ sofar = Append(events, Progress(Head(inbox).view, s))
                   /\ Progress(Head(inbox).view, s) \in Event
                   /\ \/ events' = sofar
                         /\ (parked' = NoCall \/ parked' = parked)
                      \/ /\ parked # NoCall /\ parked' = NoCall
                         /\ \E page \in Pages(parked, s) :
                              events' = Append(sofar, PageReady(parked, page))
    BY <1>1, <1>9, IndexSliceFacts
  <2>2. Head(inbox) \in Call /\ Past(Head(inbox).view) /\ CallBelongs(Head(inbox))
    BY <1>2, <1>4, <2>1, InboxTail
  <2>3. \A i \in DOMAIN inbox' :
           (\E j \in DOMAIN inbox : inbox'[i] = inbox[j]) \/ CallBelongs(inbox'[i])
    BY <2>1, <2>2, InboxCycled
  <2>4. CASE UNCHANGED <<parked, src, events>>
    <3>1. src'.order # Unsorted => src.kind = "rowid"
      BY <2>4 DEF LoadsInv
    <3> QED
      BY <1>1, <2>1, <2>3, <2>4, <3>1, LoadsWorkerStep
  <2>5. ASSUME NEW s \in SliceOutcomes(src), NEW sofar \in Seq(Event), src.kind = "csv",
               s \in Source, src' = s \/ src' = Verified(s),
               sofar = events \/ sofar = Append(events, Progress(Head(inbox).view, s)),
               Progress(Head(inbox).view, s) \in Event,
               \/ events' = sofar /\ (parked' = NoCall \/ parked' = parked)
               \/ /\ parked # NoCall /\ parked' = NoCall
                  /\ \E page \in Pages(parked, s) : events' = Append(sofar, PageReady(parked, page))
        PROVE  LoadsInv'
    <3>1. src'.kind = src.kind /\ src'.view = src.view
          /\ (src'.order # Unsorted => src.kind = "rowid")
      <4>1. SameSource(src, s)
        BY <1>1, <2>5, SliceOutcomesFacts
      <4>2. SameSource(s, Verified(s))
        BY <2>5, VerifiedSame
      <4> QED
        BY <2>5, <4>1, <4>2 DEF SameSource, LoadsInv
    <3>2. \A i \in DOMAIN sofar :
             (\E j \in DOMAIN events : sofar[i] = events[j]) \/ Past(sofar[i].view)
      <4>1. Progress(Head(inbox).view, s).view = Head(inbox).view
        BY EventFields
      <4> QED
        BY <1>1, <2>2, <2>5, <4>1, EventsAdded
    <3>3. parked # NoCall => Past(parked.view) /\ parked \in Call /\ parked.op \in PageOps
      BY <1>1, <1>4 DEF LoadsInv, WorkerTypeOK
    <3>4. parked # NoCall => \A page \in Pages(parked, s) :
             PageReady(parked, page) \in Event /\ PageReady(parked, page).view = parked.view
      BY <1>1, <2>5, <3>3, PagesType, PageReadyType, EventFields
    <3>5. \A i \in DOMAIN events' :
             (\E j \in DOMAIN events : events'[i] = events[j]) \/ Past(events'[i].view)
      <4>1. ASSUME parked # NoCall, NEW page \in Pages(parked, s),
                   events' = Append(sofar, PageReady(parked, page))
            PROVE  \A i \in DOMAIN events' :
                      (\E j \in DOMAIN events : events'[i] = events[j]) \/ Past(events'[i].view)
        BY <3>2, <3>3, <3>4, <4>1, EventsAdded
      <4>2. CASE events' = sofar
        BY <3>2, <4>2
      <4> QED
        BY <2>5, <4>1, <4>2
    <3> QED
      BY <1>1, <2>1, <2>3, <2>5, <3>1, <3>5, LoadsWorkerStep
  <2> QED
    BY <2>1, <2>4, <2>5
<1>10. CASE Shutdown
  <2>1. /\ inbox # <<>> /\ inbox' = Tail(inbox) /\ src' = NoSource /\ parked' = NoCall
        /\ UNCHANGED <<viewGen, opGen, task, events>>
    BY <1>1, <1>10, ShutdownFacts
  <2>2. \A i \in DOMAIN inbox' : \E j \in DOMAIN inbox : inbox'[i] = inbox[j]
    BY <2>1, InboxTail
  <2> QED
    BY <1>1, <2>1, <2>2, LoadsWorkerStep
<1> QED
  BY <1>5, <1>6, <1>7, <1>8, <1>9, <1>10 DEF WorkerStep, WorkerNext

\* Before the first load nothing belongs to any.
LEMMA LoadsInit == Init => LoadsInv
<1> SUFFICES ASSUME Init PROVE LoadsInv
  OBVIOUS
<1>1. NoSource.kind = "none" /\ NoSource.order = Unsorted /\ NothingShown.view = 0
  BY DEF NoSource, EmptySource, NothingShown
<1>2. ui.gen = 0 /\ ~ui.paged /\ ~ui.worker /\ ~ui.sorting /\ ui.worker = ui.paged
  BY DEF Init, Reset
<1> QED
  BY <1>1, <1>2 DEF Init, WorkerInit, LoadsInv

\* Every step keeps calls, signals and pages to their loads.
LEMMA LoadsNext == TypeOK /\ TypeOK' /\ LoadsInv /\ [SharedNext]_vars => LoadsInv'
<1> SUFFICES ASSUME TypeOK, TypeOK', LoadsInv, [SharedNext]_vars PROVE LoadsInv'
  OBVIOUS
<1>1. \/ LoadSelectedTable \/ LeaveTable \/ OnOpenFailed \/ ClickSort \/ CancelSort
      \/ TurnPage \/ OnOpened \/ OnReopened \/ OnPageReady \/ OnPageVanished \/ OnPageFailed
      \/ OnSortCompleted \/ Aside \/ WorkerStep
  BY DEF SharedNext, Next, UserNext, SignalNext, TurnPage, Aside
<1> QED
  BY <1>1, LoadsLoad, LoadsLeave, LoadsSortClicks, LoadsHandlers, LoadsAside, LoadsWorker

\* The worker's side always belongs to the load the viewer is in, and nothing is
\* on its way that belongs to a load that is yet to come.
THEOREM LoadsHold == SharedSpec => []LoadsInv
<1>1. TypeOK /\ LoadsInv /\ TypeOK' /\ [SharedNext]_vars => LoadsInv'
  BY LoadsNext
<1> QED
  BY <1>1, LoadsInit, ViewerTypeCorrect, PTL DEF SharedSpec

-----------------------------------------------------------------------------
(* The label that cancels a sort.                                          *)

\* Texts, progress and warnings leave the label alone.
LEMMA LabelKept ==
    ASSUME NEW b \in Bar, NEW text, NEW total, NEW warning
    PROVE  /\ SetValueText(b, text).sorting = b.sorting
           /\ SetWarning(b, warning).sorting = b.sorting
           /\ UpdatePagedTotal(b, total).sorting = b.sorting
           /\ SetIndexingProgress(b, total).sorting = b.sorting
           /\ SetIndexingFailed(b).sorting = b.sorting
           /\ RestoreInfo(b).sorting = b.sorting
<1>1. \A t : SetValueText(b, t).sorting = b.sorting
  BY DEF SetValueText, Bar
<1>2. SetWarning(b, warning).sorting = b.sorting
  BY DEF SetWarning, Bar
<1>3. UpdatePagedTotal(b, total).sorting = b.sorting
  BY DEF UpdatePagedTotal, RebuildPagedTexts, SetValueText, Bar
<1>4. SetIndexingProgress(b, total).sorting = b.sorting
  BY DEF SetIndexingProgress, Bar
<1>5. SetIndexingFailed(b).sorting = b.sorting
  BY DEF SetIndexingFailed, SetWarning, SetValueText, Bar
<1>6. RestoreInfo(b).sorting = b.sorting
  BY DEF RestoreInfo, HideUnlessIndexing, SetValueText, Bar
<1> QED
  BY <1>1, <1>2, <1>3, <1>4, <1>5, <1>6

\* A table that is left or loaded takes the label with it.
LEMMA LabelLeaves ==
    ASSUME TypeOK, LoadSelectedTable \/ LeaveTable \/ OnOpenFailed
    PROVE  SortingLabel'
<1>1. ~ui'.sorting
  BY LeaveFacts, LoadFacts DEF WasReset
<1>2. ~ui'.status.sorting
  <2> DEFINE cleared == ShowLoading(SetSorting(ui.status, FALSE))
  <2>4. ~cleared.sorting
    <3>1. ~SetSorting(ui.status, FALSE).sorting
      BY StateTypes DEF SetSorting, Bar
    <3> QED
      BY <3>1 DEF ShowLoading, EmptyBar
  <2>1. CASE LoadSelectedTable
    <3>1. ui'.status = cleared
      BY <2>1 DEF LoadSelectedTable, Cancelled, Reset
    <3> QED
      BY <2>4, <3>1
  <2>2. CASE LeaveTable
    <3>1. ui'.status = cleared
      BY <2>2 DEF LeaveTable, CancelPending, Cancelled, Reset
    <3> QED
      BY <2>4, <3>1
  <2>3. CASE OnOpenFailed
    BY <2>3 DEF OnOpenFailed, CancelPending, Cancelled, Reset, SetValueText, ClearBar, EmptyBar
  <2> QED
    BY <2>1, <2>2, <2>3
<1> QED
  BY <1>1, <1>2 DEF SortingLabel

\* Every step keeps the label in step with the sort.
LEMMA LabelNext ==
    TypeOK /\ SortingLabel /\ [SharedNext]_vars => SortingLabel'
<1> SUFFICES ASSUME TypeOK, SortingLabel, [SharedNext]_vars PROVE SortingLabel'
  OBVIOUS
<1> DEFINE Same == ui'.sorting = ui.sorting /\ ui'.recovering = ui.recovering
                   /\ ui'.status.sorting = ui.status.sorting
<1>1. ui \in Viewer /\ ui.status \in Bar /\ ui.sorting \in BOOLEAN /\ ui.recovering \in BOOLEAN
      /\ ui.status.sorting \in BOOLEAN
  BY StateTypes DEF Viewer, Bar
<1>2. Same => SortingLabel'
  BY DEF SortingLabel
<1>3. ASSUME NEW status, ui' = [ui EXCEPT !.status = status], status.sorting = ui.status.sorting
      PROVE  SortingLabel'
  BY <1>1, <1>2, <1>3 DEF Viewer
<1>4. CASE UNCHANGED ui
  BY <1>2, <1>4
<1>5. CASE LoadSelectedTable \/ LeaveTable \/ OnOpenFailed
  BY <1>5, LabelLeaves
<1>6. CASE ClickSort
  <2>1. PICK order : ui' = [ui EXCEPT !.pending = order, !.sorting = TRUE, !.busy = TRUE,
                                      !.status = SetSorting(ui.status, TRUE)]
    BY <1>6, ClickSortFacts
  <2>2. ui'.sorting /\ ui'.recovering = ui.recovering /\ ui'.status.sorting
    BY <1>1, <2>1 DEF Viewer, SetSorting, Bar
  <2>3. ~ui.recovering
    BY <1>6, ClickSortFacts
  <2> QED
    BY <2>2, <2>3 DEF SortingLabel
<1>7. ASSUME NEW u \in Viewer, u.status \in Bar,
             ui' \in {Recovering(u), FinishSortRecovery(u), FailSortRecovery(u)}
      PROVE  SortingLabel'
  <2>1. ~ui'.status.sorting
    <3>1. ~SetSorting(u.status, FALSE).sorting /\ SetSorting(u.status, FALSE) \in Bar
      BY <1>7 DEF SetSorting, Bar
    <3>2. ASSUME NEW b \in Bar, ~b.sorting PROVE ~SetValueText(b, Message).sorting
      <4>1. SetValueText(b, Message).sorting = b.sorting
        BY LabelKept
      <4> QED
        BY <3>2, <4>1
    <3>3. ui'.status \in {SetSorting(u.status, FALSE), SetValueText(SetSorting(u.status, FALSE), Message)}
      BY <1>7 DEF Recovering, FinishSortRecovery, FailSortRecovery, Viewer
    <3> QED
      BY <3>1, <3>2, <3>3
  <2>2. ~ui'.sorting \/ ui'.recovering
    BY <1>7 DEF Recovering, FinishSortRecovery, FailSortRecovery, Viewer
  <2> QED
    BY <2>1, <2>2 DEF SortingLabel
<1>8. CASE CancelSort
  BY <1>1, <1>7, <1>8 DEF CancelSort, RecoverSort
<1>9. CASE TurnPage
  <2>1. PICK page, fromPrev : ui' = [ui EXCEPT !.inFlight = TRUE, !.busy = TRUE,
                                       !.pendingPage = page, !.pendingFromPrev = fromPrev]
    BY <1>9, TurnPageFacts
  <2> QED
    BY <1>1, <1>2, <2>1 DEF Viewer
<1>10. CASE OnOpened
  BY <1>1, <1>2, <1>10 DEF OnOpened, Viewer
<1>11. CASE OnReopened
  <2> DEFINE u == [ui EXCEPT !.canSort = Head(events).canSort]
  <2>1. u \in Viewer /\ u.status \in Bar /\ u.sorting = ui.sorting /\ u.recovering = ui.recovering
        /\ u.status = ui.status
    <3>1. Head(events).canSort \in BOOLEAN
      BY <1>11, HeadType DEF OnReopened, Receive
    <3> QED
      BY <1>1, <3>1 DEF Viewer
  <2>2. ui' \in {u, FinishSortRecovery(u), FailSortRecovery(u)}
    BY <1>11 DEF OnReopened
  <2> HIDE DEF u
  <2> QED
    BY <1>2, <1>7, <2>1, <2>2
<1>12. CASE OnPageReady
  <2>1. /\ events # <<>> /\ ui'.status = Arrived(Head(events)).status
        /\ ui.sorting /\ ~ui.recovering => ~ui'.sorting
        /\ ~ui.sorting \/ ui.recovering => ui'.sorting = ui.sorting /\ ui'.recovering = ui.recovering
    BY <1>12, OnPageReadyFacts DEF Receive, SameOrder
  <2>2. Arrived(Head(events)).status.sorting <=> (ui.status.sorting /\ (~ui.sorting \/ ui.recovering))
    BY <1>1, <2>1, HeadType, ArrivedFields
  <2> QED
    BY <1>1, <2>1, <2>2 DEF SortingLabel
<1>13. CASE OnPageVanished
  <2>1. SameOrder /\ ui'.status = SetValueText(ui.status, Message)
    BY <1>13, OnPageVanishedFacts
  <2>2. SetValueText(ui.status, Message).sorting = ui.status.sorting
    BY <1>1, LabelKept
  <2> QED
    BY <1>2, <2>1, <2>2 DEF SameOrder
<1>14. CASE OnPageFailed
  <2> DEFINE u == [ui EXCEPT !.inFlight = FALSE, !.busy = FALSE]
  <2>1. u \in Viewer /\ u.status \in Bar
    BY <1>1 DEF Viewer
  <2>2. ui' = Recovering(u) \/ (SameOrder /\ ui'.status = SetValueText(ui.status, Message))
    BY <1>14, OnPageFailedFacts DEF OnPageFailed, RecoverSort
  <2> HIDE DEF u
  <2> QED
    BY <1>1, <1>2, <1>7, <2>1, <2>2, LabelKept DEF SameOrder
<1>15. CASE OnSortCompleted
  <2> DEFINE u == [ui EXCEPT !.status = SetValueText(ui.status, Message)]
  <2>1. u \in Viewer /\ u.status \in Bar
    <3>1. SetValueText(ui.status, Message) \in Bar
      BY <1>1, SetterTypes, TextTypes
    <3> QED
      BY <1>1, <3>1 DEF Viewer
  <2>2. \/ ui' \in {FinishSortRecovery(ui), FailSortRecovery(ui)}
        \/ ui' = Recovering(u)
        \/ SameOrder /\ ui'.status = ui.status
    <3>1. \/ ui' \in {FinishSortRecovery(ui), FailSortRecovery(ui)}
          \/ RecoverSort(u)
          \/ ui' = [ui EXCEPT !.sortTotal = TRUE, !.pager.total = Head(events).total,
                              !.pendingPage = 1, !.pendingFromPrev = FALSE, !.inFlight = TRUE]
      BY <1>15 DEF OnSortCompleted
    <3>2. RecoverSort(u) => ui' = Recovering(u)
      BY DEF RecoverSort
    <3>3. ASSUME NEW total, ui' = [ui EXCEPT !.sortTotal = TRUE, !.pager.total = total,
                              !.pendingPage = 1, !.pendingFromPrev = FALSE, !.inFlight = TRUE]
          PROVE  SameOrder /\ ui'.status = ui.status
      BY <1>1, <3>3 DEF Viewer, SameOrder
    <3> QED
      BY <3>1, <3>2, <3>3
  <2> HIDE DEF u
  <2> QED
    BY <1>1, <1>2, <1>7, <2>1, <2>2 DEF SameOrder
<1>16. CASE ClickUnsortable \/ SelectCell
  BY <1>1, <1>3, <1>16, LabelKept DEF ClickUnsortable, SelectCell
<1>17. CASE OnIndexProgress
  <2>1. \/ \E status : ui' = [ui EXCEPT !.status = status] /\ status.sorting = ui.status.sorting
        \/ \E total : ui' = Indexed(ui, total)
    <3>1. \/ ui' = [ui EXCEPT !.status = SetIndexingFailed(ui.status)]
          \/ ui' = Indexed(ui, Head(events).total)
          \/ ui' = [ui EXCEPT !.status = SetIndexingProgress(ui.status, Head(events).total)]
      BY <1>17 DEF OnIndexProgress
    <3>2. /\ SetIndexingFailed(ui.status).sorting = ui.status.sorting
          /\ SetIndexingProgress(ui.status, Head(events).total).sorting = ui.status.sorting
      BY <1>1, LabelKept
    <3> QED
      BY <3>1, <3>2
  <2>2. ASSUME NEW total, ui' = Indexed(ui, total)
        PROVE  SortingLabel'
    <3>1. UpdatePagedTotal(ui.status, total).sorting = ui.status.sorting
      BY <1>1, LabelKept
    <3> QED
      BY <1>1, <1>2, <2>2, <3>1 DEF Indexed, Viewer
  <2> QED
    BY <1>3, <2>1, <2>2
<1>18. CASE OnCountCompleted
  <2>1. \/ ui' = ui
        \/ ui' = [ui EXCEPT !.countFailed = TRUE, !.status = SetWarning(ui.status, "count")]
        \/ \E total : ui' = Counted(ui, total)
    BY <1>18 DEF OnCountCompleted
  <2>2. ASSUME NEW total, ui' = Counted(ui, total)
        PROVE  SortingLabel'
    <3>1. UpdatePagedTotal(ui.status, total).sorting = ui.status.sorting
      BY <1>1, LabelKept
    <3> QED
      BY <1>1, <1>2, <2>2, <3>1 DEF Counted, Viewer
  <2>3. CASE ui' = [ui EXCEPT !.countFailed = TRUE, !.status = SetWarning(ui.status, "count")]
    <3>1. SetWarning(ui.status, "count").sorting = ui.status.sorting
      BY <1>1, LabelKept
    <3> QED
      BY <1>1, <1>2, <2>3, <3>1 DEF Viewer
  <2> QED
    BY <1>4, <2>1, <2>2, <2>3
<1>19. CASE IgnoreStaleSignal \/ Count \/ WorkerStep \/ (DeleteRow /\ UNCHANGED guiVars)
            \/ UNCHANGED vars
  BY <1>4, <1>19 DEF IgnoreStaleSignal, Count, WorkerStep, guiVars, vars
<1> QED
  BY <1>5, <1>6, <1>8, <1>9, <1>10, <1>11, <1>12, <1>13, <1>14, <1>15, <1>16, <1>17, <1>18, <1>19
     DEF SharedNext, Next, UserNext, SignalNext, TurnPage

\* The label a click on which cancels the sort is there exactly as long as the
\* sort can be cancelled, however the sort ends.
THEOREM LabelFollowsSort == SharedSpec => []SortingLabel
<1>1. Init => SortingLabel
  BY DEF Init, Reset, SetSorting, EmptyBar, SortingLabel
<1>2. TypeOK /\ SortingLabel /\ [SharedNext]_vars => SortingLabel'
  BY LabelNext
<1> QED
  BY <1>1, <1>2, ViewerTypeCorrect, PTL DEF SharedSpec

-----------------------------------------------------------------------------
(* One request at most is live, and it is the one the fields speak of.     *)

\* A call the viewer waits for when these are its numbers.
LiveAt(c, view, gen) == c.op \in Requests /\ c.view = view /\ c.gen = gen

\* Nothing that was on its way answers to the numbers of the next state.
NoneLive ==
    /\ \A i \in DOMAIN inbox : ~LiveAt(inbox[i], viewGen', opGen')
    /\ ~LiveAt(task, viewGen', opGen')
    /\ ~LiveAt(parked, viewGen', opGen')
    /\ LiveSignals' = {}

\* Signals are read from the front.
EventsRead == events' = events \/ (events # <<>> /\ events' = Tail(events))

\* Calls, signals and the two slots of the worker are numbered.
LEMMA AllNumbers ==
    ASSUME TypeOK
    PROVE  /\ viewGen \in Nat /\ opGen \in Nat
           /\ \A i \in DOMAIN inbox : inbox[i].view \in Nat /\ inbox[i].gen \in Nat
           /\ \A i \in DOMAIN events : events[i].view \in Nat /\ events[i].gen \in Nat
           /\ task.view \in Nat /\ task.gen \in Nat
           /\ parked.view \in Nat /\ parked.gen \in Nat
<1>1. task.view \in Nat /\ task.gen \in Nat
  BY StateTypes DEF WorkerTypeOK, Call
<1> QED
  BY <1>1, StateTypes, Numbers

\* A signal that is still to be read was there before.
LEMMA ReadFromFront ==
    ASSUME TypeOK, EventsRead
    PROVE  \A i \in DOMAIN events' : \E j \in DOMAIN events : events'[i] = events[j]
<1>1. events \in Seq(Event)
  BY StateTypes
<1> QED
  BY <1>1, QueueTail DEF EventsRead

\* A request that is replaced: whatever was on its way has a number too small.
LEMMA QuietReplaced ==
    ASSUME TypeOK, NumbersInv, EventsRead, viewGen' = viewGen, opGen' = opGen + 1
    PROVE  NoneLive
<1>1. \A n \in Nat : n <= opGen => n # opGen'
  BY AllNumbers
<1>2. /\ \A i \in DOMAIN inbox : inbox[i].gen \in Nat
      /\ \A i \in DOMAIN events : events[i].gen \in Nat
      /\ task.gen \in Nat /\ parked.gen \in Nat
  BY AllNumbers
<1>3. LiveSignals' = {}
  <2>1. \A i \in DOMAIN events' : \E j \in DOMAIN events : events'[i] = events[j]
    BY ReadFromFront
  <2>2. \A i \in DOMAIN events' : ~(events'[i].view = viewGen' /\ events'[i].gen = opGen')
    BY <1>1, <1>2, <2>1 DEF NumbersInv, NotAhead
  <2> QED
    BY <2>2 DEF LiveSignals, IsLiveSignal
<1> QED
  BY <1>1, <1>2, <1>3 DEF NoneLive, LiveAt, NumbersInv, NotAhead

\* A request that is answered: there was no other one.
LEMMA QuietAnswered ==
    ASSUME TypeOK, LoadsInv, OneLive, ReplacedInv, NEW sig, Receive(sig), sig # "indexProgress",
           UNCHANGED <<viewGen, opGen>>
    PROVE  NoneLive /\ task = NoCall /\ 1 \in LiveSignals /\ events[1] = Head(events)
<1>1. /\ ui.paged /\ events # <<>> /\ events' = Tail(events) /\ events \in Seq(Event)
      /\ Head(events).sig = sig /\ Head(events).view = viewGen /\ Head(events).gen = opGen
  BY ReceiveShape, StateTypes
<1>2. /\ 1 \in DOMAIN events /\ events[1] = Head(events)
      /\ \A i \in DOMAIN events' : i + 1 \in DOMAIN events /\ events'[i] = events[i + 1]
  BY <1>1, QueueTail
<1>3. 1 \in LiveSignals
  BY <1>1, <1>2 DEF LiveSignals, IsLiveSignal
<1>4. LiveCalls = {} /\ ~IsLive(task) /\ ~IsLive(parked)
  BY <1>3 DEF OneLive
<1>5. LiveSignals' = {}
  <2>1. ASSUME NEW i \in LiveSignals' PROVE FALSE
    <3>1. i \in DOMAIN events' /\ events'[i].sig # "indexProgress" /\ events'[i].view = viewGen
          /\ events'[i].gen = opGen
      BY <2>1 DEF LiveSignals, IsLiveSignal
    <3>2. i + 1 \in LiveSignals
      BY <1>2, <3>1 DEF LiveSignals, IsLiveSignal
    <3>3. i + 1 = 1
      BY <1>3, <3>2 DEF OneLive
    <3>4. DOMAIN events' = 1..Len(events')
      BY <1>1
    <3> QED
      BY <3>1, <3>3, <3>4
  <2> QED
    BY <2>1
<1>6. \A i \in DOMAIN inbox : ~IsLive(inbox[i])
  BY <1>4 DEF LiveCalls
<1>7. task = NoCall
  BY <1>1, <1>3, <1>4 DEF ReplacedInv
<1> QED
  BY <1>2, <1>3, <1>4, <1>5, <1>6, <1>7 DEF NoneLive, LiveAt, IsLive, IsStale

\* Then the call the step posts, if any, is the only one that is live.
LEMMA OnlyPosted ==
    ASSUME TypeOK, NoneLive, UNCHANGED <<task, parked>>,
           inbox' = inbox \/ \E c \in Call : inbox' = Append(inbox, c) /\ CallFits(c)'
    PROVE  OneLive' /\ LiveFits'
<1>1. ~IsLive(task)' /\ ~IsLive(parked)' /\ LiveSignals' = {}
  BY DEF NoneLive, LiveAt, IsLive, IsStale
<1>2. \A i \in DOMAIN inbox : ~IsLive(inbox[i])' \/ inbox'[i] # inbox[i]
  BY DEF NoneLive, LiveAt, IsLive, IsStale
<1>3. CASE inbox' = inbox
  <2>1. LiveCalls' = {}
    BY <1>2, <1>3 DEF LiveCalls
  <2> QED
    BY <1>1, <2>1 DEF OneLive, LiveFits
<1>4. ASSUME NEW c \in Call, inbox' = Append(inbox, c), CallFits(c)'
      PROVE  OneLive' /\ LiveFits'
  <2>1. \A i \in DOMAIN inbox' : (i \in DOMAIN inbox /\ inbox'[i] = inbox[i])
                                 \/ (i = Len(inbox) + 1 /\ inbox'[i] = c)
    BY <1>4, StateTypes, QueueLast
  <2>2. \A i \in LiveCalls' : i = Len(inbox) + 1 /\ inbox'[i] = c
    BY <1>2, <2>1 DEF LiveCalls, IsLive, IsStale
  <2>3. \A i \in LiveCalls' : CallFits(inbox[i])'
    BY <1>4, <2>2 DEF CallFits
  <2> QED
    BY <1>1, <2>2, <2>3 DEF OneLive, LiveFits
<1> QED
  BY <1>3, <1>4

\* Numbers stay behind the viewer's.
LEMMA NumbersStep ==
    ASSUME TypeOK, NumbersInv, EventsRead, viewGen' = viewGen, opGen' \in Nat, opGen' >= opGen,
           UNCHANGED <<task, parked>>,
           inbox' = inbox \/ \E c \in Call : inbox' = Append(inbox, c) /\ c.gen = opGen'
    PROVE  NumbersInv'
<1>1. /\ \A i \in DOMAIN inbox : inbox[i].gen \in Nat
      /\ \A i \in DOMAIN events : events[i].gen \in Nat
      /\ task.gen \in Nat /\ parked.gen \in Nat /\ opGen \in Nat
  BY AllNumbers
<1>2. \A n \in Nat : n <= opGen => n <= opGen'
  BY <1>1
<1>3. \A i \in DOMAIN inbox' : (\E j \in DOMAIN inbox : inbox'[i] = inbox[j])
                               \/ inbox'[i].gen <= opGen'
  <2>1. ASSUME NEW c \in Call, inbox' = Append(inbox, c), c.gen = opGen'
        PROVE  \A i \in DOMAIN inbox' : (\E j \in DOMAIN inbox : inbox'[i] = inbox[j])
                                        \/ inbox'[i].gen <= opGen'
    <3>1. \A i \in DOMAIN inbox' : (i \in DOMAIN inbox /\ inbox'[i] = inbox[i]) \/ inbox'[i] = c
      BY <2>1, StateTypes, QueueLast
    <3>2. c.gen <= opGen'
      BY <2>1
    <3> QED
      BY <3>1, <3>2
  <2> QED
    BY <2>1
<1>4. \A i \in DOMAIN events' : \E j \in DOMAIN events : events'[i] = events[j]
  BY ReadFromFront
<1>5. \A i \in DOMAIN inbox' : NotAhead(inbox[i])'
  BY <1>1, <1>2, <1>3 DEF NumbersInv, NotAhead
<1>6. \A i \in DOMAIN events' : NotAhead(events[i])'
  BY <1>1, <1>2, <1>4 DEF NumbersInv, NotAhead
<1>7. NotAhead(task)' /\ NotAhead(parked)'
  BY <1>1, <1>2 DEF NumbersInv, NotAhead
<1> QED
  BY <1>5, <1>6, <1>7 DEF NumbersInv

\* The calls and signals of a request, and what replaced it.
CallsInv == OneLive /\ NumbersInv /\ LiveFits /\ ReplacedInv

\* A handler took the answer, and may have asked for the next thing.
LEMMA AfterAnswer ==
    ASSUME TypeOK, LoadsInv, ProtocolInv, NEW sig, Receive(sig), sig # "indexProgress",
           UNCHANGED <<viewGen, opGen>>,
           inbox' = inbox \/ \E c \in Call : /\ inbox' = Append(inbox, c) /\ c.gen = opGen
                                             /\ CallFits(c)'
    PROVE  CallsInv'
<1>1. NoneLive /\ task = NoCall /\ UNCHANGED <<task, parked>> /\ EventsRead
  BY QuietAnswered, ReceiveShape DEF ProtocolInv, EventsRead
<1>2. OneLive' /\ LiveFits'
  BY <1>1, OnlyPosted
<1>3. NumbersInv'
  <2>1. opGen' \in Nat /\ opGen' >= opGen
    BY StateTypes
  <2> QED
    BY <1>1, <2>1, NumbersStep DEF ProtocolInv
<1>4. ReplacedInv'
  BY <1>1 DEF ReplacedInv
<1> QED
  BY <1>2, <1>3, <1>4 DEF CallsInv

\* A newer request took the place of whatever was on its way.
LEMMA AfterReplacing ==
    ASSUME TypeOK, LoadsInv, ProtocolInv, EventsRead, UNCHANGED <<viewGen, task, parked>>,
           opGen' = opGen + 1,
           \E c \in Call :
              /\ inbox' = Append(inbox, c) /\ c.gen = opGen' /\ CallFits(c)'
              /\ task # NoCall =>
                    \/ ui'.sorting /\ c.op \notin PageOps
                    \/ ~ui'.sorting /\ task.op = "open" /\ ui'.committed = Unsorted
    PROVE  CallsInv'
<1>1. NoneLive
  BY QuietReplaced DEF ProtocolInv
<1>2. OneLive' /\ LiveFits'
  BY <1>1, OnlyPosted
<1>3. NumbersInv'
  <2>1. opGen' \in Nat /\ opGen' >= opGen
    BY StateTypes
  <2> QED
    BY <2>1, NumbersStep DEF ProtocolInv
<1>4. ReplacedInv'
  <2>1. PICK c \in Call :
           /\ inbox' = Append(inbox, c)
           /\ task # NoCall =>
                 \/ ui'.sorting /\ c.op \notin PageOps
                 \/ ~ui'.sorting /\ task.op = "open" /\ ui'.committed = Unsorted
    OBVIOUS
  <2>2. \A i \in DOMAIN inbox' : (i \in DOMAIN inbox /\ inbox'[i] = inbox[i]) \/ inbox'[i] = c
    BY <2>1, StateTypes, QueueLast
  <2>3. \A i \in LiveCalls' : inbox'[i] = c
    BY <1>1, <2>2 DEF NoneLive, LiveAt, LiveCalls, IsLive, IsStale
  <2>4. ~IsLive(parked)' /\ LiveSignals' = {}
    BY <1>1 DEF NoneLive, LiveAt, IsLive, IsStale
  <2> QED
    BY <2>1, <2>3, <2>4 DEF ReplacedInv
<1> QED
  BY <1>2, <1>3, <1>4 DEF CallsInv

\* The load was left, or a new one begun: nothing is live but its first call.
LEMMA AfterLeaving ==
    ASSUME TypeOK, TypeOK', LoadsInv, LoadsInv', LeaveTable \/ OnOpenFailed
    PROVE  CallsInv'
<1>1. ~ui'.paged
  BY LeaveFacts
<1>2. /\ \A i \in DOMAIN inbox' : inbox'[i].view # viewGen'
      /\ \A i \in DOMAIN events' : events'[i].view # viewGen'
      /\ task' # NoCall => task'.view # viewGen'
      /\ parked' # NoCall => parked'.view # viewGen'
  <2>1. /\ viewGen' \in Nat
        /\ \A i \in DOMAIN inbox' : inbox'[i].view \in Nat /\ inbox'[i].view < viewGen'
        /\ \A i \in DOMAIN events' : events'[i].view \in Nat /\ events'[i].view < viewGen'
        /\ task' # NoCall => task'.view \in Nat /\ task'.view < viewGen'
        /\ parked' # NoCall => parked'.view \in Nat /\ parked'.view < viewGen'
    <3>1. /\ viewGen' \in Nat
          /\ \A i \in DOMAIN inbox' : inbox'[i].view \in Nat
          /\ \A i \in DOMAIN events' : events'[i].view \in Nat
          /\ task'.view \in Nat /\ parked'.view \in Nat
      <4>1. /\ viewGen' \in Nat /\ task' \in Call /\ parked' \in Call
            /\ inbox' \in Seq(Call) /\ events' \in Seq(Event)
        BY DEF TypeOK, WorkerTypeOK
      <4>2. /\ \A i \in DOMAIN inbox' : inbox'[i] \in Call
            /\ \A i \in DOMAIN events' : events'[i] \in Event
        BY <4>1, QueueElement
      <4> QED
        BY <4>1, <4>2 DEF Call, Event
    <3> QED
      BY <1>1, <3>1 DEF LoadsInv, CallBelongs, Here, Past
  <2> QED
    BY <2>1
<1>3. viewGen' > 0
  BY LeaveFacts, StateTypes
<1>4. NoCall.op \notin Requests /\ NoCall.view # viewGen'
  BY <1>3, NoCallType DEF Requests, PageOps
<1>5. LiveCalls' = {} /\ LiveSignals' = {} /\ ~IsLive(task)' /\ ~IsLive(parked)'
  BY <1>2, <1>4 DEF LiveCalls, LiveSignals, IsLive, IsStale, IsLiveSignal
<1>6. NumbersInv'
  BY <1>2, <1>4 DEF NumbersInv, NotAhead
<1> QED
  BY <1>1, <1>5, <1>6 DEF CallsInv, OneLive, LiveFits, ReplacedInv

\* The first call of a load.
LEMMA AfterLoading ==
    ASSUME TypeOK, LoadsInv, LoadSelectedTable
    PROVE  CallsInv'
<1>1. /\ ui'.firstPending /\ ~ui'.sorting /\ ~ui'.inFlight /\ ui'.orderValid
      /\ viewGen' = ui.gen + 1 /\ opGen' = 1
      /\ inbox' = <<NewCall("open", viewGen', 1, ui'.kind)>>
      /\ task' = NoCall /\ parked' = NoCall /\ UNCHANGED events
  BY LoadFacts DEF WasReset
<1>2. viewGen \in Nat /\ viewGen' = viewGen + 1
  BY <1>1, StateTypes DEF LoadsInv
<1>3. \A i \in DOMAIN events : events[i].view # viewGen'
  <2>1. \A i \in DOMAIN events : events[i].view \in Nat /\ events[i].view <= viewGen
    BY <1>2, AllNumbers DEF LoadsInv, Past
  <2> QED
    BY <1>2, <2>1
<1>4. NoCall.op \notin Requests /\ NoCall.view # viewGen'
  BY <1>2, NoCallType DEF Requests, PageOps
<1>5. PICK c : /\ inbox' = <<c>> /\ c.op = "open" /\ c.gen = 1
  <2>1. NewCall("open", viewGen', 1, ui'.kind).op = "open"
        /\ NewCall("open", viewGen', 1, ui'.kind).gen = 1
    BY DEF NewCall
  <2> QED
    BY <1>1, <2>1
<1>6. DOMAIN inbox' = {1} /\ inbox'[1] = c
  BY <1>5
<1>7. LiveSignals' = {} /\ ~IsLive(task)' /\ ~IsLive(parked)' /\ \A i \in LiveCalls' : i = 1
  BY <1>1, <1>3, <1>4, <1>6 DEF LiveCalls, LiveSignals, IsLive, IsStale, IsLiveSignal
<1>8. CallFits(c)'
  BY <1>1, <1>5 DEF CallFits, Opening, PageOps
<1>9. \A i \in LiveCalls' : CallFits(inbox[i])'
  BY <1>6, <1>7, <1>8 DEF CallFits
<1>10. NumbersInv'
  BY <1>1, <1>3, <1>4, <1>5, <1>6 DEF NumbersInv, NotAhead
<1> QED
  BY <1>1, <1>7, <1>9, <1>10 DEF CallsInv, OneLive, LiveFits, ReplacedInv

-----------------------------------------------------------------------------
(* The viewer's steps keep the protocol, and the orders in step.           *)

OrderlyInv == ProtocolInv /\ OrderInv

\* The answer that is read is the one the fields wait for.
LEMMA AnswerFits ==
    ASSUME TypeOK, LoadsInv, ProtocolInv, NEW sig, Receive(sig), sig # "indexProgress"
    PROVE  SignalFits(Head(events)) /\ Head(events).sig = sig /\ ui.paged
           /\ EventsRead /\ UNCHANGED <<rows, task, src, parked>>
<1>1. /\ ui.paged /\ events # <<>> /\ events' = Tail(events) /\ events \in Seq(Event)
      /\ Head(events).sig = sig /\ Head(events).view = viewGen /\ Head(events).gen = opGen
      /\ UNCHANGED <<rows, task, src, parked>>
  BY ReceiveShape, StateTypes
<1>2. 1 \in DOMAIN events /\ events[1] = Head(events)
  BY <1>1, QueueTail
<1>3. 1 \in LiveSignals
  BY <1>1, <1>2 DEF LiveSignals, IsLiveSignal
<1>4. SignalFits(events[1])
  BY <1>3 DEF ProtocolInv, LiveFits
<1> QED
  BY <1>1, <1>2, <1>4 DEF EventsRead

\* The order in the source and the rows on display, in a step that leaves both.
LEMMA OrderKept ==
    ASSUME TypeOK, OrderInv, UNCHANGED <<src, shown>>, SameLoad, SameOrder
    PROVE  OrderInv'
BY DEF OrderInv, OrdinalsInv, IdleSourceOrder, ShownInOrder, OnDisplay, SameLoad, SameOrder

\* And while a sort is under way.
LEMMA OrderWhileSorting ==
    ASSUME TypeOK, OrderInv, UNCHANGED <<src, shown>>, SameLoad, ui'.sorting,
           ui'.committed = ui.committed
    PROVE  OrderInv'
BY DEF OrderInv, OrdinalsInv, IdleSourceOrder, ShownInOrder, OnDisplay, SameLoad

\* A click on a column.
LEMMA ClickSortOrderly ==
    ASSUME TypeOK, LoadsInv, OrderlyInv, ClickSort
    PROVE  OrderlyInv'
<1>1. /\ ui.paged /\ ui.canSort /\ ~ui.recovering
      /\ opGen' = opGen + 1
      /\ UNCHANGED <<viewGen, task, src, parked, events, shown>>
      /\ SameLoad
  BY ClickSortFacts
<1>2. PICK order \in SortState :
         /\ ui' = [ui EXCEPT !.pending = order, !.sorting = TRUE, !.busy = TRUE,
                             !.status = SetSorting(ui.status, TRUE)]
         /\ inbox' = Append(inbox, SortCall(opGen', order))
         /\ Posted(SortCall(opGen', order))
  BY ClickSortFacts
<1>3. /\ ui'.firstPending = ui.firstPending /\ ui'.sorting /\ ui'.recovering = ui.recovering
      /\ ui'.inFlight = ui.inFlight /\ ui'.canSort = ui.canSort
      /\ ui'.orderValid = ui.orderValid /\ ui'.committed = ui.committed /\ ui'.pending = order
      /\ ui'.kind = ui.kind /\ ui'.paged = ui.paged /\ ui'.gen = ui.gen
  BY <1>2, StateTypes DEF Viewer
<1>4. PICK c \in Call : /\ inbox' = Append(inbox, c) /\ c.op = "sort" /\ c.gen = opGen'
                        /\ c.sort = order
  BY <1>2, CallFields DEF Posted
<1>5. CallFits(c)'
  BY <1>1, <1>3, <1>4 DEF CallFits, Wanted, PageOps
<1>6. CallsInv'
  <2>1. c.op \notin PageOps
    BY <1>4 DEF PageOps
  <2>2. EventsRead
    BY <1>1 DEF EventsRead
  <2> QED
    BY <1>1, <1>3, <1>4, <1>5, <2>1, <2>2, AfterReplacing DEF OrderlyInv
<1>7. FieldsInv'
  BY <1>1, <1>3 DEF OrderlyInv, ProtocolInv, FieldsInv
<1>8. OrderInv'
  BY <1>1, <1>3, OrderWhileSorting DEF OrderlyInv
<1> QED
  BY <1>6, <1>7, <1>8 DEF OrderlyInv, ProtocolInv, CallsInv

\* A click on a button of the page bar.
LEMMA TurnPageOrderly ==
    ASSUME TypeOK, LoadsInv, OrderlyInv, TurnPage
    PROVE  OrderlyInv'
<1>1. /\ ui.paged /\ ui.orderValid /\ ~ui.sorting /\ ~ui.inFlight
      /\ opGen' = opGen + 1
      /\ UNCHANGED <<viewGen, task, src, parked, events, shown>>
      /\ SameLoad
  BY TurnPageFacts
<1>2. PICK op \in PageOps, page \in Nat, fromPrev \in BOOLEAN, total \in Total :
         /\ ui' = [ui EXCEPT !.inFlight = TRUE, !.busy = TRUE,
                             !.pendingPage = page, !.pendingFromPrev = fromPrev]
         /\ inbox' = Append(inbox, PageCall(op, opGen', ui.token, total))
         /\ Posted(PageCall(op, opGen', ui.token, total))
  BY TurnPageFacts
<1>3. /\ ui'.firstPending = ui.firstPending /\ ui'.sorting = ui.sorting
      /\ ui'.recovering = ui.recovering
      /\ ui'.inFlight /\ ui'.canSort = ui.canSort
      /\ ui'.orderValid = ui.orderValid /\ ui'.committed = ui.committed
      /\ ui'.pending = ui.pending /\ SameOrder
  BY <1>2, StateTypes DEF Viewer, SameOrder
<1>4. PICK c \in Call : /\ inbox' = Append(inbox, c) /\ c.op \in PageOps /\ c.gen = opGen'
  BY <1>2, CallFields DEF Posted
<1>5. ~ui.recovering /\ src.order = ui.committed
  BY <1>1 DEF OrderlyInv, ProtocolInv, FieldsInv, OrderInv, IdleSourceOrder
<1>6. CallFits(c)'
  <2>1. c.op # "open" /\ c.op # "sort"
    BY <1>4 DEF PageOps
  <2> QED
    BY <1>1, <1>3, <1>5, <2>1 DEF CallFits, Wanted
<1>7. task # NoCall => task.op = "open" /\ ui.committed = Unsorted
  <2>1. CASE task # NoCall /\ IsLive(task)
    <3>1. CallFits(task) /\ task.op \in {"open", "sort"}
      BY <2>1 DEF OrderlyInv, ProtocolInv, LiveFits, LoadsInv
    <3>2. task.op = "open" /\ ui.firstPending
      BY <1>1, <1>5, <3>1 DEF CallFits, Opening
    <3> QED
      BY <3>2 DEF OrderlyInv, ProtocolInv, FieldsInv
  <2>2. CASE task # NoCall /\ ~IsLive(task)
    BY <1>1, <2>2 DEF OrderlyInv, ProtocolInv, ReplacedInv
  <2> QED
    BY <2>1, <2>2
<1>8. CallsInv'
  <2>1. EventsRead
    BY <1>1 DEF EventsRead
  <2> QED
    BY <1>1, <1>3, <1>4, <1>6, <1>7, <2>1, AfterReplacing DEF OrderlyInv
<1>9. FieldsInv'
  BY <1>1, <1>3, <1>5 DEF OrderlyInv, ProtocolInv, FieldsInv, SameLoad
<1>10. OrderInv'
  BY <1>1, <1>3, OrderKept DEF OrderlyInv
<1> QED
  BY <1>8, <1>9, <1>10 DEF OrderlyInv, ProtocolInv, CallsInv

\* Going back to the order on display.
LEMMA GoesBackOrderly ==
    ASSUME TypeOK, LoadsInv, OrderlyInv, GoesBack, ui.sorting, EventsRead,
           UNCHANGED <<viewGen, task, src, parked, shown>>
    PROVE  OrderlyInv'
<1>1. PICK c \in Call : /\ inbox' = Append(inbox, c) /\ c.op = "open" /\ c.gen = opGen'
  BY CallFields DEF GoesBack, Posted
<1>2. /\ SameLoad /\ ui'.sorting /\ ui'.recovering /\ opGen' = opGen + 1
      /\ ui'.committed = ui.committed
  BY DEF GoesBack
<1>3. CallFits(c)' /\ c.op \notin PageOps
  BY <1>1, <1>2 DEF CallFits, PageOps
<1>4. CallsInv'
  BY <1>1, <1>2, <1>3, AfterReplacing DEF OrderlyInv
<1>5. FieldsInv'
  BY DEF OrderlyInv, ProtocolInv, FieldsInv, GoesBack, SameLoad
<1>6. OrderInv'
  BY <1>2, OrderWhileSorting DEF OrderlyInv
<1> QED
  BY <1>4, <1>5, <1>6 DEF OrderlyInv, ProtocolInv, CallsInv

\* A sort is cancelled.
LEMMA CancelSortOrderly ==
    ASSUME TypeOK, LoadsInv, OrderlyInv, CancelSort
    PROVE  OrderlyInv'
<1>1. /\ ui.sorting /\ GoesBack /\ UNCHANGED <<viewGen, task, src, parked, events, shown>>
  BY CancelSortFacts
<1>2. EventsRead
  BY <1>1 DEF EventsRead
<1> QED
  BY <1>1, <1>2, GoesBackOrderly

\* The source is open, its first page is asked for.
LEMMA OnOpenedOrderly ==
    ASSUME TypeOK, LoadsInv, OrderlyInv, OnOpened
    PROVE  OrderlyInv'
<1>1. /\ Receive("openCompleted") /\ ~ui.recovering
      /\ SameLoad /\ SameOrder
      /\ ui'.canSort = Head(events).canSort /\ ui'.inFlight
      /\ ui'.firstPending = ui.firstPending
      /\ UNCHANGED <<viewGen, opGen, shown>>
      /\ inbox' = Append(inbox, PageCall("first", opGen, NoToken, NoTotal))
      /\ Posted(PageCall("first", opGen, NoToken, NoTotal))
  BY OnOpenedFacts
<1>2. SignalFits(Head(events)) /\ Head(events).sig = "openCompleted" /\ ui.paged
      /\ UNCHANGED <<task, src, parked>>
  BY <1>1, AnswerFits DEF OrderlyInv
<1>3. Opening /\ src.order = Unsorted /\ ui.committed = Unsorted
      /\ (Head(events).canSort => ui.kind = "rowid")
  BY <1>1, <1>2 DEF SignalFits, Opening, OrderlyInv, ProtocolInv, FieldsInv
<1>4. PICK c \in Call : /\ inbox' = Append(inbox, c) /\ c.op = "first" /\ c.gen = opGen
  BY <1>1, CallFields DEF Posted
<1>5. CallFits(c)'
  <2>1. ~ui'.recovering /\ ~ui'.sorting /\ src'.order = ui'.committed
    BY <1>1, <1>2, <1>3 DEF SameOrder, Opening
  <2> QED
    BY <1>1, <1>4, <2>1 DEF CallFits, Wanted
<1>6. CallsInv'
  BY <1>1, <1>4, <1>5, AfterAnswer DEF OrderlyInv
<1>7. FieldsInv'
  BY <1>1, <1>2, <1>3 DEF OrderlyInv, ProtocolInv, FieldsInv, SameLoad, SameOrder, Opening
<1>8. OrderInv'
  BY <1>1, <1>2, OrderKept DEF OrderlyInv
<1> QED
  BY <1>6, <1>7, <1>8 DEF OrderlyInv, ProtocolInv, CallsInv

\* The source is open again.
LEMMA OnReopenedOrderly ==
    ASSUME TypeOK, LoadsInv, OrderlyInv, OnReopened
    PROVE  OrderlyInv'
<1>1. Receive("openCompleted") /\ ui.recovering /\ UNCHANGED <<viewGen, opGen, shown>>
  BY OnReopenedFacts
<1>2. SignalFits(Head(events)) /\ Head(events).sig = "openCompleted" /\ ui.paged
      /\ UNCHANGED <<task, src, parked>>
  BY <1>1, AnswerFits DEF OrderlyInv
<1>3. /\ src.order = Unsorted /\ (Head(events).canSort => ui.kind = "rowid")
      /\ ui.sorting /\ ui.orderValid /\ ~ui.inFlight
  BY <1>1, <1>2 DEF SignalFits, OrderlyInv, ProtocolInv, FieldsInv
<1>4. CASE inbox' = inbox /\ Recovered /\ ~ui'.orderValid /\ ~ui'.canSort
  <2>1. CallsInv'
    BY <1>1, <1>4, AfterAnswer DEF OrderlyInv
  <2>2. FieldsInv'
    BY <1>1, <1>3, <1>4 DEF OrderlyInv, ProtocolInv, FieldsInv, Recovered, SameLoad
  <2>3. OrderInv'
    BY <1>1, <1>2, <1>4 DEF OrderlyInv, OrderInv, OrdinalsInv, IdleSourceOrder, ShownInOrder,
                            OnDisplay, Recovered, SameLoad
  <2> QED
    BY <2>1, <2>2, <2>3 DEF OrderlyInv, ProtocolInv, CallsInv
<1>5. CASE /\ inbox' = inbox /\ Recovered /\ ui'.orderValid = ui.orderValid
           /\ ui.committed = Unsorted /\ ui'.canSort = Head(events).canSort
  <2>1. CallsInv'
    BY <1>1, <1>5, AfterAnswer DEF OrderlyInv
  <2>2. FieldsInv'
    BY <1>1, <1>3, <1>5 DEF OrderlyInv, ProtocolInv, FieldsInv, Recovered, SameLoad
  <2>3. OrderInv'
    BY <1>1, <1>2, <1>3, <1>5 DEF OrderlyInv, OrderInv, OrdinalsInv, IdleSourceOrder, ShownInOrder,
                                  OnDisplay, Recovered, SameLoad
  <2> QED
    BY <2>1, <2>2, <2>3 DEF OrderlyInv, ProtocolInv, CallsInv
<1>6. CASE /\ SameLoad /\ SameOrder /\ ui'.inFlight = ui.inFlight
           /\ ui'.firstPending = ui.firstPending /\ ui'.canSort = Head(events).canSort
           /\ inbox' = Append(inbox, SortCall(opGen, ui.committed))
           /\ Posted(SortCall(opGen, ui.committed))
  <2>1. PICK c \in Call : /\ inbox' = Append(inbox, c) /\ c.op = "sort" /\ c.gen = opGen
                          /\ c.sort = ui.committed
    BY <1>6, CallFields DEF Posted
  <2>2. CallFits(c)'
    <3>1. ui'.sorting /\ ui'.recovering /\ ui'.committed = ui.committed
      BY <1>1, <1>3, <1>6 DEF SameOrder
    <3> QED
      BY <2>1, <3>1 DEF CallFits, Wanted, PageOps
  <2>3. CallsInv'
    BY <1>1, <2>1, <2>2, AfterAnswer DEF OrderlyInv
  <2>4. FieldsInv'
    BY <1>1, <1>3, <1>6 DEF OrderlyInv, ProtocolInv, FieldsInv, SameOrder, SameLoad
  <2>5. OrderInv'
    BY <1>1, <1>2, <1>6, OrderKept DEF OrderlyInv
  <2> QED
    BY <2>3, <2>4, <2>5 DEF OrderlyInv, ProtocolInv, CallsInv
<1> QED
  BY <1>4, <1>5, <1>6, OnReopenedFacts

\* A page is shown: the order it was read in is the order on display from now on.
LEMMA OnPageReadyOrderly ==
    ASSUME TypeOK, LoadsInv, OrderlyInv, OnPageReady
    PROVE  OrderlyInv'
<1>1. /\ Receive("pageReady") /\ SameLoad
      /\ ui'.canSort = ui.canSort /\ ui'.orderValid = ui.orderValid
      /\ ~ui'.inFlight /\ ~ui'.firstPending
      /\ ui.sorting /\ ~ui.recovering =>
            ui'.committed = ui.pending /\ ui'.pending = Unsorted /\ ~ui'.sorting /\ ~ui'.recovering
      /\ ~ui.sorting \/ ui.recovering => SameOrder
      /\ shown' = [view |-> ui.gen, rows |-> Head(events).rows]
      /\ UNCHANGED <<viewGen, opGen, inbox>>
  BY OnPageReadyFacts
<1>2. SignalFits(Head(events)) /\ Head(events).sig = "pageReady" /\ ui.paged
      /\ UNCHANGED <<task, src, parked>>
  BY <1>1, AnswerFits DEF OrderlyInv
<1>3. /\ ui.inFlight /\ ~ui.recovering /\ src.order = Wanted
      /\ Ordered(Wanted, Head(events).rows)
  BY <1>2 DEF SignalFits
<1>4. ui'.committed = Wanted /\ ~ui'.sorting /\ ~ui'.recovering
  BY <1>1, <1>3 DEF Wanted, SameOrder
<1>5. CallsInv'
  BY <1>1, AfterAnswer DEF OrderlyInv
<1>6. shown'.view = ui.gen /\ shown'.rows = Head(events).rows
  BY <1>1
<1>7. FieldsInv'
  BY <1>1, <1>4, <1>6 DEF OrderlyInv, ProtocolInv, FieldsInv, SameLoad
<1>8. OrderInv'
  BY <1>2, <1>3, <1>4, <1>6 DEF OrderlyInv, OrderInv, OrdinalsInv, IdleSourceOrder, ShownInOrder,
                                Ordered
<1> QED
  BY <1>5, <1>7, <1>8 DEF OrderlyInv, ProtocolInv, CallsInv

\* A page that vanished leaves the one on display.
LEMMA OnPageVanishedOrderly ==
    ASSUME TypeOK, LoadsInv, OrderlyInv, OnPageVanished
    PROVE  OrderlyInv'
<1>1. /\ Receive("pageReady") /\ SameLoad /\ SameOrder
      /\ ui'.canSort = ui.canSort /\ ui'.firstPending = ui.firstPending /\ ~ui'.inFlight
      /\ UNCHANGED <<viewGen, opGen, inbox, shown>>
  BY OnPageVanishedFacts
<1>2. UNCHANGED <<task, src, parked>>
  BY <1>1, AnswerFits DEF OrderlyInv
<1>3. CallsInv'
  BY <1>1, AfterAnswer DEF OrderlyInv
<1>4. FieldsInv'
  BY <1>1 DEF OrderlyInv, ProtocolInv, FieldsInv, SameLoad, SameOrder
<1>5. OrderInv'
  BY <1>1, <1>2, OrderKept DEF OrderlyInv
<1> QED
  BY <1>3, <1>4, <1>5 DEF OrderlyInv, ProtocolInv, CallsInv

\* A page that could not be read.
LEMMA OnPageFailedOrderly ==
    ASSUME TypeOK, LoadsInv, OrderlyInv, OnPageFailed
    PROVE  OrderlyInv'
<1>1. Receive("pageReady") /\ UNCHANGED <<viewGen, shown>>
  BY OnPageFailedFacts
<1>2. UNCHANGED <<task, src, parked>> /\ EventsRead
  BY <1>1, AnswerFits DEF OrderlyInv
<1>3. CASE ui.sorting /\ GoesBack
  BY <1>1, <1>2, <1>3, GoesBackOrderly
<1>4. CASE /\ ~ui.sorting /\ SameLoad /\ SameOrder
           /\ ui'.canSort = ui.canSort /\ ui'.firstPending = ui.firstPending
           /\ ~ui'.inFlight /\ UNCHANGED <<opGen, inbox>>
  <2>1. CallsInv'
    BY <1>1, <1>4, AfterAnswer DEF OrderlyInv
  <2>2. FieldsInv'
    BY <1>1, <1>4 DEF OrderlyInv, ProtocolInv, FieldsInv, SameLoad, SameOrder
  <2>3. OrderInv'
    BY <1>1, <1>2, <1>4, OrderKept DEF OrderlyInv
  <2> QED
    BY <2>1, <2>2, <2>3 DEF OrderlyInv, ProtocolInv, CallsInv
<1> QED
  BY <1>3, <1>4, OnPageFailedFacts

\* A sort that ended: its first page is asked for, or the way back is through.
LEMMA OnSortCompletedOrderly ==
    ASSUME TypeOK, LoadsInv, OrderlyInv, OnSortCompleted
    PROVE  OrderlyInv'
<1>1. Receive("sortCompleted") /\ UNCHANGED <<viewGen, shown>>
  BY OnSortCompletedFacts
<1>2. SignalFits(Head(events)) /\ Head(events).sig = "sortCompleted" /\ ui.paged
      /\ UNCHANGED <<task, src, parked>> /\ EventsRead
  BY <1>1, AnswerFits DEF OrderlyInv
<1>3. ui.sorting /\ (Head(events).ok => src.order = Wanted)
  BY <1>2 DEF SignalFits
<1>4. ui.kind = "rowid" /\ ui.orderValid
  BY <1>3 DEF OrderlyInv, ProtocolInv, FieldsInv
<1>5. CASE /\ ui.recovering /\ Recovered /\ inbox' = inbox /\ opGen' = opGen
           /\ \/ Head(events).ok /\ ui'.orderValid = ui.orderValid /\ ui'.canSort = ui.canSort
              \/ ~ui'.orderValid /\ ~ui'.canSort
  <2>1. CallsInv'
    BY <1>1, <1>5, AfterAnswer DEF OrderlyInv
  <2>2. FieldsInv'
    BY <1>1, <1>5 DEF OrderlyInv, ProtocolInv, FieldsInv, Recovered, SameLoad
  <2>3. ui'.orderValid => src.order = ui.committed
    BY <1>3, <1>5 DEF Wanted
  <2>4. OrderInv'
    BY <1>1, <1>2, <1>5, <2>3 DEF OrderlyInv, OrderInv, OrdinalsInv, IdleSourceOrder, ShownInOrder,
                                  OnDisplay, Recovered, SameLoad
  <2> QED
    BY <2>1, <2>2, <2>4 DEF OrderlyInv, ProtocolInv, CallsInv
<1>6. CASE GoesBack
  BY <1>1, <1>2, <1>3, <1>6, GoesBackOrderly
<1>7. CASE /\ ~ui.recovering /\ Head(events).ok
           /\ SameLoad /\ SameOrder
           /\ ui'.canSort = ui.canSort /\ ui'.firstPending = ui.firstPending
           /\ ui'.inFlight /\ opGen' = opGen
           /\ inbox' = Append(inbox, PageCall("first", opGen, NoToken, NoTotal))
           /\ Posted(PageCall("first", opGen, NoToken, NoTotal))
  <2>1. PICK c \in Call : /\ inbox' = Append(inbox, c) /\ c.op = "first" /\ c.gen = opGen
    BY <1>7, CallFields DEF Posted
  <2>2. ~ui'.recovering /\ Wanted' = Wanted
    BY <1>7 DEF SameOrder, Wanted
  <2>3. CallFits(c)'
    BY <1>2, <1>3, <1>7, <2>1, <2>2 DEF CallFits
  <2>4. CallsInv'
    BY <1>1, <1>7, <2>1, <2>3, AfterAnswer DEF OrderlyInv
  <2>5. FieldsInv'
    BY <1>1, <1>2, <1>4, <1>7 DEF OrderlyInv, ProtocolInv, FieldsInv, SameLoad, SameOrder
  <2>6. OrderInv'
    BY <1>1, <1>2, <1>7, OrderKept DEF OrderlyInv
  <2> QED
    BY <2>4, <2>5, <2>6 DEF OrderlyInv, ProtocolInv, CallsInv
<1> QED
  BY <1>5, <1>6, <1>7, OnSortCompletedFacts

\* Leaving a table and loading one.
LEMMA LeaveOrderly ==
    ASSUME TypeOK, TypeOK', LoadsInv, LoadsInv', OrderlyInv, LeaveTable \/ OnOpenFailed
    PROVE  OrderlyInv'
<1>1. CallsInv'
  BY AfterLeaving
<1>2. WasReset /\ ~ui'.paged /\ ~ui'.firstPending /\ src' = src
  BY LeaveFacts
<1>3. FieldsInv'
  BY <1>2 DEF WasReset, FieldsInv
<1>4. OrderInv'
  BY <1>2 DEF OrderlyInv, OrderInv, OrdinalsInv, IdleSourceOrder, ShownInOrder, OnDisplay
<1> QED
  BY <1>1, <1>3, <1>4 DEF OrderlyInv, ProtocolInv, CallsInv

\* The next table starts with nothing on display and no order.
LEMMA LoadOrderly ==
    ASSUME TypeOK, LoadsInv, OrderlyInv, LoadSelectedTable
    PROVE  OrderlyInv'
<1>1. CallsInv'
  BY AfterLoading
<1>2. /\ WasReset /\ ui'.firstPending /\ src' = NoSource /\ shown' = NothingShown
      /\ ui'.gen = ui.gen + 1 /\ ui.gen \in Nat
  BY LoadFacts, StateTypes DEF WasReset
<1>3. shown'.view # ui'.gen /\ src'.order = Unsorted
  BY <1>2 DEF NothingShown, NoSource, EmptySource
<1>4. FieldsInv'
  BY <1>2, <1>3 DEF WasReset, FieldsInv
<1>5. OrderInv'
  BY <1>2, <1>3 DEF WasReset, OrderInv, OrdinalsInv, IdleSourceOrder, ShownInOrder, OnDisplay
<1> QED
  BY <1>1, <1>4, <1>5 DEF OrderlyInv, ProtocolInv, CallsInv

\* What fits the fields still does when neither they nor the source's order change.
LEMMA FitsKept ==
    ASSUME SameUi, src'.order = src.order
    PROVE  /\ \A c : CallFits(c) => CallFits(c)'
           /\ \A e : SignalFits(e) => SignalFits(e)'
BY DEF SameUi, SameLoad, CallFits, SignalFits, Opening, Wanted

\* Calls and signals that go without being served or read, and others that
\* nobody waits for.
LEMMA Fewer ==
    ASSUME TypeOK, OneLive, NumbersInv, LiveFits, UNCHANGED <<viewGen, opGen>>,
           \A i \in LiveCalls : \A c \in Call : c = inbox[i] /\ CallFits(c) => CallFits(c)',
           \A c \in Call : c \in {task', parked'} /\ IsLive(c) /\ CallFits(c) => CallFits(c)',
           \A i \in LiveSignals : \A e \in Event : e = events[i] /\ SignalFits(e) => SignalFits(e)',
           task' \in {task, NoCall}, parked' \in {parked, NoCall},
           NEW k \in Nat, NEW l \in Nat,
           \A i \in DOMAIN inbox' :
               \/ i + k \in DOMAIN inbox /\ inbox'[i] = inbox[i + k]
               \/ ~IsLive(inbox'[i]) /\ NotAhead(inbox'[i]),
           \A i \in DOMAIN events' :
               \/ i + l \in DOMAIN events /\ events'[i] = events[i + l]
               \/ ~IsLiveSignal(events'[i]) /\ NotAhead(events'[i]),
           DOMAIN inbox' \subseteq Nat, DOMAIN events' \subseteq Nat
    PROVE  OneLive' /\ NumbersInv' /\ LiveFits'
<1>1. ~IsLive(NoCall) /\ NotAhead(NoCall)
  BY StateTypes, NoCallType DEF IsLive, Requests, PageOps, NotAhead, NoCall, NewCall
<1>2. \A i \in LiveCalls' : i \in DOMAIN inbox' /\ i + k \in LiveCalls /\ inbox'[i] = inbox[i + k]
  BY DEF LiveCalls, IsLive, IsStale
<1>3. \A i \in LiveSignals' :
         i \in DOMAIN events' /\ i + l \in LiveSignals /\ events'[i] = events[i + l]
  BY DEF LiveSignals, IsLiveSignal
<1>4. IsLive(task)' => task' = task /\ IsLive(task)
  BY <1>1 DEF IsLive, IsStale
<1>5. IsLive(parked)' => parked' = parked /\ IsLive(parked)
  BY <1>1 DEF IsLive, IsStale
<1>6. NumbersInv'
  BY <1>1 DEF NumbersInv, NotAhead
<1>7. OneLive'
  <2>1. \A i, j \in LiveCalls' : i = j
    BY <1>2 DEF OneLive
  <2>2. \A i, j \in LiveSignals' : i = j
    BY <1>3 DEF OneLive
  <2>3. /\ LiveCalls' # {} => LiveCalls # {}
        /\ LiveSignals' # {} => LiveSignals # {}
    BY <1>2, <1>3
  <2> QED
    BY <1>4, <1>5, <2>1, <2>2, <2>3 DEF OneLive
<1>8. LiveFits'
  <2>1. /\ \A i \in DOMAIN inbox : inbox[i] \in Call
        /\ \A i \in DOMAIN events : events[i] \in Event
        /\ task \in Call /\ parked \in Call
    <3>1. inbox \in Seq(Call) /\ events \in Seq(Event) /\ task \in Call /\ parked \in Call
      BY StateTypes DEF WorkerTypeOK
    <3> QED
      BY <3>1, QueueElement
  <2>2. ASSUME NEW i \in LiveCalls' PROVE CallFits(inbox[i])'
    <3>1. PICK c \in Call : c = inbox[i + k] /\ c = inbox'[i] /\ i + k \in LiveCalls
      BY <1>2, <2>1, <2>2 DEF LiveCalls
    <3>2. CallFits(c)'
      BY <3>1 DEF LiveFits
    <3> QED
      BY <3>1, <3>2 DEF CallFits
  <2>3. ASSUME NEW i \in LiveSignals' PROVE SignalFits(events[i])'
    <3>1. PICK e \in Event : e = events[i + l] /\ e = events'[i] /\ i + l \in LiveSignals
      BY <1>3, <2>1, <2>3 DEF LiveSignals
    <3>2. SignalFits(e)'
      BY <3>1 DEF LiveFits
    <3> QED
      BY <3>1, <3>2 DEF SignalFits
  <2>4. IsLive(task)' => CallFits(task)'
    <3>1. ASSUME IsLive(task)' PROVE CallFits(task)'
      <4>1. PICK c \in Call : c = task /\ c = task' /\ IsLive(c) /\ CallFits(c)
        BY <1>4, <2>1, <3>1 DEF LiveFits
      <4>2. CallFits(c)'
        BY <4>1
      <4> QED
        BY <4>1, <4>2 DEF CallFits
    <3> QED
      BY <3>1
  <2>5. IsLive(parked)' => CallFits(parked)'
    <3>1. ASSUME IsLive(parked)' PROVE CallFits(parked)'
      <4>1. PICK c \in Call : c = parked /\ c = parked' /\ IsLive(c) /\ CallFits(c)
        BY <1>5, <2>1, <3>1 DEF LiveFits
      <4>2. CallFits(c)'
        BY <4>1
      <4> QED
        BY <4>1, <4>2 DEF CallFits
    <3> QED
      BY <3>1
  <2> QED
    BY <2>2, <2>3, <2>4, <2>5 DEF LiveFits
<1> QED
  BY <1>6, <1>7, <1>8

\* News about totals, the status bar, and others writing to the table.
LEMMA AsideOrderly ==
    ASSUME TypeOK, TypeOK', LoadsInv, OrderlyInv, Aside
    PROVE  OrderlyInv'
<1>1. SameUi /\ UNCHANGED <<viewGen, opGen, inbox, task, src, parked, shown>>
  BY AsideFacts
<1>2. /\ \A c : CallFits(c) => CallFits(c)'
      /\ \A e : SignalFits(e) => SignalFits(e)'
  BY <1>1, FitsKept
<1>3. PICK l \in {0, 1} : \A i \in DOMAIN events' : i + l \in DOMAIN events /\ events'[i] = events[i + l]
  <2>1. events' = events \/ (events # <<>> /\ events' = Tail(events))
    BY DEF Aside, ClickUnsortable, SelectCell, IgnoreStaleSignal, OnIndexProgress, Receive,
           Count, OnCountCompleted, DeleteRow, vars, workerVars
  <2>2. events \in Seq(Event)
    BY StateTypes
  <2>3. CASE events' = events
    <3>1. \A i \in DOMAIN events : i + 0 = i
      BY <2>2
    <3> QED
      BY <2>3, <3>1
  <2>4. CASE events # <<>> /\ events' = Tail(events)
    BY <2>2, <2>4, QueueTail
  <2> QED
    BY <2>1, <2>3, <2>4
<1>4. /\ \A i \in DOMAIN inbox' : i + 0 \in DOMAIN inbox /\ inbox'[i] = inbox[i + 0]
      /\ DOMAIN inbox' \subseteq Nat /\ DOMAIN events' \subseteq Nat
  <2>1. inbox \in Seq(Call) /\ events' \in Seq(Event) /\ inbox' = inbox
    BY <1>1, StateTypes DEF TypeOK, WorkerTypeOK
  <2>2. \A i \in DOMAIN inbox : i + 0 = i
    BY <2>1
  <2> QED
    BY <2>1, <2>2
<1>5. OneLive' /\ NumbersInv' /\ LiveFits'
  <2>1. OneLive /\ NumbersInv /\ LiveFits
    BY DEF OrderlyInv, ProtocolInv
  <2>2. l \in Nat /\ 0 \in Nat
    BY <1>3
  <2> HIDE DEF OneLive, NumbersInv, LiveFits
  <2> QED
    BY <1>1, <1>2, <1>3, <1>4, <2>1, <2>2, Fewer
<1>6. ReplacedInv'
  <2>1. LiveCalls' = LiveCalls /\ (LiveSignals = {} => LiveSignals' = {})
        /\ (IsLive(parked)' => IsLive(parked)) /\ (IsLive(task) => IsLive(task)')
    BY <1>1, <1>3 DEF LiveCalls, LiveSignals, IsLive, IsStale, IsLiveSignal
  <2> QED
    BY <1>1, <2>1 DEF OrderlyInv, ProtocolInv, ReplacedInv, SameUi, SameLoad
<1>7. FieldsInv'
  BY <1>1 DEF OrderlyInv, ProtocolInv, FieldsInv, SameUi, SameLoad
<1>8. OrderInv'
  BY <1>1, OrderKept DEF OrderlyInv, SameUi, SameOrder
<1> QED
  BY <1>5, <1>6, <1>7, <1>8 DEF OrderlyInv, ProtocolInv

-----------------------------------------------------------------------------
(* The worker's steps do too.                                              *)

\* The worker leaves the viewer's fields alone.
GuiSame == UNCHANGED <<viewGen, opGen, ui, shown>>

\* Drops what it drops.
LEMMA WorkerDrops ==
    ASSUME TypeOK, TypeOK', OrderlyInv, GuiSame,
           src'.order = src.order, src'.ordinals = src.ordinals,
           task = NoCall, task' = NoCall, parked' \in {parked, NoCall},
           \A i \in DOMAIN inbox' :
               \/ i + 1 \in DOMAIN inbox /\ inbox'[i] = inbox[i + 1]
               \/ ~IsLive(inbox'[i]) /\ NotAhead(inbox'[i]),
           \A i \in DOMAIN events' :
               \/ i + 0 \in DOMAIN events /\ events'[i] = events[i + 0]
               \/ ~IsLiveSignal(events'[i]) /\ NotAhead(events'[i])
    PROVE  OrderlyInv'
<1>1. SameUi
  BY DEF GuiSame, SameUi, SameLoad
<1>2. /\ \A c : CallFits(c) => CallFits(c)'
      /\ \A e : SignalFits(e) => SignalFits(e)'
  BY <1>1, FitsKept
<1>3. DOMAIN inbox' \subseteq Nat /\ DOMAIN events' \subseteq Nat
  <2>1. inbox' \in Seq(Call) /\ events' \in Seq(Event)
    BY DEF TypeOK, WorkerTypeOK
  <2> QED
    BY <2>1
<1>4. OneLive' /\ NumbersInv' /\ LiveFits'
  <2>1. OneLive /\ NumbersInv /\ LiveFits
    BY DEF OrderlyInv, ProtocolInv
  <2>2. 0 \in Nat /\ 1 \in Nat
    OBVIOUS
  <2> HIDE DEF OneLive, NumbersInv, LiveFits
  <2> QED
    BY <1>2, <1>3, <2>1, <2>2, Fewer DEF GuiSame
<1>5. ReplacedInv'
  BY DEF ReplacedInv
<1>6. FieldsInv'
  BY DEF OrderlyInv, ProtocolInv, FieldsInv, GuiSame
<1>7. OrderInv'
  BY DEF OrderlyInv, OrderInv, OrdinalsInv, IdleSourceOrder, ShownInOrder, OnDisplay, GuiSame
<1> QED
  BY <1>4, <1>5, <1>6, <1>7 DEF OrderlyInv, ProtocolInv

\* Hands the one request that is live on: from the queue to one of its two
\* slots, or from there into a signal.
LEMMA WorkerHandsOn ==
    ASSUME TypeOK, TypeOK', GuiSame,
           \A i \in DOMAIN inbox' : ~IsLive(inbox'[i]) /\ NotAhead(inbox'[i]),
           NotAhead(task'), NotAhead(parked'),
           NEW n, \A i \in DOMAIN events' : NotAhead(events'[i]) /\ (i = n \/ ~IsLiveSignal(events'[i])),
           IsLive(task') => ~IsLive(parked') /\ ~(n \in DOMAIN events') /\ CallFits(task)',
           IsLive(parked') => ~(n \in DOMAIN events') /\ CallFits(parked)',
           n \in DOMAIN events' => SignalFits(events[n])'
    PROVE  OneLive' /\ NumbersInv' /\ LiveFits'
<1>1. LiveCalls' = {} /\ LiveSignals' \subseteq {n} \intersect DOMAIN events'
  BY DEF LiveCalls, LiveSignals, IsLive, IsStale, IsLiveSignal, GuiSame
<1>2. IsLive(task)' = IsLive(task') /\ IsLive(parked)' = IsLive(parked')
  BY DEF IsLive, IsStale, GuiSame
<1>3. OneLive'
  BY <1>1, <1>2 DEF OneLive
<1>4. NumbersInv'
  BY DEF NumbersInv, NotAhead, GuiSame
<1>5. LiveFits'
  BY <1>1, <1>2 DEF LiveFits
<1> QED
  BY <1>3, <1>4, <1>5

\* While the first call is live nothing else is.
LEMMA HeadAlone ==
    ASSUME TypeOK, OneLive, LiveFits, inbox # <<>>, IsLive(Head(inbox))
    PROVE  /\ \A i \in DOMAIN Tail(inbox) : ~IsLive(Tail(inbox)[i])
           /\ ~IsLive(task) /\ ~IsLive(parked) /\ LiveSignals = {}
           /\ CallFits(Head(inbox))
<1>1. /\ 1 \in DOMAIN inbox /\ inbox[1] = Head(inbox) /\ Tail(inbox) \in Seq(Call)
      /\ \A i \in DOMAIN Tail(inbox) : i + 1 \in DOMAIN inbox /\ Tail(inbox)[i] = inbox[i + 1]
  BY InboxTail
<1>2. 1 \in LiveCalls
  BY <1>1 DEF LiveCalls
<1>3. ASSUME NEW i \in DOMAIN Tail(inbox), IsLive(Tail(inbox)[i]) PROVE FALSE
  <2>1. i + 1 \in LiveCalls
    BY <1>1, <1>3 DEF LiveCalls
  <2>2. i + 1 = 1
    BY <1>2, <2>1 DEF OneLive
  <2>3. DOMAIN Tail(inbox) = 1..Len(Tail(inbox))
    BY <1>1
  <2> QED
    BY <2>2, <2>3
<1> HIDE DEF IsLive
<1> QED
  BY <1>1, <1>2, <1>3 DEF OneLive, LiveFits

\* A live call belongs to the load on display.
LEMMA LiveIsPaged ==
    ASSUME TypeOK, LoadsInv, NEW c \in Call, CallBelongs(c), IsLive(c)
    PROVE  ui.paged /\ c.kind = ui.kind /\ c.view = viewGen /\ c.gen = opGen
<1>1. viewGen \in Nat /\ c.view \in Nat
  BY StateTypes DEF Call
<1> QED
  BY <1>1 DEF CallBelongs, Here, IsLive, IsStale

\* open() or sort() begins.
LEMMA BeginTaskOrderly ==
    ASSUME TypeOK, TypeOK', LoadsInv, OrderlyInv, BeginTask, UNCHANGED guiVars
    PROVE  OrderlyInv'
<1>1. /\ inbox # <<>> /\ inbox' = Tail(inbox) /\ task = NoCall
      /\ UNCHANGED <<rows, src, events>> /\ GuiSame
      /\ \/ UNCHANGED <<task, parked>>
         \/ ~IsStale(Head(inbox)) /\ task' = Head(inbox) /\ parked' \in {parked, NoCall}
      /\ Head(inbox).op \in {"open", "sort"}
  BY BeginTaskFacts, StateTypes DEF guiVars, GuiSame
<1>2. /\ Tail(inbox) \in Seq(Call) /\ Head(inbox) \in Call /\ 1 \in DOMAIN inbox
      /\ \A i \in DOMAIN Tail(inbox) : i + 1 \in DOMAIN inbox /\ Tail(inbox)[i] = inbox[i + 1]
      /\ inbox[1] = Head(inbox)
  BY <1>1, InboxTail
<1>3. events \in Seq(Event) /\ \A i \in DOMAIN events : i + 0 = i /\ i # 0
  <2>1. events \in Seq(Event)
    BY StateTypes
  <2> QED
    BY <2>1
<1>4. CASE UNCHANGED <<task, parked>>
  <2>1. \A i \in DOMAIN inbox' : i + 1 \in DOMAIN inbox /\ inbox'[i] = inbox[i + 1]
    BY <1>1, <1>2
  <2>2. \A i \in DOMAIN events' : i + 0 \in DOMAIN events /\ events'[i] = events[i + 0]
    BY <1>1, <1>3
  <2> HIDE DEF OrderlyInv
  <2> QED
    BY <1>1, <1>4, <2>1, <2>2, WorkerDrops
<1>5. CASE ~IsStale(Head(inbox)) /\ task' = Head(inbox) /\ parked' \in {parked, NoCall}
  <2>1. IsLive(Head(inbox))
    BY <1>1, <1>5 DEF IsLive, Requests
  <2>2. /\ \A i \in DOMAIN Tail(inbox) : ~IsLive(Tail(inbox)[i])
        /\ ~IsLive(parked) /\ LiveSignals = {} /\ CallFits(Head(inbox))
    BY <1>1, <2>1, HeadAlone DEF OrderlyInv, ProtocolInv
  <2>3. SameUi
    BY <1>1 DEF GuiSame, SameUi, SameLoad
  <2>4. CallFits(Head(inbox)) => CallFits(task)'
    BY <1>1, <1>5, <2>3 DEF CallFits, SameUi, SameLoad, Wanted, Opening
  <2>5. ~IsLive(NoCall) /\ NotAhead(NoCall)
    BY StateTypes, NoCallType DEF IsLive, Requests, PageOps, NotAhead, NoCall, NewCall
  <2>6. \A i \in DOMAIN inbox' : ~IsLive(inbox'[i]) /\ NotAhead(inbox'[i])
    BY <1>1, <1>2, <2>2 DEF OrderlyInv, ProtocolInv, NumbersInv
  <2>7. NotAhead(task') /\ NotAhead(parked') /\ ~IsLive(parked')
    BY <1>2, <1>5, <2>2, <2>5 DEF OrderlyInv, ProtocolInv, NumbersInv
  <2>8. \A i \in DOMAIN events' : NotAhead(events'[i]) /\ (i = 0 \/ ~IsLiveSignal(events'[i]))
    BY <1>1, <2>2 DEF OrderlyInv, ProtocolInv, NumbersInv, LiveSignals
  <2>9. 0 \notin DOMAIN events'
    BY <1>1, <1>3
  <2>10. OneLive' /\ NumbersInv' /\ LiveFits'
    <3> HIDE DEF IsLive, CallFits, SignalFits, NotAhead, IsLiveSignal
    <3> QED
      BY <1>1, <2>2, <2>4, <2>6, <2>7, <2>8, <2>9, WorkerHandsOn
  <2>11. ReplacedInv'
    BY <1>1, <1>5, <2>1 DEF ReplacedInv, IsLive, IsStale, GuiSame
  <2>12. FieldsInv'
    BY <1>1 DEF OrderlyInv, ProtocolInv, FieldsInv, GuiSame
  <2>13. OrderInv'
    BY <1>1 DEF OrderlyInv, OrderInv, OrdinalsInv, IdleSourceOrder, ShownInOrder, OnDisplay, GuiSame
  <2> QED
    BY <2>10, <2>11, <2>12, <2>13 DEF OrderlyInv, ProtocolInv
<1> QED
  BY <1>1, <1>4, <1>5

\* The worker lets its source go: its load was left before.
LEMMA ShutdownOrderly ==
    ASSUME TypeOK, TypeOK', LoadsInv, LoadsInv', OrderlyInv, Shutdown, UNCHANGED guiVars
    PROVE  OrderlyInv'
<1>1. /\ inbox # <<>> /\ inbox' = Tail(inbox) /\ Head(inbox).op = "shutdown"
      /\ src' = NoSource /\ parked' = NoCall
      /\ UNCHANGED <<rows, viewGen, opGen, task, events>> /\ GuiSame
  BY ShutdownFacts, StateTypes DEF guiVars, GuiSame
<1>2. /\ Tail(inbox) \in Seq(Call) /\ Head(inbox) \in Call /\ 1 \in DOMAIN inbox
      /\ \A i \in DOMAIN Tail(inbox) : i + 1 \in DOMAIN inbox /\ Tail(inbox)[i] = inbox[i + 1]
      /\ inbox[1] = Head(inbox)
  BY <1>1, InboxTail
<1>3. ~ui.paged
  BY <1>1, <1>2 DEF LoadsInv, CallBelongs
<1>4. /\ \A i \in DOMAIN inbox' : inbox'[i].view # viewGen
      /\ \A i \in DOMAIN events' : events'[i].view # viewGen
      /\ task' # NoCall => task'.view # viewGen
  <2>1. /\ \A i \in DOMAIN inbox : inbox[i].view \in Nat /\ inbox[i].view < viewGen
        /\ \A i \in DOMAIN events : events[i].view \in Nat /\ events[i].view < viewGen
        /\ task # NoCall => task.view \in Nat /\ task.view < viewGen
        /\ viewGen \in Nat
    BY <1>3, AllNumbers DEF LoadsInv, CallBelongs, Here, Past
  <2> QED
    BY <1>1, <1>2, <2>1
<1>5. ~IsLive(NoCall) /\ NotAhead(NoCall)
  BY StateTypes, NoCallType DEF IsLive, Requests, PageOps, NotAhead, NoCall, NewCall
<1>6. /\ LiveCalls' = {} /\ LiveSignals' = {} /\ ~IsLive(task)' /\ ~IsLive(parked)'
      /\ NumbersInv'
  BY <1>1, <1>4, <1>5
     DEF LiveCalls, LiveSignals, IsLive, IsStale, IsLiveSignal, NumbersInv, NotAhead, GuiSame
<1>7. FieldsInv'
  BY <1>1 DEF OrderlyInv, ProtocolInv, FieldsInv, GuiSame
<1>8. OrderInv'
  <2>1. NoSource.order = Unsorted
    BY DEF NoSource, EmptySource
  <2> QED
    BY <1>1, <1>3, <2>1 DEF OrderlyInv, OrderInv, OrdinalsInv, IdleSourceOrder, ShownInOrder,
                            OnDisplay, GuiSame
<1>9. ReplacedInv'
  BY <1>1, <1>3 DEF ReplacedInv, GuiSame
<1> QED
  BY <1>6, <1>7, <1>8, <1>9 DEF OrderlyInv, ProtocolInv, OneLive, LiveFits

\* What the call in progress says, and that nothing else is live when it is.
LEMMA TaskAlone ==
    ASSUME TypeOK, LoadsInv, OrderlyInv, task.op \in {"open", "sort"}
    PROVE  /\ task \in Call /\ task # NoCall /\ CallBelongs(task) /\ NotAhead(task)
           /\ ~IsStale(task) => /\ \A i \in DOMAIN inbox : ~IsLive(inbox[i])
                                /\ ~IsLive(parked) /\ LiveSignals = {} /\ CallFits(task)
                                /\ ui.paged /\ task.kind = ui.kind
           /\ IsStale(task) /\ ~ui.paged => LiveCalls = {} /\ LiveSignals = {} /\ ~IsLive(parked)
<1>1. task \in Call /\ task # NoCall
  BY StateTypes, NoCallType DEF WorkerTypeOK
<1>2. CallBelongs(task) /\ NotAhead(task)
  BY <1>1 DEF LoadsInv, OrderlyInv, ProtocolInv, NumbersInv
<1>3. ASSUME ~IsStale(task)
      PROVE  /\ \A i \in DOMAIN inbox : ~IsLive(inbox[i])
             /\ ~IsLive(parked) /\ LiveSignals = {} /\ CallFits(task)
             /\ ui.paged /\ task.kind = ui.kind
  <2>1. IsLive(task)
    BY <1>3 DEF IsLive, Requests
  <2>2. ui.paged /\ task.kind = ui.kind
    BY <1>1, <1>2, <2>1, LiveIsPaged
  <2>3. LiveCalls = {} /\ ~IsLive(parked) /\ LiveSignals = {} /\ CallFits(task)
    BY <2>1 DEF OrderlyInv, ProtocolInv, OneLive, LiveFits
  <2> QED
    BY <2>2, <2>3 DEF LiveCalls
<1>4. ASSUME ~ui.paged
      PROVE  LiveCalls = {} /\ LiveSignals = {} /\ ~IsLive(parked)
  <2>1. /\ \A i \in DOMAIN inbox : inbox[i].view \in Nat /\ inbox[i].view < viewGen
        /\ \A i \in DOMAIN events : events[i].view \in Nat /\ events[i].view < viewGen
        /\ parked # NoCall => parked.view \in Nat /\ parked.view < viewGen
        /\ viewGen \in Nat
    BY <1>4, AllNumbers DEF LoadsInv, CallBelongs, Here, Past
  <2>2. ~IsLive(NoCall)
    BY NoCallType DEF IsLive, Requests, PageOps
  <2>3. /\ \A i \in DOMAIN inbox : inbox[i].view # viewGen
        /\ \A i \in DOMAIN events : events[i].view # viewGen
        /\ parked # NoCall => parked.view # viewGen
    BY <2>1
  <2> QED
    BY <2>2, <2>3 DEF LiveCalls, LiveSignals, IsLive, IsStale, IsLiveSignal
<1> QED
  BY <1>1, <1>2, <1>3, <1>4

\* What replaced a call that is in progress does not mind the order it leaves.
LEMMA StaleTaskEnds ==
    ASSUME TypeOK, TypeOK', LoadsInv, OrderlyInv, GuiSame,
           task.op \in {"open", "sort"}, IsStale(task), task' = NoCall,
           UNCHANGED <<inbox, parked, events>>,
           task.op = "open" => src'.order \in {Unsorted, src.order}
    PROVE  OneLive' /\ NumbersInv' /\ LiveFits'
<1>1. task # NoCall /\ ~IsLive(task)
  BY TaskAlone DEF IsLive
<1>2. /\ LiveSignals = {} /\ ~IsLive(parked)
      /\ \A i \in LiveCalls : \A c \in Call : c = inbox[i] /\ CallFits(c) => CallFits(c)'
  <2>1. CASE ~ui.paged
    BY <2>1, TaskAlone
  <2>2. CASE /\ ui.paged /\ LiveSignals = {} /\ ~IsLive(parked)
             /\ ui.sorting /\ \A i \in LiveCalls : inbox[i].op \notin PageOps
    BY <2>2 DEF CallFits, GuiSame, Wanted, Opening
  <2>3. CASE /\ ui.paged /\ LiveSignals = {} /\ ~IsLive(parked)
             /\ ~ui.sorting /\ task.op = "open" /\ ui.committed = Unsorted
    BY <2>3 DEF CallFits, GuiSame, Wanted, Opening
  <2> QED
    BY <1>1, <2>1, <2>2, <2>3 DEF OrderlyInv, ProtocolInv, ReplacedInv
<1>3. ~IsLive(NoCall)
  BY NoCallType DEF IsLive, Requests, PageOps
<1>4. /\ \A i \in DOMAIN inbox' : i + 0 \in DOMAIN inbox /\ inbox'[i] = inbox[i + 0]
      /\ \A i \in DOMAIN events' : i + 0 \in DOMAIN events /\ events'[i] = events[i + 0]
      /\ DOMAIN inbox' \subseteq Nat /\ DOMAIN events' \subseteq Nat
  <2>1. inbox \in Seq(Call) /\ events \in Seq(Event)
    BY StateTypes
  <2>2. (\A i \in DOMAIN inbox : i + 0 = i) /\ (\A i \in DOMAIN events : i + 0 = i)
    BY <2>1
  <2> QED
    BY <2>1, <2>2
<1>5. OneLive /\ NumbersInv /\ LiveFits /\ 0 \in Nat
  BY DEF OrderlyInv, ProtocolInv
<1> HIDE DEF OneLive, NumbersInv, LiveFits, IsLive, CallFits, SignalFits
<1>6. \A c \in Call : c \in {task', parked'} /\ IsLive(c) /\ CallFits(c) => CallFits(c)'
  BY <1>2, <1>3
<1>7. \A i \in LiveSignals : \A e \in Event : e = events[i] /\ SignalFits(e) => SignalFits(e)'
  BY <1>2
<1> QED
  BY <1>2, <1>4, <1>5, <1>6, <1>7, Fewer DEF GuiSame

\* open() or sort() ends and says so: nothing else is live but its signal.
LEMMA LiveTaskEnds ==
    ASSUME TypeOK, TypeOK', LoadsInv, OrderlyInv, GuiSame,
           task.op \in {"open", "sort"}, ~IsStale(task), task' = NoCall, parked' = parked,
           \A i \in DOMAIN inbox' :
               \/ i \in DOMAIN inbox /\ inbox'[i] = inbox[i]
               \/ inbox'[i].op = "slice" /\ inbox'[i].gen = 0,
           NEW done \in Event, done.view = task.view, done.gen = task.gen, SignalFits(done)',
           \A i \in DOMAIN events' :
               \/ i \in DOMAIN events /\ events'[i] = events[i]
               \/ i = Len(events) + 1 /\ events'[i] = done
               \/ i # Len(events) + 1 /\ events'[i].sig = "indexProgress" /\ events'[i].gen = 0
    PROVE  OneLive' /\ NumbersInv' /\ LiveFits'
<1>1. /\ \A i \in DOMAIN inbox : ~IsLive(inbox[i])
      /\ ~IsLive(parked) /\ LiveSignals = {} /\ task \in Call /\ NotAhead(task)
  BY TaskAlone
<1>2. opGen \in Nat /\ viewGen \in Nat
  BY StateTypes
<1>3. PICK n \in Nat : n = Len(events) + 1 /\ n \notin DOMAIN events
  <2>1. events \in Seq(Event)
    BY StateTypes
  <2> QED
    BY <2>1
<1>4. ~IsLive(NoCall) /\ NotAhead(NoCall)
  BY StateTypes, NoCallType DEF IsLive, Requests, PageOps, NotAhead, NoCall, NewCall
<1>5. \A i \in DOMAIN inbox' : ~IsLive(inbox'[i]) /\ NotAhead(inbox'[i])
  BY <1>1, <1>2 DEF OrderlyInv, ProtocolInv, NumbersInv, NotAhead, IsLive, Requests, PageOps
<1>6. NotAhead(done)
  BY <1>1 DEF NotAhead
<1>7. \A i \in DOMAIN events' :
         NotAhead(events'[i]) /\ (i = n \/ ~IsLiveSignal(events'[i]))
  BY <1>1, <1>2, <1>3, <1>6 DEF OrderlyInv, ProtocolInv, NumbersInv, NotAhead, LiveSignals, IsLiveSignal
<1>8. n \in DOMAIN events' => SignalFits(events[n])'
  <2>1. n \in DOMAIN events' => events'[n] = done
    BY <1>3
  <2> QED
    BY <2>1 DEF SignalFits
<1>9. NotAhead(task') /\ NotAhead(parked') /\ ~IsLive(task') /\ ~IsLive(parked')
  BY <1>1, <1>4 DEF OrderlyInv, ProtocolInv, NumbersInv
<1> HIDE DEF IsLive, CallFits, SignalFits, NotAhead, IsLiveSignal
<1> QED
  BY <1>5, <1>7, <1>8, <1>9, WorkerHandsOn

\* open() returns.
LEMMA FinishOpenOrderly ==
    ASSUME TypeOK, TypeOK', LoadsInv, OrderlyInv, FinishOpen, UNCHANGED guiVars
    PROVE  OrderlyInv'
<1>1. /\ task.op = "open" /\ task' = NoCall
      /\ UNCHANGED <<rows, viewGen, opGen, parked>> /\ GuiSame
      /\ src' \in OpenOutcomes(task)
  BY FinishOpenFacts, StateTypes DEF guiVars, GuiSame
<1>2. \/ IsStale(task) /\ UNCHANGED <<events, inbox>>
      \/ /\ ~IsStale(task)
         /\ \/ inbox' = inbox
            \/ inbox' = Append(inbox, NewCall("slice", task.view, 0, "csv"))
         /\ \E done \in Event :
              /\ done.sig = "openCompleted" /\ done.view = task.view /\ done.gen = task.gen
              /\ done.canSort = CanSort(src')
              /\ \/ events' = Append(events, done)
                 \/ events' = Append(Append(events, done), Progress(task.view, src'))
  BY FinishOpenFacts, StateTypes
<1>3. task \in Call /\ task # NoCall
  BY <1>1, TaskAlone
<1>4. src' \in Source /\ src'.kind = task.kind /\ src'.order = Unsorted
  BY <1>1, <1>3, OpenOutcomesFacts, StateTypes
<1>5. ASSUME IsStale(task), UNCHANGED <<events, inbox>>
      PROVE  OneLive' /\ NumbersInv' /\ LiveFits'
  BY <1>1, <1>4, <1>5, StaleTaskEnds
<1>6. ASSUME ~IsStale(task), inbox' = inbox \/ inbox' = Append(inbox, NewCall("slice", task.view, 0, "csv")),
             NEW done \in Event,
             done.sig = "openCompleted" /\ done.view = task.view /\ done.gen = task.gen
             /\ done.canSort = CanSort(src'),
             \/ events' = Append(events, done)
             \/ events' = Append(Append(events, done), Progress(task.view, src'))
      PROVE  OneLive' /\ NumbersInv' /\ LiveFits'
  <2>1. CallFits(task) /\ ui.paged /\ task.kind = ui.kind
    BY <1>1, <1>6, TaskAlone
  <2>2. SignalFits(done)'
    BY <1>1, <1>4, <1>6, <2>1 DEF SignalFits, CallFits, Opening, CanSort, GuiSame
  <2>3. \A i \in DOMAIN inbox' :
           \/ i \in DOMAIN inbox /\ inbox'[i] = inbox[i]
           \/ inbox'[i].op = "slice" /\ inbox'[i].gen = 0
    <3> DEFINE slice == NewCall("slice", task.view, 0, "csv")
    <3>1. slice \in Call /\ slice.op = "slice" /\ slice.gen = 0
      BY <1>3, NewCallType DEF NewCall, Ops, Kind, Call
    <3> HIDE DEF slice
    <3>2. inbox \in Seq(Call)
      BY StateTypes
    <3>3. CASE inbox' = inbox
      BY <3>3
    <3>4. CASE inbox' = Append(inbox, slice)
      <4>1. \A i \in DOMAIN inbox' : (i \in DOMAIN inbox /\ inbox'[i] = inbox[i]) \/ inbox'[i] = slice
        BY <3>1, <3>2, <3>4, QueueLast
      <4> QED
        BY <3>1, <4>1
    <3> QED
      BY <1>6, <3>3, <3>4 DEF slice
  <2>4. \A i \in DOMAIN events' :
           \/ i \in DOMAIN events /\ events'[i] = events[i]
           \/ i = Len(events) + 1 /\ events'[i] = done
           \/ i # Len(events) + 1 /\ events'[i].sig = "indexProgress" /\ events'[i].gen = 0
    <3> DEFINE progress == Progress(task.view, src')
    <3>1. events \in Seq(Event)
      BY StateTypes
    <3>2. progress \in Event
      BY <1>3, <1>4, ProgressType DEF Call
    <3>3. progress.sig = "indexProgress" /\ progress.gen = 0
      BY EventFields
    <3> HIDE DEF progress
    <3>4. /\ Append(events, done) \in Seq(Event)
          /\ \A i \in DOMAIN Append(events, done) :
                \/ (i \in DOMAIN events /\ Append(events, done)[i] = events[i])
                \/ (i = Len(events) + 1 /\ Append(events, done)[i] = done)
      BY <3>1, EventsAdded
    <3>5. /\ \A i \in DOMAIN Append(Append(events, done), progress) :
                \/ (i \in DOMAIN Append(events, done)
                    /\ Append(Append(events, done), progress)[i] = Append(events, done)[i])
                \/ (i = Len(Append(events, done)) + 1
                    /\ Append(Append(events, done), progress)[i] = progress)
      BY <3>2, <3>4, EventsAdded
    <3>6. Len(Append(events, done)) = Len(events) + 1 /\ Len(events) \in Nat
      BY <3>1
    <3>7. CASE events' = Append(events, done)
      BY <3>4, <3>7
    <3>8. CASE events' = Append(Append(events, done), progress)
      BY <3>3, <3>4, <3>5, <3>6, <3>8
    <3> QED
      BY <1>6, <3>7, <3>8 DEF progress
  <2> HIDE DEF SignalFits, OrderlyInv, LoadsInv
  <2> QED
    BY <1>1, <1>6, <2>2, <2>3, <2>4, LiveTaskEnds
<1>7. OneLive' /\ NumbersInv' /\ LiveFits'
  BY <1>2, <1>5, <1>6
<1>8. ReplacedInv'
  BY <1>1 DEF ReplacedInv
<1>9. FieldsInv'
  BY <1>1 DEF OrderlyInv, ProtocolInv, FieldsInv, GuiSame
<1>10. ui.paged /\ ~ui.sorting => ui.committed = Unsorted
  <2>1. CASE IsStale(task)
    BY <1>3, <2>1 DEF OrderlyInv, ProtocolInv, ReplacedInv, IsLive
  <2>2. CASE ~IsStale(task)
    <3>1. CallFits(task)
      BY <1>1, <2>2, TaskAlone
    <3> QED
      BY <1>1, <3>1 DEF CallFits, Opening, OrderlyInv, ProtocolInv, FieldsInv
  <2> QED
    BY <2>1, <2>2
<1>11. OrderInv'
  BY <1>1, <1>4, <1>10
     DEF OrderlyInv, OrderInv, OrdinalsInv, IdleSourceOrder, ShownInOrder, OnDisplay, GuiSame
<1> QED
  BY <1>7, <1>8, <1>9, <1>11 DEF OrderlyInv, ProtocolInv

\* sort() returns: the ordinal table is in its order.
LEMMA FinishSortOrderly ==
    ASSUME TypeOK, TypeOK', LoadsInv, OrderlyInv, FinishSort, UNCHANGED guiVars
    PROVE  OrderlyInv'
<1>1. /\ task.op = "sort" /\ task' = NoCall
      /\ UNCHANGED <<rows, viewGen, opGen, inbox, parked>> /\ GuiSame
  BY FinishSortFacts, StateTypes DEF guiVars, GuiSame
<1>2. PICK done \in BOOLEAN :
        /\ done => src'.order = task.sort /\ src'.ordinals = Ranked(rows, task.sort)
        /\ ~done => src' = src
        /\ IsStale(task) => events' = events
        /\ ~IsStale(task) => \E e \in Event :
             /\ e.sig = "sortCompleted" /\ e.view = task.view /\ e.gen = task.gen
             /\ e.ok = done /\ (done => e.total = Cardinality(rows))
             /\ events' = Append(events, e)
  BY FinishSortFacts, StateTypes
<1>3. task \in Call /\ task # NoCall /\ task.sort \in Order /\ Cardinality(rows) \in Nat
  BY <1>1, TaskAlone, RowsFinite, StateTypes DEF Call
<1>4. ui.paged => ui.sorting
  <2>1. CASE IsStale(task)
    BY <1>1, <1>3, <2>1 DEF OrderlyInv, ProtocolInv, ReplacedInv, IsLive
  <2>2. CASE ~IsStale(task)
    <3>1. CallFits(task)
      BY <1>1, <2>2, TaskAlone
    <3> QED
      BY <1>1, <3>1 DEF CallFits
  <2> QED
    BY <2>1, <2>2
<1>5. OneLive' /\ NumbersInv' /\ LiveFits'
  <2>1. CASE IsStale(task)
    BY <1>1, <1>2, <2>1, StaleTaskEnds
  <2>2. ASSUME ~IsStale(task), NEW e \in Event,
               e.sig = "sortCompleted" /\ e.view = task.view /\ e.gen = task.gen
               /\ e.ok = done /\ (done => e.total = Cardinality(rows)),
               events' = Append(events, e)
        PROVE  OneLive' /\ NumbersInv' /\ LiveFits'
    <3>1. CallFits(task)
      BY <1>1, <2>2, TaskAlone
    <3>2. SignalFits(e)'
      BY <1>1, <1>2, <1>3, <2>2, <3>1 DEF SignalFits, CallFits, Wanted, GuiSame
    <3>3. \A i \in DOMAIN events' :
             \/ i \in DOMAIN events /\ events'[i] = events[i]
             \/ i = Len(events) + 1 /\ events'[i] = e
      BY <2>2, StateTypes, EventsAdded
    <3>4. \A i \in DOMAIN inbox' : i \in DOMAIN inbox /\ inbox'[i] = inbox[i]
      BY <1>1
    <3> HIDE DEF SignalFits, OrderlyInv, LoadsInv
    <3> QED
      BY <1>1, <2>2, <3>2, <3>3, <3>4, LiveTaskEnds
  <2> QED
    BY <1>2, <2>1, <2>2
<1>6. ReplacedInv'
  BY <1>1 DEF ReplacedInv
<1>7. FieldsInv'
  BY <1>1 DEF OrderlyInv, ProtocolInv, FieldsInv, GuiSame
<1>8. OrdinalsInv'
  <2>1. task.sort # Unsorted => Ordered(task.sort, Ranked(rows, task.sort))
    <3>1. rows \in SUBSET Row /\ IsFiniteSet(rows)
      BY RowsFinite, StateTypes
    <3>2. task.sort # Unsorted => IsStrictOrder(rows, task.sort)
      BY <1>3, <3>1, SortOrder DEF Order
    <3> QED
      BY <3>1, <3>2, RankedOrdered
  <2> QED
    BY <1>2, <2>1 DEF OrderlyInv, OrderInv, OrdinalsInv, Ordered
<1>9. OrderInv'
  BY <1>1, <1>4, <1>8
     DEF OrderlyInv, OrderInv, IdleSourceOrder, ShownInOrder, OnDisplay, GuiSame
<1> QED
  BY <1>5, <1>6, <1>7, <1>9 DEF OrderlyInv, ProtocolInv

\* A page request that is answered: the page fits the fields.
LEMMA AnswerGiven ==
    ASSUME TypeOK, LoadsInv, OrderlyInv, GuiSame, NEW c \in Call, c.op \in PageOps, CallFits(c),
           NEW s \in Source, SameSource(src, s), src'.order = src.order,
           NEW page \in Pages(c, s)
    PROVE  /\ PageReady(c, page) \in Event /\ SignalFits(PageReady(c, page))'
           /\ PageReady(c, page).view = c.view /\ PageReady(c, page).gen = c.gen
<1>1. WorkerTypeOK
  BY StateTypes
<1>2. PageReady(c, page) \in Event
  BY <1>1, PagesType, PageReadyType
<1>3. /\ PageReady(c, page).sig = "pageReady" /\ PageReady(c, page).rows = page.rows
      /\ PageReady(c, page).view = c.view /\ PageReady(c, page).gen = c.gen
  BY EventFields
<1>4. s.order # Unsorted => s.kind # "csv" /\ Ordered(s.order, s.ordinals)
  BY DEF SameSource, LoadsInv, OrderlyInv, OrderInv, OrdinalsInv
<1>5. Ordered(src.order, page.rows)
  BY <1>1, <1>4, PagesInOrder DEF SameSource
<1>6. ui.inFlight /\ ~ui.recovering /\ src.order = Wanted
  BY DEF CallFits
<1>7. Wanted' = Wanted
  BY DEF Wanted, GuiSame
<1>8. Ordered(Wanted', PageReady(c, page).rows)
  BY <1>3, <1>5, <1>6, <1>7
<1>9. SignalFits(PageReady(c, page))'
  <2> DEFINE e == PageReady(c, page)
  <2>1. e.sig = "pageReady" /\ ui'.inFlight /\ ~ui'.recovering /\ src'.order = Wanted'
        /\ Ordered(Wanted', e.rows)
    BY <1>3, <1>6, <1>7, <1>8 DEF GuiSame
  <2> HIDE DEF e
  <2>2. SignalFits(e)'
    BY <2>1 DEF SignalFits
  <2> QED
    BY <2>2 DEF e
<1> QED
  BY <1>2, <1>3, <1>9

\* A page request is dropped, parked or answered.
LEMMA FetchPageOrderly ==
    ASSUME TypeOK, TypeOK', LoadsInv, OrderlyInv, FetchPage, UNCHANGED guiVars
    PROVE  OrderlyInv'
<1>1. /\ inbox # <<>> /\ inbox' = Tail(inbox) /\ task = NoCall /\ task' = NoCall
      /\ Head(inbox).op \in PageOps /\ GuiSame
  BY FetchPageFacts, StateTypes DEF guiVars, GuiSame
<1>2. \/ UNCHANGED <<parked, src, events>>
      \/ ~IsStale(Head(inbox)) /\ parked' = Head(inbox) /\ UNCHANGED <<src, events>>
      \/ /\ ~IsStale(Head(inbox)) /\ parked' = NoCall
         /\ src' = Verified(src)
         /\ \E page \in Pages(Head(inbox), src) :
              events' = Append(events, PageReady(Head(inbox), page))
  BY FetchPageFacts, StateTypes
<1>3. PICK c \in Call : c = Head(inbox) /\ NotAhead(c)
  BY <1>1, InboxTail DEF OrderlyInv, ProtocolInv, NumbersInv
<1>4. /\ Tail(inbox) \in Seq(Call)
      /\ \A i \in DOMAIN Tail(inbox) : i + 1 \in DOMAIN inbox /\ Tail(inbox)[i] = inbox[i + 1]
  BY <1>1, InboxTail
<1>5. /\ events \in Seq(Event) /\ \A i \in DOMAIN events : i + 0 = i /\ i # 0 /\ i # Len(events) + 1
      /\ src \in Source
  <2>1. events \in Seq(Event) /\ src \in Source
    BY StateTypes DEF WorkerTypeOK
  <2> QED
    BY <2>1
<1>6. ~IsLive(NoCall) /\ NotAhead(NoCall)
  BY StateTypes, NoCallType DEF IsLive, Requests, PageOps, NotAhead, NoCall, NewCall
<1>7. SameSource(src, src) /\ SameSource(src, Verified(src))
  BY <1>5, VerifiedSame DEF SameSource
<1>8. ReplacedInv'
  BY <1>1 DEF ReplacedInv
<1>9. FieldsInv'
  BY <1>1 DEF OrderlyInv, ProtocolInv, FieldsInv, GuiSame
<1>10. OrderInv'
  <2>1. src'.order = src.order /\ src'.ordinals = src.ordinals
    BY <1>2, <1>7 DEF SameSource
  <2> QED
    BY <1>1, <2>1 DEF OrderlyInv, OrderInv, OrdinalsInv, IdleSourceOrder, ShownInOrder, OnDisplay,
                      GuiSame
<1>11. ASSUME ~IsStale(c)
       PROVE  /\ \A i \in DOMAIN inbox' : ~IsLive(inbox'[i]) /\ NotAhead(inbox'[i])
              /\ \A i \in DOMAIN events : ~IsLiveSignal(events[i]) /\ NotAhead(events[i])
              /\ CallFits(c)
  <2>1. IsLive(c)
    BY <1>1, <1>3, <1>11 DEF IsLive, Requests
  <2>2. /\ \A i \in DOMAIN Tail(inbox) : ~IsLive(Tail(inbox)[i])
        /\ LiveSignals = {} /\ CallFits(c)
    BY <1>1, <1>3, <2>1, HeadAlone DEF OrderlyInv, ProtocolInv
  <2> QED
    BY <1>1, <1>4, <2>2 DEF OrderlyInv, ProtocolInv, NumbersInv, LiveSignals
<1>12. CASE UNCHANGED <<parked, src, events>>
  <2>1. \A i \in DOMAIN inbox' : i + 1 \in DOMAIN inbox /\ inbox'[i] = inbox[i + 1]
    BY <1>1, <1>4
  <2>2. \A i \in DOMAIN events' : i + 0 \in DOMAIN events /\ events'[i] = events[i + 0]
    BY <1>5, <1>12
  <2> HIDE DEF OrderlyInv
  <2> QED
    BY <1>1, <1>12, <2>1, <2>2, WorkerDrops
<1>13. CASE ~IsStale(c) /\ parked' = c /\ UNCHANGED <<src, events>>
  <2>1. CallFits(parked)'
    BY <1>1, <1>11, <1>13 DEF CallFits, Wanted, Opening, GuiSame
  <2>2. 0 \notin DOMAIN events'
    BY <1>5, <1>13
  <2>3. \A i \in DOMAIN events' : NotAhead(events'[i]) /\ (i = 0 \/ ~IsLiveSignal(events'[i]))
    BY <1>11, <1>13
  <2>4. OneLive' /\ NumbersInv' /\ LiveFits'
    <3> HIDE DEF IsLive, CallFits, SignalFits, NotAhead, IsLiveSignal
    <3> QED
      BY <1>1, <1>3, <1>6, <1>11, <1>13, <2>1, <2>2, <2>3, WorkerHandsOn
  <2> QED
    BY <1>8, <1>9, <1>10, <2>4 DEF OrderlyInv, ProtocolInv
<1>14. ASSUME ~IsStale(c), parked' = NoCall, src' = Verified(src), NEW page \in Pages(c, src),
              events' = Append(events, PageReady(c, page))
       PROVE  OrderlyInv'
  <2>1. src'.order = src.order
    BY <1>7, <1>14 DEF SameSource
  <2>2. /\ PageReady(c, page) \in Event /\ SignalFits(PageReady(c, page))'
        /\ PageReady(c, page).view = c.view /\ PageReady(c, page).gen = c.gen
    BY <1>1, <1>3, <1>5, <1>7, <1>11, <1>14, <2>1, AnswerGiven
  <2>3. PICK e \in Event : e = PageReady(c, page) /\ SignalFits(e)' /\ NotAhead(e)
    BY <1>3, <2>2 DEF NotAhead
  <2>4. PICK n \in Nat : n = Len(events) + 1
    BY <1>5
  <2>5. \A i \in DOMAIN events' : (i \in DOMAIN events /\ events'[i] = events[i]) \/ (i = n /\ events'[i] = e)
    BY <1>5, <1>14, <2>3, <2>4, EventsAdded
  <2>6. \A i \in DOMAIN events' : NotAhead(events'[i]) /\ (i = n \/ ~IsLiveSignal(events'[i]))
    BY <1>11, <1>14, <2>3, <2>5
  <2>7. n \in DOMAIN events' => SignalFits(events[n])'
    <3>1. n \in DOMAIN events' => events'[n] = e
      BY <1>5, <2>4, <2>5
    <3> QED
      BY <2>3, <3>1 DEF SignalFits
  <2>8. OneLive' /\ NumbersInv' /\ LiveFits'
    <3> HIDE DEF IsLive, CallFits, SignalFits, NotAhead, IsLiveSignal
    <3> QED
      BY <1>1, <1>6, <1>11, <1>14, <2>6, <2>7, WorkerHandsOn
  <2> QED
    BY <1>8, <1>9, <1>10, <2>8 DEF OrderlyInv, ProtocolInv
<1> QED
  BY <1>2, <1>3, <1>12, <1>13, <1>14

\* A slice of indexing: the parked request is dropped, kept or answered.
LEMMA IndexSliceOrderly ==
    ASSUME TypeOK, TypeOK', LoadsInv, OrderlyInv, IndexSlice, UNCHANGED guiVars
    PROVE  OrderlyInv'
<1>1. /\ inbox # <<>> /\ task = NoCall /\ task' = NoCall /\ Head(inbox).op = "slice"
      /\ inbox' = Tail(inbox) \/ inbox' = Append(Tail(inbox), Head(inbox))
      /\ GuiSame
  BY IndexSliceFacts, StateTypes DEF guiVars, GuiSame
<1>2. \/ UNCHANGED <<parked, src, events>>
      \/ \E s \in SliceOutcomes(src), sofar \in Seq(Event) :
           /\ s \in Source
           /\ src' = s \/ src' = Verified(s)
           /\ sofar = events \/ sofar = Append(events, Progress(Head(inbox).view, s))
           /\ Progress(Head(inbox).view, s) \in Event
           /\ \/ events' = sofar
                 /\ (parked' = NoCall \/ parked' = parked)
              \/ /\ parked # NoCall /\ ~IsStale(parked) /\ parked' = NoCall
                 /\ \E page \in Pages(parked, s) :
                      events' = Append(sofar, PageReady(parked, page))
  BY IndexSliceFacts, StateTypes
<1>3. Head(inbox) \in Call /\ NotAhead(Head(inbox)) /\ ~IsLive(Head(inbox))
  BY <1>1, InboxTail DEF OrderlyInv, ProtocolInv, NumbersInv, IsLive, Requests, PageOps
<1>4. \A i \in DOMAIN inbox' :
         \/ i + 1 \in DOMAIN inbox /\ inbox'[i] = inbox[i + 1]
         \/ ~IsLive(inbox'[i]) /\ NotAhead(inbox'[i])
  BY <1>1, <1>3, InboxCycled
<1>5. events \in Seq(Event) /\ src \in Source /\ opGen \in Nat /\ parked \in Call
      /\ (parked = NoCall \/ parked.op \in PageOps)
  BY StateTypes DEF WorkerTypeOK
<1>6. ~IsLive(NoCall) /\ NotAhead(NoCall)
  BY StateTypes, NoCallType DEF IsLive, Requests, PageOps, NotAhead, NoCall, NewCall
<1>7. CASE UNCHANGED <<parked, src, events>>
  <2>1. \A i \in DOMAIN events' : i + 0 \in DOMAIN events /\ events'[i] = events[i + 0]
    BY <1>5, <1>7
  <2> HIDE DEF OrderlyInv, IsLive, NotAhead
  <2> QED
    BY <1>1, <1>4, <1>7, <2>1, WorkerDrops
<1>8. ASSUME NEW s \in SliceOutcomes(src), NEW sofar \in Seq(Event), s \in Source,
             src' = s \/ src' = Verified(s),
             sofar = events \/ sofar = Append(events, Progress(Head(inbox).view, s)),
             Progress(Head(inbox).view, s) \in Event,
             \/ events' = sofar /\ (parked' = NoCall \/ parked' = parked)
             \/ /\ parked # NoCall /\ ~IsStale(parked) /\ parked' = NoCall
                /\ \E page \in Pages(parked, s) : events' = Append(sofar, PageReady(parked, page))
      PROVE  OrderlyInv'
  <2>1. SameSource(src, s) /\ src'.order = src.order /\ src'.ordinals = src.ordinals
    <3>1. SameSource(src, s) /\ SameSource(s, Verified(s))
      BY <1>5, <1>8, SliceOutcomesFacts, VerifiedSame, StateTypes
    <3> QED
      BY <1>8, <3>1 DEF SameSource
  <2>2. \A i \in DOMAIN sofar :
           \/ i + 0 \in DOMAIN events /\ sofar[i] = events[i + 0]
           \/ ~IsLiveSignal(sofar[i]) /\ NotAhead(sofar[i])
    <3> DEFINE progress == Progress(Head(inbox).view, s)
    <3>1. progress.sig = "indexProgress" /\ progress.gen = 0 /\ progress \in Event
      BY <1>8, EventFields
    <3> HIDE DEF progress
    <3>2. ~IsLiveSignal(progress) /\ NotAhead(progress)
      BY <1>5, <3>1 DEF IsLiveSignal, NotAhead
    <3>3. \A i \in DOMAIN sofar : (i \in DOMAIN events /\ sofar[i] = events[i]) \/ sofar[i] = progress
      <4>1. CASE sofar = events
        BY <4>1
      <4>2. CASE sofar = Append(events, progress)
        BY <1>5, <3>1, <4>2, EventsAdded
      <4> QED
        BY <1>8, <4>1, <4>2 DEF progress
    <3>4. \A i \in DOMAIN events : i + 0 = i
      BY <1>5
    <3> HIDE DEF IsLiveSignal, NotAhead
    <3> QED
      BY <3>2, <3>3, <3>4
  <2>3. ASSUME events' = sofar, parked' = NoCall \/ parked' = parked
        PROVE  OrderlyInv'
    <3> HIDE DEF OrderlyInv, IsLive, NotAhead, IsLiveSignal
    <3> QED
      BY <1>1, <1>4, <2>1, <2>2, <2>3, WorkerDrops
  <2>4. ASSUME parked # NoCall, ~IsStale(parked), parked' = NoCall, NEW page \in Pages(parked, s),
               events' = Append(sofar, PageReady(parked, page))
        PROVE  OrderlyInv'
    <3>1. PICK c \in Call : c = parked /\ c.op \in PageOps /\ IsLive(c) /\ NotAhead(c)
      BY <1>5, <2>4 DEF IsLive, Requests, OrderlyInv, ProtocolInv, NumbersInv
    <3>2. LiveCalls = {} /\ LiveSignals = {} /\ CallFits(c)
      BY <3>1 DEF OrderlyInv, ProtocolInv, OneLive, LiveFits
    <3>3. /\ PageReady(c, page) \in Event /\ SignalFits(PageReady(c, page))'
          /\ PageReady(c, page).view = c.view /\ PageReady(c, page).gen = c.gen
      BY <1>1, <1>8, <2>1, <2>4, <3>1, <3>2, AnswerGiven
    <3>4. PICK e \in Event : e = PageReady(parked, page) /\ SignalFits(e)' /\ NotAhead(e)
      BY <3>1, <3>3 DEF NotAhead
    <3>5. PICK n \in Nat : n = Len(sofar) + 1 /\ n \notin DOMAIN sofar
      BY <1>8
    <3>6. \A i \in DOMAIN events' : (i \in DOMAIN sofar /\ events'[i] = sofar[i]) \/ (i = n /\ events'[i] = e)
      BY <1>8, <2>4, <3>4, <3>5, EventsAdded
    <3>7. \A i \in DOMAIN sofar : NotAhead(sofar[i]) /\ ~IsLiveSignal(sofar[i])
      BY <2>2, <3>2 DEF OrderlyInv, ProtocolInv, NumbersInv, LiveSignals
    <3>8. \A i \in DOMAIN events' : NotAhead(events'[i]) /\ (i = n \/ ~IsLiveSignal(events'[i]))
      BY <3>4, <3>6, <3>7
    <3>9. n \in DOMAIN events' => SignalFits(events[n])'
      <4>1. n \in DOMAIN events' => events'[n] = e
        BY <3>5, <3>6
      <4> QED
        BY <3>4, <4>1 DEF SignalFits
    <3>10. \A i \in DOMAIN inbox' : ~IsLive(inbox'[i]) /\ NotAhead(inbox'[i])
      BY <1>4, <3>2 DEF OrderlyInv, ProtocolInv, NumbersInv, LiveCalls
    <3>11. OneLive' /\ NumbersInv' /\ LiveFits'
      <4> HIDE DEF IsLive, CallFits, SignalFits, NotAhead, IsLiveSignal
      <4> QED
        BY <1>1, <1>6, <2>4, <3>8, <3>9, <3>10, WorkerHandsOn
    <3>12. ReplacedInv'
      BY <1>1 DEF ReplacedInv
    <3>13. FieldsInv'
      BY <1>1 DEF OrderlyInv, ProtocolInv, FieldsInv, GuiSame
    <3>14. OrderInv'
      BY <1>1, <2>1 DEF OrderlyInv, OrderInv, OrdinalsInv, IdleSourceOrder, ShownInOrder, OnDisplay,
                        GuiSame
    <3> QED
      BY <3>11, <3>12, <3>13, <3>14 DEF OrderlyInv, ProtocolInv
  <2> QED
    BY <1>8, <2>3, <2>4
<1> QED
  BY <1>2, <1>7, <1>8

\* Before the first load nothing is on its way.
LEMMA OrderlyInit == Init => OrderlyInv
<1> SUFFICES ASSUME Init PROVE OrderlyInv
  OBVIOUS
<1>1. /\ rows = Row /\ viewGen = 0 /\ opGen = 0 /\ inbox = <<>> /\ task = NoCall
      /\ src = NoSource /\ parked = NoCall /\ events = <<>>
  BY DEF Init, WorkerInit
<1>2. /\ ui.gen = 0 /\ ~ui.paged /\ ~ui.sorting /\ ~ui.recovering /\ ~ui.inFlight
      /\ ~ui.canSort /\ ui.orderValid /\ ~ui.firstPending
  BY DEF Init, Reset
<1>3. NoSource.order = Unsorted /\ NoCall.op = "shutdown" /\ NoCall.view = 0 /\ NoCall.gen = 0
  BY DEF NoSource, EmptySource, NoCall, NewCall
<1>4. LiveCalls = {} /\ LiveSignals = {} /\ ~IsLive(task) /\ ~IsLive(parked)
  BY <1>1, <1>3 DEF LiveCalls, LiveSignals, IsLive, Requests, PageOps
<1>5. NumbersInv
  BY <1>1, <1>3 DEF NumbersInv, NotAhead
<1>6. ProtocolInv
  BY <1>1, <1>2, <1>4, <1>5 DEF ProtocolInv, OneLive, LiveFits, ReplacedInv, FieldsInv
<1>7. OrderInv
  BY <1>1, <1>2, <1>3 DEF OrderInv, OrdinalsInv, IdleSourceOrder, ShownInOrder, OnDisplay
<1> QED
  BY <1>6, <1>7 DEF OrderlyInv

\* Every step keeps the protocol, and the orders in step.
LEMMA OrderlyNext ==
    TypeOK /\ TypeOK' /\ LoadsInv /\ LoadsInv' /\ OrderlyInv /\ [SharedNext]_vars => OrderlyInv'
<1> SUFFICES ASSUME TypeOK, TypeOK', LoadsInv, LoadsInv', OrderlyInv, [SharedNext]_vars
             PROVE  OrderlyInv'
  OBVIOUS
<1>1. \/ LoadSelectedTable \/ LeaveTable \/ OnOpenFailed \/ ClickSort \/ CancelSort
      \/ TurnPage \/ OnOpened \/ OnReopened \/ OnPageReady \/ OnPageVanished \/ OnPageFailed
      \/ OnSortCompleted \/ Aside \/ WorkerStep
  BY DEF SharedNext, Next, UserNext, SignalNext, TurnPage, Aside
<1>2. CASE WorkerStep
  BY <1>2, BeginTaskOrderly, FinishOpenOrderly, FinishSortOrderly, FetchPageOrderly,
     IndexSliceOrderly, ShutdownOrderly DEF WorkerStep, WorkerNext
<1>3. CASE LoadSelectedTable \/ LeaveTable \/ OnOpenFailed
  BY <1>3, LoadOrderly, LeaveOrderly
<1>4. CASE ClickSort \/ CancelSort \/ TurnPage \/ Aside
  BY <1>4, ClickSortOrderly, CancelSortOrderly, TurnPageOrderly, AsideOrderly
<1>5. CASE OnOpened \/ OnReopened \/ OnPageReady \/ OnPageVanished \/ OnPageFailed \/ OnSortCompleted
  BY <1>5, OnOpenedOrderly, OnReopenedOrderly, OnPageReadyOrderly, OnPageVanishedOrderly,
     OnPageFailedOrderly, OnSortCompletedOrderly
<1> QED
  BY <1>1, <1>2, <1>3, <1>4, <1>5

\* One request at most is live, wherever it is, and the fields, the source and
\* the signal on its way agree on what it is; whoever writes to the table.
THEOREM OrderlyHold == SharedSpec => []OrderlyInv
<1>1. TypeOK /\ TypeOK' /\ LoadsInv /\ LoadsInv' /\ OrderlyInv /\ [SharedNext]_vars => OrderlyInv'
  BY OrderlyNext
<1> QED
  BY <1>1, OrderlyInit, ViewerTypeCorrect, LoadsHold, PTL DEF SharedSpec

\* Whenever no sort is under way the source is in the order the viewer believes
\* it to be in, however often a sort was cancelled, failed or was clicked away.
THEOREM IdleSourceIsOrdered == SharedSpec => []IdleSourceOrder
<1>1. OrderlyInv => IdleSourceOrder
  BY DEF OrderlyInv, OrderInv
<1> QED
  BY <1>1, OrderlyHold, PTL

\* What is on display never repeats a row or goes backwards.
THEOREM RowsStayInOrder == SharedSpec => []ShownInOrder
<1>1. OrderlyInv => ShownInOrder
  BY DEF OrderlyInv, OrderInv
<1> QED
  BY <1>1, OrderlyHold, PTL

-----------------------------------------------------------------------------
(* A count that follows a page that vanished is the last one.              *)

\* What the recount says, part by part.
RowsBelow == ui.paged /\ ui.vanishedAt # NoTotal => Cardinality(rows) <= ui.vanishedAt

SortsBelow ==
    ui.vanishedAt # NoTotal => \A i \in LiveSignals :
        events[i].sig = "sortCompleted" /\ events[i].ok => Corrected(events[i].total)

CountsBelow ==
    /\ Uncounted /\ ui.sortTotal => Corrected(ui.pager.total)
    /\ Uncounted /\ counts = <<>> /\ countEvents = <<>> => Corrected(ui.pager.total)
    /\ Uncounted /\ counts = <<>> /\ countEvents # <<>> =>
           LET e == countEvents[Len(countEvents)]
           IN  e.view = viewGen /\ (e.ok => Corrected(e.total))

\* The parts are the whole.
LEMMA RecountParts == RecountInv <=> RowsBelow /\ SortsBelow /\ CountsBelow
BY DEF RecountInv, RowsBelow, SortsBelow, CountsBelow

\* Fewer rows are still below.
LEMMA RowsStayBelow ==
    ASSUME TypeOK, RowsBelow, ui'.paged = ui.paged, ui'.vanishedAt = ui.vanishedAt,
           rows' = rows \/ DeleteRow
    PROVE  RowsBelow'
<1>1. Cardinality(rows') <= Cardinality(rows) /\ Cardinality(rows') \in Nat
      /\ Cardinality(rows) \in Nat /\ ui.vanishedAt \in Total
  <2>1. IsFiniteSet(rows) /\ Cardinality(rows) \in Nat /\ ui.vanishedAt \in Total
    BY RowsFinite, StateTypes DEF Viewer
  <2>2. CASE rows' = rows
    BY <2>1, <2>2
  <2>3. CASE DeleteRow
    <3>1. PICK r \in rows : rows' = rows \ {r}
      BY <2>3 DEF DeleteRow
    <3>2. Cardinality(rows') = Cardinality(rows) - 1 /\ IsFiniteSet(rows')
      BY <2>1, <3>1, FS_RemoveElement
    <3>3. Cardinality(rows') \in Nat
      BY <3>2, FS_CardinalityType
    <3> QED
      BY <2>1, <3>2, <3>3
  <2> QED
    BY <2>2, <2>3
<1> QED
  BY <1>1 DEF RowsBelow, Total, NoTotal

\* Nothing new about sorts.
LEMMA SortsStayBelow ==
    ASSUME SortsBelow, ui'.vanishedAt = ui.vanishedAt,
           \A i \in LiveSignals' : \E j \in LiveSignals : events'[i] = events[j]
    PROVE  SortsBelow'
BY DEF SortsBelow, Corrected

\* Nothing new about counts and totals.
LEMMA CountsStayBelow ==
    ASSUME CountsBelow, SameLoad, UNCHANGED <<viewGen, countEvents>>,
           ui'.vanishedAt = ui.vanishedAt, ui'.sortTotal = ui.sortTotal,
           ui'.countFailed = ui.countFailed, ui'.pager.total = ui.pager.total,
           counts' = counts \/ counts' # <<>>
    PROVE  CountsBelow'
BY DEF CountsBelow, Corrected, Uncounted, HasCountWorker, SameLoad

\* A step that asks for something else, or reads an answer, and keeps totals.
LEMMA RecountQuiet ==
    ASSUME TypeOK, RecountInv, SameLoad, SameCounts, NoneLive,
           UNCHANGED <<rows, viewGen, countEvents>>,
           ui'.pager.total = ui.pager.total, counts' = counts \/ counts' # <<>>
    PROVE  RecountInv'
<1>1. RowsBelow'
  BY RecountParts, RowsStayBelow DEF SameLoad, SameCounts
<1>2. SortsBelow'
  BY DEF NoneLive, SortsBelow
<1>3. CountsBelow'
  BY RecountParts, CountsStayBelow DEF SameCounts
<1>4. RecountInv' <=> RowsBelow' /\ SortsBelow' /\ CountsBelow'
  BY DEF RecountInv, RowsBelow, SortsBelow, CountsBelow
<1> QED
  BY <1>1, <1>2, <1>3, <1>4

\* The user's requests.
LEMMA RecountRequests ==
    ASSUME TypeOK, LoadsInv, OrderlyInv, RecountInv, ClickSort \/ CancelSort \/ TurnPage
    PROVE  RecountInv'
<1>1. /\ UNCHANGED <<rows, viewGen, events, counts, countEvents>> /\ opGen' = opGen + 1
      /\ SameLoad /\ SameCounts /\ ui'.pager = ui.pager
  <2>1. CASE ClickSort
    <3>1. \E order \in SortState :
             ui' = [ui EXCEPT !.pending = order, !.sorting = TRUE, !.busy = TRUE,
                              !.status = SetSorting(ui.status, TRUE)]
      BY <2>1, ClickSortFacts
    <3>2. SameCounts /\ ui'.pager = ui.pager
      BY <3>1, StateTypes DEF SameCounts, Viewer
    <3> QED
      BY <2>1, <3>2, ClickSortFacts
  <2>2. CASE CancelSort
    BY <2>2, CancelSortFacts DEF GoesBack
  <2>3. CASE TurnPage
    <3>1. \E page \in Nat, fromPrev \in BOOLEAN :
             ui' = [ui EXCEPT !.inFlight = TRUE, !.busy = TRUE,
                              !.pendingPage = page, !.pendingFromPrev = fromPrev]
      BY <2>3, TurnPageFacts
    <3>2. SameCounts /\ ui'.pager = ui.pager
      BY <3>1, StateTypes DEF SameCounts, Viewer
    <3> QED
      BY <2>3, <3>2, TurnPageFacts
  <2> QED
    BY <2>1, <2>2, <2>3
<1>2. NoneLive
  BY <1>1, QuietReplaced DEF OrderlyInv, ProtocolInv, EventsRead
<1> QED
  BY <1>1, <1>2, RecountQuiet

\* The answers that bring no total.
LEMMA RecountAnswers ==
    ASSUME TypeOK, LoadsInv, OrderlyInv, RecountInv, OnOpened \/ OnReopened \/ OnPageReady
    PROVE  RecountInv'
<1>1. /\ \E sig : sig # "indexProgress" /\ Receive(sig)
      /\ SameLoad /\ SameCounts /\ ui'.pager.total = ui.pager.total
      /\ UNCHANGED <<viewGen, opGen>>
      /\ counts' = counts \/ counts' = Append(counts, viewGen)
  <2>1. CASE OnOpened
    BY <2>1, OnOpenedFacts
  <2>2. CASE OnReopened
    BY <2>2, OnReopenedFacts DEF Recovered
  <2>3. CASE OnPageReady
    <3>1. Arrived(Head(events)).pager.total = ui.pager.total
      <4>1. events # <<>>
        BY <2>3, OnPageReadyFacts DEF Receive
      <4>2. Head(events) \in Event /\ ui \in Viewer /\ ui.pager \in Pager
        BY <4>1, HeadType, StateTypes
      <4>3. PICK more : Arrived(Head(events)).pager = [ui.pager EXCEPT !.page = ui.pendingPage,
                                    !.fromPrev = ui.pendingFromPrev, !.hasMore = more]
        BY <4>2, ArrivedFields
      <4> QED
        BY <4>2, <4>3 DEF Pager
    <3> QED
      BY <2>3, <3>1, OnPageReadyFacts
  <2> QED
    BY <2>1, <2>2, <2>3
<1>2. UNCHANGED <<rows, countEvents>>
  BY <1>1 DEF Receive
<1>3. NoneLive
  BY <1>1, QuietAnswered DEF OrderlyInv, ProtocolInv
<1>4. counts' = counts \/ counts' # <<>>
  <2>1. counts \in Seq(Nat) /\ viewGen \in Nat
    BY StateTypes
  <2> QED
    BY <1>1, <2>1
<1> QED
  BY <1>1, <1>2, <1>3, <1>4, RecountQuiet

\* A page that vanished: a count is asked for, and no total is trusted until then.
LEMMA RecountVanished ==
    ASSUME TypeOK, LoadsInv, OrderlyInv, RecountInv, OnPageVanished
    PROVE  RecountInv'
<1>1. /\ Receive("pageReady") /\ SameLoad
      /\ ui'.vanishedAt = Cardinality(rows) /\ ui'.countFailed = ui.countFailed
      /\ \/ /\ HasCountWorker(ui) /\ ~ui.countFailed
            /\ counts' = Append(counts, viewGen) /\ ~ui'.sortTotal
         \/ ~HasCountWorker(ui) \/ ui.countFailed
      /\ UNCHANGED <<viewGen, opGen>>
  BY OnPageVanishedFacts
<1>2. NoneLive /\ rows' = rows
  BY <1>1, QuietAnswered DEF OrderlyInv, ProtocolInv, Receive
<1>3. RowsBelow'
  <2>1. Cardinality(rows) \in Nat
    BY RowsFinite, StateTypes
  <2> QED
    BY <1>1, <1>2, <2>1 DEF RowsBelow
<1>4. SortsBelow'
  BY <1>2 DEF NoneLive, SortsBelow
<1>5. CASE HasCountWorker(ui) /\ ~ui.countFailed /\ counts' = Append(counts, viewGen) /\ ~ui'.sortTotal
  <2>1. counts' # <<>>
    <3>1. counts \in Seq(Nat) /\ viewGen \in Nat
      BY StateTypes
    <3> QED
      BY <1>5, <3>1
  <2>2. CountsBelow'
    BY <1>5, <2>1 DEF CountsBelow
  <2> QED
    BY <1>3, <1>4, <2>2 DEF RecountInv, RowsBelow, SortsBelow, CountsBelow
<1>6. CASE ~HasCountWorker(ui) \/ ui.countFailed
  <2>1. ~Uncounted'
    BY <1>1, <1>6 DEF Uncounted, HasCountWorker, SameLoad
  <2>2. CountsBelow'
    BY <2>1 DEF CountsBelow
  <2> QED
    BY <1>3, <1>4, <2>2 DEF RecountInv, RowsBelow, SortsBelow, CountsBelow
<1> QED
  BY <1>1, <1>5, <1>6

\* A page that failed sends a sort back.
LEMMA RecountFailed ==
    ASSUME TypeOK, LoadsInv, OrderlyInv, RecountInv, OnPageFailed
    PROVE  RecountInv'
<1>1. /\ Receive("pageReady") /\ SameLoad /\ SameCounts /\ ui'.pager = ui.pager
      /\ UNCHANGED <<viewGen, counts>> /\ (opGen' = opGen + 1 \/ opGen' = opGen)
  BY OnPageFailedFacts DEF GoesBack
<1>2. NoneLive
  <2>1. EventsRead
    BY <1>1 DEF Receive, EventsRead
  <2> QED
    BY <1>1, <2>1, QuietAnswered, QuietReplaced DEF OrderlyInv, ProtocolInv
<1>3. UNCHANGED <<rows, countEvents>>
  BY <1>1 DEF Receive
<1> QED
  BY <1>1, <1>2, <1>3, RecountQuiet

\* A sort's own total is taken over.
LEMMA RecountSorted ==
    ASSUME TypeOK, LoadsInv, OrderlyInv, RecountInv, OnSortCompleted
    PROVE  RecountInv'
<1>1. /\ Receive("sortCompleted") /\ SameLoad /\ UNCHANGED <<viewGen, counts>>
      /\ opGen' = opGen + 1 \/ opGen' = opGen
      /\ \/ SameCounts /\ ui'.pager = ui.pager
         \/ /\ Head(events).ok /\ ui'.pager = [ui.pager EXCEPT !.total = Head(events).total]
            /\ ui'.vanishedAt = ui.vanishedAt /\ ui'.countFailed = ui.countFailed
            /\ opGen' = opGen
  BY OnSortCompletedFacts DEF Recovered, GoesBack
<1>2. /\ EventsRead /\ UNCHANGED <<rows, countEvents>> /\ Head(events).sig = "sortCompleted"
  BY <1>1 DEF Receive, EventsRead
<1>3. NoneLive
  BY <1>1, <1>2, QuietAnswered, QuietReplaced DEF OrderlyInv, ProtocolInv
<1>4. CASE SameCounts /\ ui'.pager = ui.pager
  BY <1>1, <1>2, <1>3, <1>4, RecountQuiet
<1>5. CASE /\ Head(events).ok /\ ui'.pager = [ui.pager EXCEPT !.total = Head(events).total]
           /\ ui'.vanishedAt = ui.vanishedAt /\ ui'.countFailed = ui.countFailed
           /\ opGen' = opGen
  <2>1. ui'.pager.total = Head(events).total
    BY <1>5, StateTypes DEF Pager
  <2>2. ui.vanishedAt # NoTotal => Corrected(Head(events).total)
    <3>1. 1 \in LiveSignals /\ events[1] = Head(events)
      BY <1>1, <1>5, QuietAnswered DEF OrderlyInv, ProtocolInv
    <3> QED
      BY <1>2, <1>5, <3>1 DEF RecountInv
  <2>3. RowsBelow'
    BY <1>1, <1>2, <1>5, RecountParts, RowsStayBelow DEF SameLoad
  <2>4. SortsBelow'
    BY <1>3 DEF NoneLive, SortsBelow
  <2>5. Uncounted' = Uncounted
    BY <1>1, <1>5 DEF Uncounted, HasCountWorker, SameLoad
  <2>6. Uncounted => ui.vanishedAt # NoTotal
    BY DEF Uncounted
  <2>7. \A total : Corrected(total)' <=> Corrected(total)
    BY <1>5 DEF Corrected
  <2>8. Uncounted' => Corrected(ui.pager.total)'
    BY <1>5, <2>1, <2>2, <2>5, <2>6 DEF Corrected
  <2>9. CountsBelow'
    BY <1>1, <1>2, <2>5, <2>7, <2>8, RecountParts DEF CountsBelow
  <2> QED
    BY <2>3, <2>4, <2>9 DEF RecountInv, RowsBelow, SortsBelow, CountsBelow
<1> QED
  BY <1>1, <1>4, <1>5

\* Another table, or none.
LEMMA RecountLeave ==
    ASSUME TypeOK, LoadSelectedTable \/ LeaveTable \/ OnOpenFailed
    PROVE  RecountInv'
<1>1. ui'.vanishedAt = NoTotal
  BY LeaveFacts, LoadFacts DEF WasReset
<1> QED
  BY <1>1 DEF RecountInv, Uncounted

\* Signals that are read, dropped or left where they are, and none new.
LEMMA SortsBelowAside ==
    ASSUME TypeOK, SortsBelow, EventsRead, UNCHANGED <<viewGen, opGen>>,
           ui'.vanishedAt = ui.vanishedAt
    PROVE  SortsBelow'
<1>1. \A i \in DOMAIN events' : \E j \in DOMAIN events : events'[i] = events[j]
  BY ReadFromFront
<1>2. \A i \in LiveSignals' : \E j \in LiveSignals : events'[i] = events[j]
  BY <1>1 DEF LiveSignals, IsLiveSignal
<1> QED
  BY <1>2, SortsStayBelow

\* The last of the counts is started: it sees the rows that are left.
LEMMA RecountCounts ==
    ASSUME TypeOK, LoadsInv, RecountInv, Count
    PROVE  CountsBelow'
<1> DEFINE Counting == [view : Nat, ok : BOOLEAN, total : Nat]
<1>1. /\ counts # <<>> /\ counts' = Tail(counts) /\ UNCHANGED <<workerVars, ui, shown>>
      /\ \/ Head(counts) # viewGen /\ countEvents' = countEvents
         \/ \E ok \in BOOLEAN : countEvents' = Append(countEvents, CountResult(ok))
  BY DEF Count
<1>2. counts \in Seq(Nat) /\ countEvents \in Seq(Counting) /\ viewGen' = viewGen /\ ui' = ui
      /\ rows' = rows
  BY <1>1, StateTypes DEF workerVars
<1>3. 1 \in DOMAIN counts /\ Head(counts) = counts[1]
  BY <1>1, <1>2, QueueTail
<1>4. ui.paged => Head(counts) = viewGen
  BY <1>3 DEF LoadsInv, Here
<1>5. Uncounted' = Uncounted /\ (Uncounted => ui.paged)
  BY <1>2 DEF Uncounted, HasCountWorker
<1>6. \A total : Corrected(total)' <=> Corrected(total)
  BY <1>2 DEF Corrected
<1>7. ASSUME Uncounted, NEW ok \in BOOLEAN, countEvents' = Append(countEvents, CountResult(ok))
      PROVE  /\ countEvents' # <<>>
             /\ countEvents'[Len(countEvents')] = CountResult(ok)
  <2>1. CountResult(ok) \in Counting
    BY StateTypes, RowsFinite DEF CountResult
  <2> HIDE DEF Counting
  <2> QED
    BY <1>2, <1>7, <2>1
<1>8. \A ok \in BOOLEAN : /\ CountResult(ok).view = viewGen /\ CountResult(ok).ok = ok
                          /\ ok => CountResult(ok).total = Cardinality(rows)
  BY DEF CountResult
<1>9. Uncounted => Corrected(Cardinality(rows))
  <2>1. Cardinality(rows) \in Nat
    BY RowsFinite, StateTypes
  <2> QED
    BY <2>1, <1>5 DEF RecountInv, Uncounted, Corrected, NoTotal
<1>10. Uncounted /\ ui.sortTotal => Corrected(ui.pager.total)
  BY DEF RecountInv
<1>11. Uncounted => /\ countEvents' # <<>>
                    /\ countEvents'[Len(countEvents')].view = viewGen
                    /\ countEvents'[Len(countEvents')].ok
                          => Corrected(countEvents'[Len(countEvents')].total)
  <2>1. ASSUME Uncounted
        PROVE  /\ countEvents' # <<>>
               /\ countEvents'[Len(countEvents')].view = viewGen
               /\ countEvents'[Len(countEvents')].ok
                          => Corrected(countEvents'[Len(countEvents')].total)
    <3>1. PICK ok \in BOOLEAN : countEvents' = Append(countEvents, CountResult(ok))
      BY <1>1, <1>4, <1>5, <2>1
    <3> QED
      BY <1>7, <1>8, <1>9, <2>1, <3>1
  <2> QED
    BY <2>1
<1>12. Uncounted' /\ ui'.sortTotal => Corrected(ui.pager.total)'
  BY <1>2, <1>5, <1>10 DEF Corrected
<1>13. Uncounted' => /\ countEvents' # <<>>
                     /\ countEvents'[Len(countEvents')].view = viewGen'
                     /\ countEvents'[Len(countEvents')].ok
                          => Corrected(countEvents[Len(countEvents)].total)'
  BY <1>2, <1>5, <1>11 DEF Corrected
<1> QED
  BY <1>12, <1>13 DEF CountsBelow

\* The last element of a queue once the first one is taken.
LEMMA LastOfTail ==
    ASSUME NEW S, NEW q \in Seq(S), q # <<>>
    PROVE  /\ Tail(q) # <<>> => Tail(q)[Len(Tail(q))] = q[Len(q)]
           /\ Tail(q) = <<>> => Head(q) = q[Len(q)]
<1>1. Len(q) \in Nat /\ Len(q) # 0 /\ Head(q) = q[1]
  OBVIOUS
<1>2. Tail(q) \in Seq(S) /\ Len(Tail(q)) = Len(q) - 1
      /\ \A i \in 1..(Len(q) - 1) : Tail(q)[i] = q[i + 1]
  OBVIOUS
<1>3. Tail(q) # <<>> => Len(Tail(q)) # 0
  BY <1>2
<1>4. Tail(q) = <<>> => Len(Tail(q)) = 0
  BY <1>2, EmptySeq
<1>5. ASSUME Tail(q) # <<>>
      PROVE  Tail(q)[Len(Tail(q))] = q[Len(q)]
  <2>1. Len(q) - 1 \in 1..(Len(q) - 1) /\ (Len(q) - 1) + 1 = Len(q)
    BY <1>1, <1>2, <1>3, <1>5
  <2>2. Tail(q)[Len(q) - 1] = q[(Len(q) - 1) + 1]
    BY <1>2, <2>1
  <2> QED
    BY <1>2, <2>1, <2>2
<1>6. ASSUME Tail(q) = <<>>
      PROVE  Head(q) = q[Len(q)]
  <2>1. Len(q) = 1
    BY <1>1, <1>2, <1>4, <1>6
  <2> QED
    BY <1>1, <2>1
<1> QED
  BY <1>5, <1>6

\* A count is read: unless a sort's total outranks it, it is the total.
LEMMA RecountCounted ==
    ASSUME TypeOK, LoadsInv, RecountInv, OnCountCompleted
    PROVE  CountsBelow'
<1> DEFINE Counting == [view : Nat, ok : BOOLEAN, total : Nat]
           e == Head(countEvents)
<1>1. /\ countEvents # <<>> /\ countEvents' = Tail(countEvents) /\ counts' = counts
      /\ UNCHANGED workerVars
      /\ \/ ui' = ui /\ (e.view # ui.gen \/ ~ui.paged \/ ui.sortTotal)
         \/ ui' = [ui EXCEPT !.countFailed = TRUE, !.status = SetWarning(ui.status, "count")]
         \/ ui' = Counted(ui, e.total) /\ ~ui.sortTotal /\ e.ok
  BY DEF OnCountCompleted
<1>2. countEvents \in Seq(Counting) /\ viewGen' = viewGen /\ rows' = rows /\ viewGen = ui.gen
  BY <1>1, StateTypes DEF workerVars, LoadsInv
<1>3. /\ Tail(countEvents) # <<>> =>
            Tail(countEvents)[Len(Tail(countEvents))] = countEvents[Len(countEvents)]
      /\ Tail(countEvents) = <<>> => e = countEvents[Len(countEvents)]
  BY <1>1, <1>2, LastOfTail
<1>4. CountsBelow
  BY RecountParts
<1> HIDE DEF Counting, e
<1>5. CASE ui' = [ui EXCEPT !.countFailed = TRUE, !.status = SetWarning(ui.status, "count")]
  <2>1. ui'.countFailed
    BY <1>5, StateTypes DEF Viewer
  <2> QED
    BY <2>1 DEF CountsBelow, Uncounted
<1>6. ASSUME ui'.vanishedAt = ui.vanishedAt, Uncounted' = Uncounted,
             Uncounted' /\ ui'.sortTotal => Corrected(ui'.pager.total),
             Uncounted /\ counts = <<>> /\ Tail(countEvents) = <<>> => Corrected(ui'.pager.total)
      PROVE  CountsBelow'
  <2>1. \A total : Corrected(total)' <=> Corrected(total)
    BY <1>6 DEF Corrected
  <2>2. Uncounted' /\ ui'.sortTotal => Corrected(ui.pager.total)'
    BY <1>6 DEF Corrected
  <2>3. Uncounted' /\ counts' = <<>> /\ countEvents' = <<>> => Corrected(ui.pager.total)'
    BY <1>1, <1>6 DEF Corrected
  <2>4. Uncounted' /\ counts' = <<>> /\ countEvents' # <<>> =>
           /\ countEvents'[Len(countEvents')].view = viewGen'
           /\ countEvents'[Len(countEvents')].ok => Corrected(countEvents[Len(countEvents)].total)'
    BY <1>1, <1>2, <1>3, <1>4, <1>6 DEF CountsBelow, Corrected
  <2> QED
    BY <2>2, <2>3, <2>4 DEF CountsBelow
<1>7. CASE ui' = ui /\ (e.view # ui.gen \/ ~ui.paged \/ ui.sortTotal)
  <2>1. Uncounted' = Uncounted /\ ui'.vanishedAt = ui.vanishedAt
    BY <1>7 DEF Uncounted, HasCountWorker
  <2>2. Uncounted' /\ ui'.sortTotal => Corrected(ui'.pager.total)
    BY <1>4, <1>7, <2>1 DEF CountsBelow
  <2>3. Uncounted /\ counts = <<>> /\ Tail(countEvents) = <<>> => Corrected(ui'.pager.total)
    BY <1>1, <1>2, <1>3, <1>4, <1>7, <2>1 DEF CountsBelow, Uncounted
  <2> QED
    BY <1>6, <2>1, <2>2, <2>3
<1>8. CASE ui' = Counted(ui, e.total) /\ ~ui.sortTotal /\ e.ok
  <2>1. /\ ui'.pager.total = e.total /\ ui'.vanishedAt = ui.vanishedAt
        /\ ui'.sortTotal = ui.sortTotal /\ ui'.countFailed = ui.countFailed
        /\ ui'.paged = ui.paged /\ ui'.kind = ui.kind /\ ui'.worker = ui.worker
    BY <1>8, StateTypes DEF Counted, Viewer, Pager
  <2>2. Uncounted' = Uncounted
    BY <2>1 DEF Uncounted, HasCountWorker
  <2>3. ~ui'.sortTotal
    BY <1>8, <2>1
  <2>4. Uncounted /\ counts = <<>> /\ Tail(countEvents) = <<>> => Corrected(ui'.pager.total)
    BY <1>1, <1>3, <1>4, <1>8, <2>1 DEF CountsBelow
  <2> QED
    BY <1>6, <2>1, <2>2, <2>3, <2>4
<1> QED
  BY <1>1, <1>5, <1>7, <1>8

\* News about totals, the status bar, and others writing to the table.
LEMMA RecountAside ==
    ASSUME TypeOK, LoadsInv, RecountInv, Aside
    PROVE  RecountInv'
<1>1. SameUi /\ UNCHANGED <<viewGen, opGen>>
  BY AsideFacts
<1>2. EventsRead
  BY DEF Aside, ClickUnsortable, SelectCell, IgnoreStaleSignal, OnIndexProgress, Receive,
         Count, OnCountCompleted, DeleteRow, vars, workerVars, EventsRead
<1>3. SameLoad /\ ui'.vanishedAt = ui.vanishedAt /\ ui'.sortTotal = ui.sortTotal
  BY <1>1 DEF SameUi
<1>4. SortsBelow'
  BY <1>1, <1>2, <1>3, RecountParts, SortsBelowAside
<1>5. RowsBelow'
  <2>1. rows' = rows \/ DeleteRow
    BY DEF Aside, ClickUnsortable, SelectCell, IgnoreStaleSignal, OnIndexProgress, Receive,
           Count, OnCountCompleted, vars, workerVars
  <2> QED
    BY <1>3, <2>1, RecountParts, RowsStayBelow DEF SameLoad
<1>6. CountsBelow'
  <2>1. CASE Count
    BY <2>1, RecountCounts
  <2>2. CASE OnCountCompleted
    BY <2>2, RecountCounted
  <2>3. CASE OnIndexProgress
    <3>1. ui.kind = "csv"
      BY <2>3 DEF OnIndexProgress, Receive, IsCurrent
    <3>2. ~Uncounted'
      BY <1>3, <3>1 DEF Uncounted, HasCountWorker, SameLoad
    <3> QED
      BY <3>2 DEF CountsBelow
  <2>4. CASE ClickUnsortable \/ SelectCell \/ IgnoreStaleSignal \/ (DeleteRow /\ UNCHANGED guiVars)
             \/ UNCHANGED vars
    <3>1. \/ ui' = ui
          \/ \E status : ui' = [ui EXCEPT !.status = status]
      BY <2>4 DEF ClickUnsortable, SelectCell, IgnoreStaleSignal, guiVars, vars
    <3>2. ui'.countFailed = ui.countFailed /\ ui'.pager.total = ui.pager.total
      BY <3>1, StateTypes DEF Viewer
    <3>3. UNCHANGED <<counts, countEvents>>
      BY <2>4 DEF ClickUnsortable, SelectCell, IgnoreStaleSignal, guiVars, vars
    <3> QED
      BY <1>1, <1>3, <3>2, <3>3, RecountParts, CountsStayBelow
  <2> QED
    BY <2>1, <2>2, <2>3, <2>4 DEF Aside
<1> QED
  BY <1>4, <1>5, <1>6 DEF RecountInv, RowsBelow, SortsBelow, CountsBelow

\* The worker: a sort that succeeds counts the rows that are left.
LEMMA RecountWorker ==
    ASSUME TypeOK, TypeOK', LoadsInv, OrderlyInv, RecountInv, WorkerStep
    PROVE  RecountInv'
<1>1. UNCHANGED <<ui, shown, counts, countEvents>> /\ WorkerTypeOK /\ events \in Seq(Event)
  BY StateTypes DEF WorkerStep, guiVars
<1>2. UNCHANGED <<rows, viewGen, opGen>>
  BY DEF WorkerStep, WorkerNext, BeginTask, FinishOpen, FinishSort, FetchPage, IndexSlice, Shutdown,
         TakeCall
<1>3. RowsBelow'
  BY <1>1, <1>2, RecountParts, RowsStayBelow
<1>4. CountsBelow'
  BY <1>1, <1>2, RecountParts, CountsStayBelow DEF SameLoad
<1>5. SUFFICES SortsBelow'
  BY <1>3, <1>4 DEF RecountInv, RowsBelow, SortsBelow, CountsBelow
<1>6. ASSUME \A i \in DOMAIN events' :
                (\E j \in DOMAIN events : events'[i] = events[j])
                \/ (events'[i].sig = "sortCompleted" /\ events'[i].ok
                        => ui.paged /\ events'[i].total = Cardinality(rows))
      PROVE  SortsBelow'
  <2>1. RowsBelow /\ SortsBelow
    BY RecountParts
  <2>2. Cardinality(rows) \in Nat
    BY <1>1, RowsFinite
  <2>3. \A i \in LiveSignals' :
           (\E j \in LiveSignals : events'[i] = events[j])
           \/ (events'[i].sig = "sortCompleted" /\ events'[i].ok
                  => ui.paged /\ events'[i].total = Cardinality(rows))
    BY <1>2, <1>6 DEF LiveSignals, IsLiveSignal
  <2> QED
    BY <1>1, <2>1, <2>2, <2>3 DEF SortsBelow, RowsBelow, Corrected, NoTotal
<1>7. CASE BeginTask \/ Shutdown
  BY <1>1, <1>6, <1>7, BeginTaskFacts, ShutdownFacts
<1>8. CASE FinishOpen
  <2>1. \/ events' = events
        \/ \E done \in Event :
             /\ done.sig = "openCompleted"
             /\ \/ events' = Append(events, done)
                \/ events' = Append(Append(events, done), Progress(task.view, src'))
    BY <1>1, <1>8, FinishOpenFacts
  <2>2. Progress(task.view, src') \in Event /\ Progress(task.view, src').sig = "indexProgress"
    <3>1. task \in Call /\ src' \in Source
      BY <1>1 DEF WorkerTypeOK, TypeOK
    <3>2. task.view \in Nat
      BY <3>1 DEF Call
    <3>3. Progress(task.view, src') \in Event
      BY <3>1, <3>2, ProgressType
    <3>4. Progress(task.view, src').sig = "indexProgress"
      BY EventFields
    <3> QED
      BY <3>3, <3>4
  <2>3. ASSUME NEW done \in Event, done.sig = "openCompleted",
               \/ events' = Append(events, done)
               \/ events' = Append(Append(events, done), Progress(task.view, src'))
        PROVE  \A i \in DOMAIN events' :
                  (\E j \in DOMAIN events : events'[i] = events[j])
                  \/ events'[i].sig # "sortCompleted"
    <3>1. /\ Append(events, done) \in Seq(Event)
          /\ \A i \in DOMAIN Append(events, done) :
                (i \in DOMAIN events /\ Append(events, done)[i] = events[i])
                \/ Append(events, done)[i] = done
      BY <1>1, EventsAdded
    <3>2. \A i \in DOMAIN Append(Append(events, done), Progress(task.view, src')) :
             (i \in DOMAIN Append(events, done)
              /\ Append(Append(events, done), Progress(task.view, src'))[i] = Append(events, done)[i])
             \/ Append(Append(events, done), Progress(task.view, src'))[i] = Progress(task.view, src')
      BY <2>2, <3>1, EventsAdded
    <3> QED
      BY <2>2, <2>3, <3>1, <3>2
  <2> QED
    BY <1>6, <2>1, <2>3
<1>9. CASE FinishSort
  <2>1. /\ task.op = "sort"
        /\ \/ events' = events
           \/ /\ ~IsStale(task)
              /\ \E e \in Event : /\ e.ok => e.total = Cardinality(rows)
                                  /\ events' = Append(events, e)
    BY <1>1, <1>9, FinishSortFacts
  <2>2. ~IsStale(task) => ui.paged
    BY <2>1, TaskAlone
  <2>3. ASSUME NEW e \in Event, e.ok => e.total = Cardinality(rows), events' = Append(events, e),
               ui.paged
        PROVE  SortsBelow'
    BY <1>1, <1>6, <2>3, EventsAdded
  <2> QED
    BY <1>6, <2>1, <2>2, <2>3
<1>10. CASE FetchPage
  <2>1. \/ events' = events
        \/ /\ inbox # <<>> /\ Head(inbox).op \in PageOps
           /\ \E page \in Pages(Head(inbox), src) :
                 events' = Append(events, PageReady(Head(inbox), page))
    BY <1>1, <1>10, FetchPageFacts
  <2>2. ASSUME inbox # <<>>, Head(inbox).op \in PageOps, NEW page \in Pages(Head(inbox), src),
               events' = Append(events, PageReady(Head(inbox), page))
        PROVE  SortsBelow'
    <3>1. PageReady(Head(inbox), page) \in Event /\ PageReady(Head(inbox), page).sig = "pageReady"
      <4>1. Head(inbox) \in Call /\ src \in Source
        BY <1>1, <2>2, InboxTail DEF WorkerTypeOK
      <4> QED
        BY <1>1, <2>2, <4>1, PagesType, PageReadyType, EventFields
    <3> QED
      BY <1>1, <1>6, <2>2, <3>1, EventsAdded
  <2> QED
    BY <1>6, <2>1, <2>2
<1>11. CASE IndexSlice
  <2>1. \/ events' = events
        \/ \E s \in Source, sofar \in Seq(Event) :
             /\ sofar = events \/ sofar = Append(events, Progress(Head(inbox).view, s))
             /\ Progress(Head(inbox).view, s) \in Event
             /\ \/ events' = sofar
                \/ /\ parked # NoCall
                   /\ \E page \in Pages(parked, s) : events' = Append(sofar, PageReady(parked, page))
    BY <1>1, <1>11, IndexSliceFacts
  <2>2. parked \in Call /\ (parked # NoCall => parked.op \in PageOps)
    BY <1>1 DEF WorkerTypeOK
  <2>3. ASSUME NEW s \in Source, NEW sofar \in Seq(Event),
               sofar = events \/ sofar = Append(events, Progress(Head(inbox).view, s)),
               Progress(Head(inbox).view, s) \in Event
        PROVE  \A i \in DOMAIN sofar :
                  (\E j \in DOMAIN events : sofar[i] = events[j]) \/ sofar[i].sig # "sortCompleted"
    <3> DEFINE progress == Progress(Head(inbox).view, s)
    <3>1. progress.sig = "indexProgress" /\ progress \in Event
      BY <2>3, EventFields
    <3> HIDE DEF progress
    <3>2. CASE sofar = events
      BY <3>2
    <3>3. CASE sofar = Append(events, progress)
      BY <1>1, <3>1, <3>3, EventsAdded
    <3> QED
      BY <2>3, <3>2, <3>3 DEF progress
  <2>4. ASSUME NEW s \in Source, NEW page \in Pages(parked, s), parked # NoCall
        PROVE  PageReady(parked, page) \in Event /\ PageReady(parked, page).sig = "pageReady"
    <3>1. PageReady(parked, page) \in Event
      BY <1>1, <2>2, <2>4, PagesType, PageReadyType
    <3>2. PageReady(parked, page).sig = "pageReady"
      BY EventFields
    <3> QED
      BY <3>1, <3>2
  <2>5. ASSUME NEW sofar \in Seq(Event), NEW answer \in Event, answer.sig = "pageReady",
               events' = Append(sofar, answer),
               \A i \in DOMAIN sofar :
                  (\E j \in DOMAIN events : sofar[i] = events[j]) \/ sofar[i].sig # "sortCompleted"
        PROVE  \A i \in DOMAIN events' :
                  (\E j \in DOMAIN events : events'[i] = events[j])
                  \/ events'[i].sig # "sortCompleted"
    BY <2>5, EventsAdded
  <2>6. \A i \in DOMAIN events' :
           (\E j \in DOMAIN events : events'[i] = events[j]) \/ events'[i].sig # "sortCompleted"
    BY <2>1, <2>3, <2>4, <2>5
  <2> QED
    BY <1>6, <2>6
<1> QED
  BY <1>1, <1>7, <1>8, <1>9, <1>10, <1>11 DEF WorkerStep, WorkerNext

\* No page has vanished before the first load.
LEMMA RecountInit == Init => RecountInv
<1> SUFFICES ASSUME Init PROVE RecountInv
  OBVIOUS
<1>1. ui.vanishedAt = NoTotal /\ ~ui.paged
  BY DEF Init, Reset
<1> QED
  BY <1>1 DEF RecountInv, Uncounted

\* Every step keeps it.
LEMMA RecountNext ==
    /\ TypeOK /\ TypeOK' /\ LoadsInv /\ LoadsInv' /\ OrderlyInv /\ RecountInv /\ [SharedNext]_vars
    => RecountInv'
<1> SUFFICES ASSUME TypeOK, TypeOK', LoadsInv, LoadsInv', OrderlyInv, RecountInv, [SharedNext]_vars
             PROVE  RecountInv'
  OBVIOUS
<1>1. \/ LoadSelectedTable \/ LeaveTable \/ OnOpenFailed \/ ClickSort \/ CancelSort
      \/ TurnPage \/ OnOpened \/ OnReopened \/ OnPageReady \/ OnPageVanished \/ OnPageFailed
      \/ OnSortCompleted \/ Aside \/ WorkerStep
  BY DEF SharedNext, Next, UserNext, SignalNext, TurnPage, Aside
<1>2. CASE LoadSelectedTable \/ LeaveTable \/ OnOpenFailed
  BY <1>2, RecountLeave
<1>3. CASE ClickSort \/ CancelSort \/ TurnPage
  BY <1>3, RecountRequests
<1>4. CASE OnOpened \/ OnReopened \/ OnPageReady
  BY <1>4, RecountAnswers
<1>5. CASE OnPageVanished \/ OnPageFailed \/ OnSortCompleted
  BY <1>5, RecountVanished, RecountFailed, RecountSorted
<1>6. CASE Aside \/ WorkerStep
  BY <1>6, RecountAside, RecountWorker
<1> QED
  BY <1>1, <1>2, <1>3, <1>4, <1>5, <1>6

\* From the moment a page vanished, every total that is still on its way is
\* either corrected by a later one or no greater than the rows there were.
THEOREM RecountHolds == SharedSpec => []RecountInv
<1>1. /\ TypeOK /\ TypeOK' /\ LoadsInv /\ LoadsInv' /\ OrderlyInv /\ RecountInv /\ [SharedNext]_vars
      => RecountInv'
  BY RecountNext
<1> QED
  BY <1>1, RecountInit, ViewerTypeCorrect, LoadsHold, OrderlyHold, PTL DEF SharedSpec

\* After a page vanished the pager ends up with a count that was taken since,
\* not with one that was under way or with the total of an earlier sort.
THEOREM RecountsAreFresh == SharedSpec => []RecountIsFresh
<1>1. RecountInv => RecountIsFresh
  BY DEF RecountInv, RecountIsFresh, Uncounted, Corrected
<1> QED
  BY <1>1, RecountHolds, PTL

=============================================================================
