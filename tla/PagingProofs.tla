---------------------------- MODULE PagingProofs ----------------------------
(***************************************************************************)
(* The viewer while nobody else writes to the table: that totals, pages    *)
(* and texts are right, by way of the invariants of ViewerInvariant, and   *)
(* that it implements PagedTable.                                          *)
(***************************************************************************)
EXTENDS ViewerProofs, PagedViewer

-----------------------------------------------------------------------------
(* A total is the number of rows, while nobody else writes to the table.   *)

\* What the totals are taken from, part by part.
SourceExact ==
    /\ src.kind # "none" /\ src.open => src.asOpened = rows /\ ~src.changed
    /\ src.kind = "csv" => src.indexed <= RowCount /\ (src.complete => src.indexed = RowCount)

SignalExact(e) ==
    e.view = viewGen /\ e.ok =>
        /\ e.sig = "sortCompleted" => e.total = RowCount
        /\ e.sig = "indexProgress" /\ e.complete => e.total = RowCount

CountExact(e) == e.view = viewGen /\ e.ok => e.total = RowCount

\* The parts are the whole.
LEMMA TotalsParts ==
    TotalsInv <=> (ui.paged =>
        /\ ui.pager.total # NoTotal => ui.pager.total = RowCount
        /\ SourceExact
        /\ \A i \in DOMAIN events : SignalExact(events[i])
        /\ \A i \in DOMAIN countEvents : CountExact(countEvents[i]))
BY DEF TotalsInv, SourceExact, SignalExact, CountExact

\* Steps that leave the source alone, and bring no total but an exact one.
LEMMA TotalsStep ==
    ASSUME TotalsInv, UNCHANGED <<rows, src, viewGen>>, ui'.paged = ui.paged,
           ui.paged => ui'.pager.total \in {ui.pager.total, NoTotal, RowCount},
           \A i \in DOMAIN events' : \E j \in DOMAIN events : events'[i] = events[j],
           \A i \in DOMAIN countEvents' :
              (\E j \in DOMAIN countEvents : countEvents'[i] = countEvents[j])
              \/ CountExact(countEvents'[i])
    PROVE  TotalsInv'
<1> SUFFICES ASSUME ui'.paged PROVE TotalsInv'
  BY DEF TotalsInv
<1>1. RowCount' = RowCount
  BY DEF RowCount
<1>2. /\ ui.pager.total # NoTotal => ui.pager.total = RowCount
      /\ SourceExact
      /\ \A i \in DOMAIN events : SignalExact(events[i])
      /\ \A i \in DOMAIN countEvents : CountExact(countEvents[i])
  BY DEF TotalsInv, SourceExact, SignalExact, CountExact
<1>3. ui'.pager.total # NoTotal => ui'.pager.total = RowCount
  BY <1>2
<1>4. SourceExact'
  BY <1>1, <1>2 DEF SourceExact
<1>5. ASSUME NEW i \in DOMAIN events'
      PROVE  SignalExact(events'[i])
  BY <1>2
<1>6. ASSUME NEW i \in DOMAIN countEvents'
      PROVE  CountExact(countEvents'[i])
  BY <1>2
<1>7. /\ \A i \in DOMAIN events' : SignalExact(events[i])'
      /\ \A i \in DOMAIN countEvents' : CountExact(countEvents[i])'
  BY <1>1, <1>5, <1>6 DEF SignalExact, CountExact
<1> QED
  BY <1>1, <1>3, <1>4, <1>7 DEF TotalsInv, SourceExact, SignalExact, CountExact

\* What the user asks for, and the answers but for the one to a sort, bring no
\* total.
LEMMA TotalsKept ==
    ASSUME TypeOK, LoadsInv, TotalsInv,
           \/ ClickSort \/ CancelSort \/ TurnPage \/ OnOpened \/ OnReopened
           \/ OnPageReady \/ OnPageVanished \/ OnPageFailed
    PROVE  TotalsInv'
<1>1. /\ UNCHANGED <<rows, src, viewGen, countEvents>> /\ ui'.paged = ui.paged
      /\ EventsRead /\ ui'.pager.total = ui.pager.total
  <2>1. CASE ClickSort
    <3>1. \E order \in SortState :
             ui' = [ui EXCEPT !.pending = order, !.sorting = TRUE, !.busy = TRUE,
                              !.status = SetSorting(ui.status, TRUE)]
      BY <2>1, ClickSortFacts
    <3>2. ui'.paged = ui.paged /\ ui'.pager = ui.pager
      BY <3>1, StateTypes DEF Viewer
    <3> QED
      BY <2>1, <3>2, ClickSortFacts DEF EventsRead
  <2>2. CASE CancelSort
    BY <2>2, CancelSortFacts DEF GoesBack, SameLoad, EventsRead
  <2>3. CASE TurnPage
    <3>1. \E page \in Nat, fromPrev \in BOOLEAN :
             ui' = [ui EXCEPT !.inFlight = TRUE, !.busy = TRUE,
                              !.pendingPage = page, !.pendingFromPrev = fromPrev]
      BY <2>3, TurnPageFacts
    <3>2. ui'.paged = ui.paged /\ ui'.pager = ui.pager
      BY <3>1, StateTypes DEF Viewer
    <3> QED
      BY <2>3, <3>2, TurnPageFacts DEF EventsRead
  <2>4. CASE OnOpened
    BY <2>4, OnOpenedFacts DEF Receive, EventsRead, SameLoad
  <2>5. CASE OnReopened
    BY <2>5, OnReopenedFacts DEF Receive, EventsRead, Recovered, SameLoad
  <2>6. CASE OnPageReady
    <3>1. events # <<>> /\ ui'.pager = Arrived(Head(events)).pager
      BY <2>6, OnPageReadyFacts DEF Receive
    <3>2. Head(events) \in Event /\ ui \in Viewer /\ ui.pager \in Pager
      BY <3>1, HeadType, StateTypes
    <3>3. PICK more : Arrived(Head(events)).pager = [ui.pager EXCEPT !.page = ui.pendingPage,
                                  !.fromPrev = ui.pendingFromPrev, !.hasMore = more]
      BY <3>2, ArrivedFields
    <3>4. ui'.pager.total = ui.pager.total
      BY <3>1, <3>2, <3>3 DEF Pager
    <3> QED
      BY <2>6, <3>4, OnPageReadyFacts DEF Receive, EventsRead, SameLoad
  <2>7. CASE OnPageVanished
    <3>1. ui'.pager = [ui.pager EXCEPT !.hasMore = FALSE] /\ ui.pager \in Pager
      BY <2>7, OnPageVanishedFacts, StateTypes
    <3>2. ui'.pager.total = ui.pager.total
      BY <3>1 DEF Pager
    <3> QED
      BY <2>7, <3>2, OnPageVanishedFacts DEF Receive, EventsRead, SameLoad
  <2>8. CASE OnPageFailed
    BY <2>8, OnPageFailedFacts DEF Receive, EventsRead, GoesBack, SameLoad
  <2> QED
    BY <2>1, <2>2, <2>3, <2>4, <2>5, <2>6, <2>7, <2>8
<1>2. \A i \in DOMAIN events' : \E j \in DOMAIN events : events'[i] = events[j]
  BY <1>1, ReadFromFront
<1>3. \A i \in DOMAIN countEvents' : \E j \in DOMAIN countEvents : countEvents'[i] = countEvents[j]
  BY <1>1
<1> QED
  BY <1>1, <1>2, <1>3, TotalsStep

\* The signal that is read says the truth.
LEMMA HeadExact ==
    ASSUME TypeOK, LoadsInv, TotalsInv, NEW sig, Receive(sig)
    PROVE  SignalExact(Head(events)) /\ Head(events).view = viewGen /\ Head(events).sig = sig
<1>1. ui.paged /\ events # <<>> /\ Head(events).view = viewGen /\ Head(events).sig = sig
  BY ReceiveShape
<1>2. 1 \in DOMAIN events /\ events[1] = Head(events)
  BY <1>1, StateTypes, QueueTail
<1> QED
  BY <1>1, <1>2, TotalsParts

\* The total of a sort.
LEMMA TotalsSorted ==
    ASSUME TypeOK, LoadsInv, TotalsInv, OnSortCompleted
    PROVE  TotalsInv'
<1>1. /\ Receive("sortCompleted") /\ SameLoad /\ UNCHANGED viewGen
      /\ \/ ui'.pager = ui.pager
         \/ Head(events).ok /\ ui'.pager = [ui.pager EXCEPT !.total = Head(events).total]
  BY OnSortCompletedFacts DEF Recovered, GoesBack
<1>2. /\ UNCHANGED <<rows, src, countEvents>> /\ EventsRead
  BY <1>1 DEF Receive, EventsRead
<1>3. Head(events).ok => Head(events).total = RowCount
  BY <1>1, HeadExact DEF SignalExact
<1>4. ui'.pager.total \in {ui.pager.total, NoTotal, RowCount}
  BY <1>1, <1>3, StateTypes DEF Pager
<1>5. \A i \in DOMAIN events' : \E j \in DOMAIN events : events'[i] = events[j]
  BY <1>2, ReadFromFront
<1>6. \A i \in DOMAIN countEvents' : \E j \in DOMAIN countEvents : countEvents'[i] = countEvents[j]
  BY <1>2
<1> QED
  BY <1>1, <1>2, <1>4, <1>5, <1>6, TotalsStep DEF SameLoad

\* The end of the file, a count, and what says nothing of a total.
LEMMA TotalsAside ==
    ASSUME TypeOK, LoadsInv, TotalsInv, Aside, rows' = rows
    PROVE  TotalsInv'
<1>1. SameLoad /\ UNCHANGED <<viewGen, src>>
  BY AsideFacts DEF SameUi
<1>2. EventsRead
  BY DEF Aside, ClickUnsortable, SelectCell, IgnoreStaleSignal, OnIndexProgress, Receive,
         Count, OnCountCompleted, DeleteRow, vars, workerVars, EventsRead
<1>3. \A i \in DOMAIN events' : \E j \in DOMAIN events : events'[i] = events[j]
  BY <1>2, ReadFromFront
<1> DEFINE Counting == [view : Nat, ok : BOOLEAN, total : Nat]
<1>4. ASSUME ui.paged
      PROVE  ui'.pager.total \in {ui.pager.total, NoTotal, RowCount}
  <2>1. CASE OnIndexProgress
    <3>1. Receive("indexProgress") /\ Head(events).ok \in BOOLEAN
      BY <2>1, HeadType DEF OnIndexProgress, Receive
    <3>2. \/ \E status : ui' = [ui EXCEPT !.status = status]
          \/ /\ Head(events).ok /\ Head(events).complete
             /\ ui' = Indexed(ui, Head(events).total)
      BY <2>1, <3>1 DEF OnIndexProgress
    <3>3. Head(events).ok /\ Head(events).complete => Head(events).total = RowCount
      BY <3>1, HeadExact DEF SignalExact
    <3>4. Indexed(ui, Head(events).total).pager.total = Head(events).total
      BY StateTypes DEF Indexed, Viewer, Pager
    <3>5. \A status : [ui EXCEPT !.status = status].pager.total = ui.pager.total
      BY StateTypes DEF Viewer
    <3> QED
      BY <3>2, <3>3, <3>4, <3>5
  <2>2. CASE OnCountCompleted
    <3>1. /\ countEvents # <<>>
          /\ \/ ui' = ui
             \/ \E status : ui' = [ui EXCEPT !.countFailed = TRUE, !.status = status]
             \/ /\ Head(countEvents).view = ui.gen /\ Head(countEvents).ok
                /\ ui' = Counted(ui, Head(countEvents).total)
      BY <2>2 DEF OnCountCompleted
    <3>2. 1 \in DOMAIN countEvents /\ Head(countEvents) = countEvents[1]
      BY <3>1, StateTypes, QueueTail
    <3>3. CountExact(Head(countEvents))
      BY <1>4, <3>2, TotalsParts
    <3>4. Head(countEvents).view = ui.gen /\ Head(countEvents).ok => Head(countEvents).total = RowCount
      BY <3>3 DEF CountExact, LoadsInv
    <3>5. Counted(ui, Head(countEvents).total).pager.total = Head(countEvents).total
      BY StateTypes DEF Counted, Viewer, Pager
    <3>6. \A status : [ui EXCEPT !.countFailed = TRUE, !.status = status].pager.total = ui.pager.total
      BY StateTypes DEF Viewer
    <3> QED
      BY <3>1, <3>4, <3>5, <3>6
  <2>3. CASE ~OnIndexProgress /\ ~OnCountCompleted
    <3>1. \/ ui' = ui
          \/ \E status : ui' = [ui EXCEPT !.status = status]
      BY <2>3 DEF Aside, ClickUnsortable, SelectCell, IgnoreStaleSignal, Count, DeleteRow,
                  guiVars, vars, workerVars
    <3>2. \A status : [ui EXCEPT !.status = status].pager.total = ui.pager.total
      BY StateTypes DEF Viewer
    <3> QED
      BY <3>1, <3>2
  <2> QED
    BY <2>1, <2>2, <2>3
<1>5. \A i \in DOMAIN countEvents' :
         (\E j \in DOMAIN countEvents : countEvents'[i] = countEvents[j])
         \/ CountExact(countEvents'[i])
  <2>1. countEvents \in Seq(Counting)
    BY StateTypes
  <2>2. CASE countEvents' = countEvents
    BY <2>2
  <2>3. CASE countEvents # <<>> /\ countEvents' = Tail(countEvents)
    <3> HIDE DEF Counting
    <3> QED
      BY <2>1, <2>3, QueueTail
  <2>4. ASSUME NEW ok \in BOOLEAN, countEvents' = Append(countEvents, CountResult(ok))
        PROVE  \A i \in DOMAIN countEvents' :
                  (\E j \in DOMAIN countEvents : countEvents'[i] = countEvents[j])
                  \/ CountExact(countEvents'[i])
    <3>1. CountResult(ok) \in Counting
      BY StateTypes, RowsFinite DEF CountResult
    <3>2. CountExact(CountResult(ok))
      BY DEF CountExact, CountResult, RowCount
    <3> HIDE DEF Counting
    <3> QED
      BY <2>1, <2>4, <3>1, <3>2, QueueAppend
  <2>5. \/ countEvents' = countEvents
        \/ countEvents # <<>> /\ countEvents' = Tail(countEvents)
        \/ \E ok \in BOOLEAN : countEvents' = Append(countEvents, CountResult(ok))
    BY DEF Aside, ClickUnsortable, SelectCell, IgnoreStaleSignal, OnIndexProgress, Receive,
           Count, OnCountCompleted, DeleteRow, guiVars, vars, workerVars
  <2> QED
    BY <2>2, <2>3, <2>4, <2>5
<1> QED
  BY <1>1, <1>3, <1>4, <1>5, TotalsStep DEF SameLoad

\* Another table, or none.
LEMMA TotalsLeave ==
    ASSUME TypeOK, LoadsInv, LoadSelectedTable \/ LeaveTable \/ OnOpenFailed
    PROVE  TotalsInv'
<1>1. CASE LeaveTable \/ OnOpenFailed
  BY <1>1, LeaveFacts DEF TotalsInv
<1>2. CASE LoadSelectedTable
  <2>1. /\ ui'.pager = FreshPager /\ src' = NoSource /\ viewGen' = viewGen + 1
        /\ UNCHANGED <<events, countEvents>>
    BY <1>2, LoadFacts DEF WasReset, LoadsInv
  <2>2. /\ \A i \in DOMAIN events : Past(events[i].view)
        /\ \A i \in DOMAIN countEvents : Past(countEvents[i].view)
    BY DEF LoadsInv
  <2>3. /\ \A i \in DOMAIN events : events[i].view \in Nat
        /\ \A i \in DOMAIN countEvents : countEvents[i].view \in Nat
        /\ viewGen \in Nat
    <3>1. /\ \A i \in DOMAIN events : events[i] \in Event
          /\ viewGen \in Nat
      BY StateTypes
    <3> QED
      BY <3>1, CountTypes DEF Event
  <2>4. /\ \A i \in DOMAIN events : events[i].view # viewGen'
        /\ \A i \in DOMAIN countEvents : countEvents[i].view # viewGen'
    BY <2>1, <2>2, <2>3 DEF Past
  <2>5. ui'.pager.total = NoTotal /\ src'.kind = "none"
    BY <2>1 DEF FreshPager, NoSource, EmptySource
  <2> QED
    BY <2>1, <2>4, <2>5 DEF TotalsInv
<1> QED
  BY <1>1, <1>2

\* The worker: a sort, the end of the index and what a page is cut from.
LEMMA TotalsWorker ==
    ASSUME TypeOK, TypeOK', TotalsInv, WorkerStep
    PROVE  TotalsInv'
<1>1. UNCHANGED <<ui, countEvents>> /\ WorkerTypeOK /\ events \in Seq(Event) /\ src \in Source
      /\ src' \in Source /\ task \in Call
  BY StateTypes DEF WorkerStep, guiVars, TypeOK, WorkerTypeOK
<1>2. UNCHANGED <<rows, viewGen>> /\ RowCount' = RowCount
  BY DEF WorkerStep, WorkerNext, BeginTask, FinishOpen, FinishSort, FetchPage, IndexSlice, Shutdown,
         TakeCall, RowCount
<1>3. SUFFICES ASSUME ui.paged PROVE TotalsInv'
  BY <1>1 DEF TotalsInv
<1>4. /\ ui.pager.total # NoTotal => ui.pager.total = RowCount
      /\ SourceExact
      /\ \A i \in DOMAIN events : SignalExact(events[i])
      /\ \A i \in DOMAIN countEvents : CountExact(countEvents[i])
  BY <1>3, TotalsParts
<1>5. ASSUME SourceExact',
             \A i \in DOMAIN events' :
                (\E j \in DOMAIN events : events'[i] = events[j]) \/ SignalExact(events'[i])
      PROVE  TotalsInv'
  <2>1. \A i \in DOMAIN events' : SignalExact(events'[i])
    BY <1>4, <1>5
  <2>2. \A i \in DOMAIN events' : SignalExact(events[i])'
    BY <1>2, <2>1 DEF SignalExact
  <2>3. \A i \in DOMAIN countEvents' : CountExact(countEvents[i])'
    BY <1>1, <1>2, <1>4 DEF CountExact
  <2> QED
    BY <1>1, <1>2, <1>4, <1>5, <2>2, <2>3 DEF TotalsInv, SourceExact, SignalExact, CountExact
<1>6. ASSUME NEW s \in Source, s.complete => s.indexed = RowCount, NEW view
      PROVE  SignalExact(Progress(view, s))
  <2> DEFINE e == Progress(view, s)
  <2>1. /\ e.sig = "indexProgress" /\ e.ok = ~Broken(s) /\ e.complete = s.complete
        /\ e.total = IF Broken(s) THEN NoTotal ELSE s.indexed
    BY EventFields
  <2> HIDE DEF e
  <2>2. SignalExact(e)
    BY <1>6, <2>1 DEF SignalExact
  <2> QED
    BY <2>2 DEF e
<1>7. ASSUME NEW e \in Event, e.sig \in {"openCompleted", "pageReady"} PROVE SignalExact(e)
  BY <1>7 DEF SignalExact
<1>8. CASE BeginTask \/ Shutdown
  <2>1. events' = events /\ (src' = src \/ src' = NoSource)
    BY <1>1, <1>8, BeginTaskFacts, ShutdownFacts
  <2>2. SourceExact'
    BY <1>2, <1>4, <2>1 DEF SourceExact, NoSource, EmptySource
  <2> QED
    BY <1>5, <2>1, <2>2
<1>9. CASE FinishOpen
  <2>1. /\ src' \in OpenOutcomes(task)
        /\ \/ events' = events
           \/ \E done \in Event :
                /\ done.sig = "openCompleted"
                /\ \/ events' = Append(events, done)
                   \/ events' = Append(Append(events, done), Progress(task.view, src'))
    BY <1>1, <1>9, FinishOpenFacts
  <2>2. /\ ~src'.changed /\ (src'.open => src'.asOpened = rows) /\ src'.indexed <= RowCount
        /\ src'.complete => src'.indexed = RowCount
    BY <1>1, <2>1, OpenOutcomesFacts DEF RowCount
  <2>3. SourceExact'
    BY <1>2, <2>2 DEF SourceExact
  <2>4. Progress(task.view, src') \in Event
    BY <1>1, ProgressType DEF Call
  <2>5. SignalExact(Progress(task.view, src'))
    BY <1>1, <1>6, <2>2
  <2>6. ASSUME NEW done \in Event, done.sig = "openCompleted",
               \/ events' = Append(events, done)
               \/ events' = Append(Append(events, done), Progress(task.view, src'))
        PROVE  \A i \in DOMAIN events' :
                  (\E j \in DOMAIN events : events'[i] = events[j]) \/ SignalExact(events'[i])
    <3>1. /\ Append(events, done) \in Seq(Event)
          /\ \A i \in DOMAIN Append(events, done) :
                (i \in DOMAIN events /\ Append(events, done)[i] = events[i])
                \/ Append(events, done)[i] = done
      BY <1>1, EventsAdded
    <3>2. \A i \in DOMAIN Append(Append(events, done), Progress(task.view, src')) :
             (i \in DOMAIN Append(events, done)
              /\ Append(Append(events, done), Progress(task.view, src'))[i] = Append(events, done)[i])
             \/ Append(Append(events, done), Progress(task.view, src'))[i] = Progress(task.view, src')
      BY <2>4, <3>1, EventsAdded
    <3>3. SignalExact(done)
      BY <1>7, <2>6
    <3> QED
      BY <2>5, <2>6, <3>1, <3>2, <3>3
  <2> QED
    BY <1>5, <2>1, <2>3, <2>6
<1>10. CASE FinishSort
  <2>1. /\ src'.kind = src.kind /\ src'.open = src.open /\ src'.asOpened = src.asOpened
        /\ src'.changed = src.changed /\ src'.indexed = src.indexed /\ src'.complete = src.complete
    BY <1>1, <1>10, FinishSortFacts
  <2>2. \/ events' = events
        \/ \E e \in Event : /\ e.sig = "sortCompleted" /\ (e.ok => e.total = RowCount)
                            /\ events' = Append(events, e)
    BY <1>1, <1>10, FinishSortFacts DEF RowCount
  <2>3. SourceExact'
    BY <1>2, <1>4, <2>1 DEF SourceExact
  <2>4. ASSUME NEW e \in Event, e.sig = "sortCompleted", e.ok => e.total = RowCount,
               events' = Append(events, e)
        PROVE  \A i \in DOMAIN events' :
                  (\E j \in DOMAIN events : events'[i] = events[j]) \/ SignalExact(events'[i])
    <3>1. SignalExact(e)
      BY <2>4 DEF SignalExact
    <3> QED
      BY <1>1, <2>4, <3>1, EventsAdded
  <2> QED
    BY <1>5, <2>2, <2>3, <2>4
<1>11. ASSUME NEW s \in Source, src' = s \/ src' = Verified(s), SameSource(src, s),
              src.asOpened = rows => s.changed = src.changed,
              s.indexed <= RowCount \/ src.kind # "csv",
              src.kind = "csv" /\ s.complete => s.indexed = RowCount
       PROVE  SourceExact'
  <2>1. /\ SameSource(s, Verified(s)) /\ Verified(s).indexed = s.indexed
        /\ Verified(s).complete = s.complete
        /\ rows = s.asOpened => Verified(s).changed = s.changed
    BY VerifiedSame
  <2>2. /\ src'.kind = src.kind /\ src'.open = src.open /\ src'.asOpened = src.asOpened
        /\ src'.indexed = s.indexed /\ src'.complete = s.complete
        /\ rows = src.asOpened => src'.changed = src.changed
    BY <1>11, <2>1 DEF SameSource
  <2> QED
    BY <1>2, <1>4, <1>11, <2>2 DEF SourceExact
<1>12. CASE FetchPage
  <2>1. \/ UNCHANGED <<src, events>>
        \/ /\ inbox # <<>> /\ Head(inbox).op \in PageOps /\ src' = Verified(src)
           /\ \E page \in Pages(Head(inbox), src) :
                 events' = Append(events, PageReady(Head(inbox), page))
    BY <1>1, <1>12, FetchPageFacts
  <2>2. SourceExact'
    <3>1. CASE src' = src
      BY <1>2, <1>4, <3>1 DEF SourceExact
    <3>2. CASE src' = Verified(src)
      BY <1>1, <1>4, <1>11, <3>2 DEF SourceExact, SameSource
    <3> QED
      BY <2>1, <3>1, <3>2
  <2>3. ASSUME inbox # <<>>, Head(inbox).op \in PageOps, NEW page \in Pages(Head(inbox), src),
               events' = Append(events, PageReady(Head(inbox), page))
        PROVE  \A i \in DOMAIN events' :
                  (\E j \in DOMAIN events : events'[i] = events[j]) \/ SignalExact(events'[i])
    <3>1. PageReady(Head(inbox), page) \in Event
      <4>1. Head(inbox) \in Call
        BY <2>3, InboxTail
      <4> QED
        BY <1>1, <2>3, <4>1, PagesType, PageReadyType
    <3>2. PageReady(Head(inbox), page).sig = "pageReady"
      BY EventFields
    <3>3. SignalExact(PageReady(Head(inbox), page))
      BY <1>7, <3>1, <3>2
    <3> QED
      BY <1>1, <2>3, <3>1, <3>3, EventsAdded
  <2> QED
    BY <1>5, <2>1, <2>2, <2>3
<1>13. CASE IndexSlice
  <2>1. \/ UNCHANGED <<src, events>>
        \/ src.kind = "csv" /\ \E s \in SliceOutcomes(src), sofar \in Seq(Event) :
             /\ s \in Source
             /\ src' = s \/ src' = Verified(s)
             /\ sofar = events \/ sofar = Append(events, Progress(Head(inbox).view, s))
             /\ Progress(Head(inbox).view, s) \in Event
             /\ \/ events' = sofar
                \/ /\ parked # NoCall
                   /\ \E page \in Pages(parked, s) : events' = Append(sofar, PageReady(parked, page))
    BY <1>1, <1>13, IndexSliceFacts
  <2>2. CASE UNCHANGED <<src, events>>
    <3>1. SourceExact'
      BY <1>2, <1>4, <2>2 DEF SourceExact
    <3> QED
      BY <1>5, <2>2, <3>1
  <2>3. ASSUME src.kind = "csv", NEW s \in SliceOutcomes(src), NEW sofar \in Seq(Event),
               s \in Source, src' = s \/ src' = Verified(s),
               sofar = events \/ sofar = Append(events, Progress(Head(inbox).view, s)),
               Progress(Head(inbox).view, s) \in Event,
               \/ events' = sofar
               \/ /\ parked # NoCall
                  /\ \E page \in Pages(parked, s) : events' = Append(sofar, PageReady(parked, page))
        PROVE  TotalsInv'
    <3>1. /\ SameSource(src, s) /\ (rows = src.asOpened => s.changed = src.changed)
          /\ src.indexed <= RowCount => s.indexed <= RowCount
          /\ s = src \/ (s.complete => s.indexed = RowCount) \/ s = Verified(src)
      BY <1>1, <2>3, SliceOutcomesFacts DEF RowCount
    <3>2. s.indexed <= RowCount /\ (s.complete => s.indexed = RowCount)
      BY <1>1, <1>4, <2>3, <3>1, VerifiedSame DEF SourceExact
    <3>3. SourceExact'
      BY <1>11, <2>3, <3>1, <3>2
    <3> DEFINE progress == Progress(Head(inbox).view, s)
    <3>4. SignalExact(progress) /\ progress \in Event
      BY <1>6, <2>3, <3>2
    <3>5. sofar = events \/ sofar = Append(events, progress)
      BY <2>3
    <3> HIDE DEF progress
    <3>6. \A i \in DOMAIN sofar :
             (\E j \in DOMAIN events : sofar[i] = events[j]) \/ SignalExact(sofar[i])
      <4>1. CASE sofar = events
        BY <4>1
      <4>2. CASE sofar = Append(events, progress)
        BY <1>1, <3>4, <4>2, EventsAdded
      <4> QED
        BY <3>5, <4>1, <4>2
    <3>7. CASE events' = sofar
      BY <1>5, <3>3, <3>6, <3>7
    <3>8. ASSUME parked # NoCall, NEW page \in Pages(parked, s),
                 events' = Append(sofar, PageReady(parked, page))
          PROVE  \A i \in DOMAIN events' :
                    (\E j \in DOMAIN events : events'[i] = events[j]) \/ SignalExact(events'[i])
      <4> DEFINE answer == PageReady(parked, page)
      <4>1. answer \in Event
        <5>1. parked \in Call /\ parked.op \in PageOps
          BY <1>1, <3>8 DEF WorkerTypeOK
        <5> QED
          BY <1>1, <2>3, <3>8, <5>1, PagesType, PageReadyType
      <4>2. answer.sig = "pageReady"
        BY EventFields
      <4>3. SignalExact(answer) /\ events' = Append(sofar, answer)
        BY <1>7, <3>8, <4>1, <4>2
      <4> HIDE DEF answer
      <4> QED
        BY <3>6, <4>1, <4>3, EventsAdded
    <3> QED
      BY <1>5, <2>3, <3>3, <3>7, <3>8
  <2> QED
    BY <2>1, <2>2, <2>3
<1> QED
  BY <1>8, <1>9, <1>10, <1>12, <1>13 DEF WorkerStep, WorkerNext

\* Nothing is known of a table before one is loaded.
LEMMA TotalsInit == Init => TotalsInv
BY DEF Init, Reset, TotalsInv

\* The steps of the program, as the proofs take them apart.
LEMMA NextSteps ==
    ASSUME [Next]_vars
    PROVE  \/ LoadSelectedTable \/ LeaveTable \/ OnOpenFailed \/ ClickSort \/ CancelSort
           \/ TurnPage \/ OnOpened \/ OnReopened \/ OnPageReady \/ OnPageVanished \/ OnPageFailed
           \/ OnSortCompleted \/ (Aside /\ rows' = rows) \/ WorkerStep
<1>1. ClickUnsortable \/ SelectCell \/ Count \/ OnCountCompleted \/ UNCHANGED vars => rows' = rows
  BY DEF ClickUnsortable, SelectCell, Count, OnCountCompleted, vars, workerVars
<1>2. IgnoreStaleSignal \/ OnIndexProgress => rows' = rows
  BY DEF IgnoreStaleSignal, OnIndexProgress, Receive
<1> QED
  BY <1>1, <1>2 DEF Next, UserNext, SignalNext, TurnPage, Aside

\* Every step of the viewer and its workers keeps it; a deletion would not.
LEMMA TotalsNext ==
    TypeOK /\ TypeOK' /\ LoadsInv /\ TotalsInv /\ [Next]_vars => TotalsInv'
<1> SUFFICES ASSUME TypeOK, TypeOK', LoadsInv, TotalsInv, [Next]_vars
             PROVE  TotalsInv'
  OBVIOUS
<1>1. \/ LoadSelectedTable \/ LeaveTable \/ OnOpenFailed \/ ClickSort \/ CancelSort
      \/ TurnPage \/ OnOpened \/ OnReopened \/ OnPageReady \/ OnPageVanished \/ OnPageFailed
      \/ OnSortCompleted \/ (Aside /\ rows' = rows) \/ WorkerStep
  BY NextSteps
<1>2. CASE LoadSelectedTable \/ LeaveTable \/ OnOpenFailed
  BY <1>2, TotalsLeave
<1>3. CASE \/ ClickSort \/ CancelSort \/ TurnPage \/ OnOpened \/ OnReopened
           \/ OnPageReady \/ OnPageVanished \/ OnPageFailed
  BY <1>3, TotalsKept
<1>4. CASE OnSortCompleted \/ (Aside /\ rows' = rows)
  BY <1>4, TotalsSorted, TotalsAside
<1>5. CASE WorkerStep
  BY <1>5, TotalsWorker
<1> QED
  BY <1>1, <1>2, <1>3, <1>4, <1>5

\* Every total on its way, from a count, a sort or the end of the index, is the
\* number of rows there are, as long as nobody else writes to the table.
THEOREM TotalsHold == Spec => []TotalsInv
<1>1. TypeOK /\ TypeOK' /\ LoadsInv /\ TotalsInv /\ [Next]_vars => TotalsInv'
  BY TotalsNext
<1>2. Spec => []TypeOK /\ []LoadsInv
  BY SpecIsShared, ViewerTypeCorrect, LoadsHold, PTL
<1> QED
  BY <1>1, <1>2, TotalsInit, PTL DEF Spec

\* The total the pager computes its pages from is the number of rows.
THEOREM TotalsAreExact == Spec => []TotalIsExact
<1>1. TotalsInv => TotalIsExact
  BY DEF TotalsInv, TotalIsExact, RowCount
<1> QED
  BY <1>1, TotalsHold, PTL

-----------------------------------------------------------------------------
(* The rows on display are the rows of the page in the pager: PagesInv.    *)

TableFits ==
    /\ ui.kind = "csv" => rows = 1..RowCount
    /\ src.order # Unsorted => src.ordinals = Ranked(rows, src.order)

PlaceFits ==
    /\ ui.pager.page > 0
    /\ ui.firstPending => ui.token = NoToken /\ ui.pager.page = 1
    /\ TokenFits(ui.token, ui.committed, ui.pager.page)
    /\ DisplayFits

CallsAsk ==
    /\ \A i \in LiveCalls : AsksForPage(inbox[i])
    /\ IsLive(parked) => AsksForPage(parked)

SignalsBring == \A i \in LiveSignals : BringsPage(events[i])

\* The parts are the whole.
LEMMA PagesParts ==
    PagesInv <=> (ui.paged => TableFits /\ PlaceFits /\ CallsAsk /\ SignalsBring /\ OpensOnce)
BY DEF PagesInv, TableFits, PlaceFits, CallsAsk, SignalsBring

\* The same page in the words of the lemmas about pages.
LEMMA PagesAreRuns ==
    ASSUME NEW order, NEW page, NEW token
    PROVE  /\ PageOf(order, page) = PageIn(Ranked(rows, order), page)
           /\ TokenFits(token, order, page)
              <=> TokenMarks(ui.kind, order, Ranked(rows, order), token, page)
BY DEF PageOf, PageIn, TokenFits, TokenMarks

\* A page there is, and the ones before it.
LEMMA EarlierPages ==
    ASSUME TypeOK, NEW p \in Nat \ {0}, NEW q \in Nat \ {0}, p <= q
    PROVE  /\ Exists(q) => Exists(p)
           /\ p < q /\ Exists(q) => Followed(p)
           /\ Followed(p) <=> Exists(p + 1)
           /\ Exists(1) <=> RowCount > 0
           /\ RowCount \in Nat
<1>1. RowCount \in Nat
  BY RowsFinite, StateTypes DEF RowCount
<1>2. PageSize \in Nat \ {0}
  BY PageSizeAssumption
<1> DEFINE a == (p - 1) * PageSize
           b == (q - 1) * PageSize
           c == p * PageSize
           n == RowCount
<1>3. a \in Nat /\ b \in Nat /\ c \in Nat /\ a <= b /\ c = a + PageSize /\ (p < q => c <= b)
  <2>1. /\ a = PageSize * (p - 1) /\ b = PageSize * (q - 1) /\ c = PageSize * p
        /\ p - 1 \in Nat /\ q - 1 \in Nat /\ p \in Nat
    BY <1>2
  <2>2. /\ a \in Nat /\ b \in Nat /\ c \in Nat
        /\ p - 1 <= q - 1 => a <= b
        /\ p < q => p <= q - 1
        /\ p <= q - 1 => c <= b
    BY <2>1, Product
  <2>3. c = a + PageSize
    BY Offsets
  <2> QED
    BY <2>2, <2>3
<1>4. (p + 1) - 1 = p /\ (1 - 1) * PageSize = 0
  BY <1>2
<1>5. /\ Exists(q) <=> b < n
      /\ Exists(p) <=> a < n
      /\ Followed(p) <=> c < n
      /\ Exists(p + 1) <=> c < n
      /\ Exists(1) <=> 0 < n
  BY <1>4 DEF Exists, Followed
<1>6. n \in Nat
  BY <1>1
<1> HIDE DEF a, b, c, n
<1>7. /\ Exists(q) => Exists(p)
      /\ p < q /\ Exists(q) => Followed(p)
      /\ Followed(p) <=> Exists(p + 1)
      /\ Exists(1) <=> n > 0
  BY <1>3, <1>5, <1>6
<1> QED
  BY <1>1, <1>7 DEF n

\* Rows on a page mean that the page is there.
LEMMA RowsMeanPage ==
    ASSUME TypeOK, NEW order \in Order, NEW p \in Nat \ {0}
    PROVE  /\ PageOf(order, p) \in Seq(Nat)
           /\ PageOf(order, p) # <<>> <=> Exists(p)
           /\ Len(Ranked(rows, order)) = RowCount
<1> DEFINE all == Ranked(rows, order)
<1>1. rows \in SUBSET Row
  BY StateTypes DEF WorkerTypeOK
<1>2. all \in Seq(Nat) /\ Len(all) = RowCount /\ RowCount \in Nat
  BY <1>1, AllRows DEF RowCount
<1>3. Start(p) \in Nat /\ PageSize \in Nat /\ PageSize > 0
  BY Offsets DEF Start
<1> DEFINE k == Left(Len(all), Start(p), PageSize)
<1>4. PageOf(order, p) = Run(all, Start(p), k)
  BY <1>2, PageIsRun, PagesAreRuns
<1> HIDE DEF all
<1>5. k \in Nat /\ (Start(p) < Len(all) => Start(p) + k <= Len(all)) /\ (Len(all) <= Start(p) => k = 0)
      /\ (Start(p) < Len(all) => k # 0)
  <2>1. k \in Nat /\ (Start(p) < Len(all) => Start(p) + k <= Len(all)) /\ (Len(all) <= Start(p) => k = 0)
    <3> DEFINE l == Len(all)
               o == Start(p)
    <3>1. l \in Nat /\ o \in Nat /\ PageSize \in Nat
      BY <1>2, <1>3
    <3> HIDE DEF l, o
    <3>2. /\ Left(l, o, PageSize) \in Nat
          /\ o < l => o + Left(l, o, PageSize) <= l
          /\ l <= o => Left(l, o, PageSize) = 0
      BY <3>1, LeftType
    <3> QED
      BY <3>2 DEF l, o
  <2>2. Start(p) < Len(all) => k # 0
    BY <1>2, <1>3 DEF Left
  <2> QED
    BY <2>1, <2>2
<1>6. Exists(p) <=> Start(p) < Len(all)
  BY <1>2 DEF Exists, Start
<1> HIDE DEF k
<1>7. Within(all, Start(p), k)
  BY <1>2, <1>3, <1>5 DEF Within
<1>8. Run(all, Start(p), k) \in Seq(Nat) /\ (Run(all, Start(p), k) = <<>> <=> k = 0)
  BY <1>2, <1>3, <1>5, <1>7, RunType
<1>9. k # 0 <=> Exists(p)
  BY <1>2, <1>3, <1>5, <1>6
<1> QED
  BY <1>2, <1>4, <1>8, <1>9 DEF all

\* What a step leaves of the page on display and of the pager: a total may
\* become known, nothing else is forgotten.
SamePlace ==
    /\ SameLoad /\ ui'.token = ui.token /\ ui'.committed = ui.committed
    /\ ui'.firstPending = ui.firstPending /\ ui'.pager.page = ui.pager.page
    /\ ui'.pager.total = NoTotal =>
          /\ ui.pager.total = NoTotal
          /\ ui'.pager.hasMore = ui.pager.hasMore /\ ui'.pager.fromPrev = ui.pager.fromPrev

\* The page on display stays.
LEMMA PlaceStays ==
    ASSUME PlaceFits, SamePlace, UNCHANGED <<rows, shown>>,
           OnDisplay /\ ui.kind = "csv" /\ src.failed => src'.failed
    PROVE  PlaceFits'
<1>1. /\ ui'.kind = ui.kind /\ ui'.gen = ui.gen /\ ui'.paged = ui.paged
      /\ ui'.token = ui.token /\ ui'.committed = ui.committed
      /\ ui'.firstPending = ui.firstPending /\ ui'.pager.page = ui.pager.page
  BY DEF SamePlace, SameLoad
<1>2. \A order, page : PageOf(order, page)' = PageOf(order, page)
  BY DEF PageOf
<1>3. TokenFits(ui.token, ui.committed, ui.pager.page)'
  BY <1>1, <1>2 DEF PlaceFits, TokenFits
<1>4. DisplayFits'
  <2>1. OnDisplay' <=> OnDisplay
    BY <1>1 DEF OnDisplay
  <2>2. OnDisplay /\ RowsFit(shown.rows, ui.committed, ui.pager.page)
        => RowsFit(shown.rows, ui.committed, ui.pager.page)'
    BY <1>1, <1>2 DEF RowsFit
  <2>3. Exists(ui.pager.page)' <=> Exists(ui.pager.page)
    BY <1>1 DEF Exists, RowCount
  <2>4. ui'.pager.total = NoTotal =>
           (MoreFits(ui.pager.hasMore \/ ui.pager.fromPrev, ui.pager.page)'
            <=> MoreFits(ui.pager.hasMore \/ ui.pager.fromPrev, ui.pager.page))
    BY <1>1 DEF MoreFits, Followed, RowCount, SamePlace
  <2> QED
    BY <1>1, <2>1, <2>2, <2>3, <2>4 DEF DisplayFits, PlaceFits, SamePlace
<1> QED
  BY <1>1, <1>3, <1>4 DEF PlaceFits

\* What the call the step posts asks for is all that is asked for.
LEMMA OnlyAsked ==
    ASSUME TypeOK, NoneLive, UNCHANGED parked,
           inbox' = inbox \/ \E c \in Call : inbox' = Append(inbox, c) /\ AsksForPage(c)'
    PROVE  CallsAsk' /\ SignalsBring'
<1>1. ~IsLive(parked)' /\ LiveSignals' = {}
  BY DEF NoneLive, LiveAt, IsLive, IsStale
<1>2. \A i \in DOMAIN inbox : ~IsLive(inbox[i])' \/ inbox'[i] # inbox[i]
  BY DEF NoneLive, LiveAt, IsLive, IsStale
<1>3. CASE inbox' = inbox
  <2>1. LiveCalls' = {}
    BY <1>2, <1>3 DEF LiveCalls
  <2> QED
    BY <1>1, <2>1 DEF CallsAsk, SignalsBring
<1>4. ASSUME NEW c \in Call, inbox' = Append(inbox, c), AsksForPage(c)'
      PROVE  CallsAsk' /\ SignalsBring'
  <2>1. \A i \in DOMAIN inbox' : (i \in DOMAIN inbox /\ inbox'[i] = inbox[i]) \/ inbox'[i] = c
    BY <1>4, StateTypes, QueueLast
  <2>2. \A i \in LiveCalls' : inbox'[i] = c
    BY <1>2, <2>1 DEF LiveCalls, IsLive, IsStale
  <2>3. \A i \in LiveCalls' : AsksForPage(inbox[i])'
    BY <1>4, <2>2 DEF AsksForPage
  <2> QED
    BY <1>1, <2>3 DEF CallsAsk, SignalsBring
<1> QED
  BY <1>3, <1>4

\* Where nothing is being opened, or the table has a rowid, only an open()
\* matters to OpensOnce.
MayPost == ui.kind = "rowid" \/ ~OpenQueued

\* No open() is queued, or the table has a rowid, before and after.
LEMMA StillOpened ==
    ASSUME TypeOK, MayPost, task' = task, ui'.kind = ui.kind,
           \/ inbox' = inbox
           \/ \E c \in Call : inbox' = Append(inbox, c) /\ (c.op = "open" => ui.kind = "rowid")
    PROVE  OpensOnce'
<1>1. CASE ui.kind = "rowid"
  BY <1>1 DEF OpensOnce
<1>2. CASE ui.kind # "rowid"
  <2>1. \A i \in DOMAIN inbox : inbox[i].op # "open"
    BY <1>2 DEF MayPost, OpenQueued
  <2>2. task'.op # "open"
    BY <1>2 DEF MayPost, OpenQueued
  <2>3. \A i \in DOMAIN inbox' : inbox'[i].op # "open"
    <3>1. CASE inbox' = inbox
      BY <2>1, <3>1
    <3>2. ASSUME NEW c \in Call, inbox' = Append(inbox, c), c.op # "open"
          PROVE  \A i \in DOMAIN inbox' : inbox'[i].op # "open"
      <4>1. \A i \in DOMAIN inbox' : (i \in DOMAIN inbox /\ inbox'[i] = inbox[i]) \/ inbox'[i] = c
        BY <3>2, StateTypes, QueueLast
      <4> QED
        BY <2>1, <3>2, <4>1
    <3> QED
      BY <1>2, <3>1, <3>2
  <2> QED
    BY <2>2, <2>3 DEF OpensOnce, OpenQueued
<1> QED
  BY <1>1, <1>2

\* A signal of the load shows that its open() has returned.
LEMMA AnswerMeansOpened ==
    ASSUME TypeOK, LoadsInv, PagesInv, NEW sig, Receive(sig)
    PROVE  MayPost
<1>1. ui.paged /\ events # <<>> /\ Head(events).view = viewGen /\ events \in Seq(Event)
  BY ReceiveShape, StateTypes
<1>2. 1 \in DOMAIN events /\ events[1] = Head(events)
  BY <1>1, QueueTail
<1> QED
  BY <1>1, <1>2 DEF PagesInv, OpensOnce, MayPost

\* A step of the viewer that replaces what is under way.
LEMMA PagesPosted ==
    ASSUME TypeOK, PagesInv, ui.paged, NoneLive, UNCHANGED <<rows, task, src, parked>>,
           SameLoad, PlaceFits', MayPost,
           \/ inbox' = inbox
           \/ \E c \in Call : /\ inbox' = Append(inbox, c) /\ AsksForPage(c)'
                              /\ c.op = "open" => ui.kind = "rowid"
    PROVE  PagesInv'
<1>1. CallsAsk' /\ SignalsBring'
  BY OnlyAsked
<1>2. OpensOnce'
  BY StillOpened DEF SameLoad
<1>3. TableFits'
  BY DEF PagesInv, TableFits, RowCount, SameLoad
<1> QED
  BY <1>1, <1>2, <1>3
     DEF PagesInv, TableFits, PlaceFits, CallsAsk, SignalsBring

\* Only page requests ask for a page.
LEMMA OthersAskNothing ==
    ASSUME NEW c, c.op \notin PageOps
    PROVE  AsksForPage(c) /\ AsksForPage(c)'
BY DEF AsksForPage

\* A click on a column, and the way back from a sort: the page stays.
LEMMA ClickSortPages ==
    ASSUME TypeOK, LoadsInv, OrderlyInv, PagesInv, ClickSort
    PROVE  PagesInv'
<1>1. /\ ui.paged /\ ui.canSort /\ opGen' = opGen + 1 /\ SameLoad
      /\ UNCHANGED <<rows, viewGen, task, src, parked, events, shown, counts, countEvents>>
  BY ClickSortFacts
<1>2. PICK order \in SortState :
        /\ ui' = [ui EXCEPT !.pending = order, !.sorting = TRUE, !.busy = TRUE,
                            !.status = SetSorting(ui.status, TRUE)]
        /\ inbox' = Append(inbox, SortCall(opGen', order))
        /\ Posted(SortCall(opGen', order))
  BY ClickSortFacts
<1>3. ui.kind = "rowid" /\ MayPost
  BY <1>1 DEF OrderlyInv, ProtocolInv, FieldsInv, MayPost
<1>4. NoneLive
  BY <1>1, QuietReplaced DEF OrderlyInv, ProtocolInv, EventsRead
<1>5. SamePlace
  BY <1>1, <1>2, StateTypes DEF SamePlace, Viewer
<1>6. PlaceFits'
  BY <1>1, <1>5, PlaceStays DEF PagesInv, PlaceFits
<1>7. \E c \in Call : inbox' = Append(inbox, c) /\ AsksForPage(c)' /\ (c.op = "open" => ui.kind = "rowid")
  <2>1. SortCall(opGen', order).op \notin PageOps /\ SortCall(opGen', order) \in Call
    BY <1>2, CallFields DEF Posted, PageOps
  <2> QED
    BY <1>2, <1>3, <2>1, OthersAskNothing
<1> QED
  BY <1>1, <1>3, <1>4, <1>6, <1>7, PagesPosted

\* The way back from a sort: the source is opened again, the page stays.
LEMMA GoesBackPages ==
    ASSUME TypeOK, LoadsInv, OrderlyInv, PagesInv, GoesBack, ui.sorting, EventsRead,
           UNCHANGED <<rows, viewGen, task, src, parked, shown>>
    PROVE  PagesInv'
<1>1. ui.paged /\ ui.kind = "rowid" /\ MayPost
  BY DEF OrderlyInv, ProtocolInv, FieldsInv, MayPost, LoadsInv
<1>2. NoneLive
  BY QuietReplaced DEF OrderlyInv, ProtocolInv, GoesBack
<1>3. SamePlace /\ SameLoad
  BY DEF SamePlace, GoesBack
<1>4. PlaceFits'
  BY <1>1, <1>3, PlaceStays DEF PagesInv, PlaceFits
<1>5. \E c \in Call : inbox' = Append(inbox, c) /\ AsksForPage(c)' /\ (c.op = "open" => ui.kind = "rowid")
  <2> DEFINE c == NewCall("open", viewGen, opGen', ui.kind)
  <2>1. c.op \notin PageOps /\ c \in Call /\ inbox' = Append(inbox, c)
    BY CallFields DEF Posted, PageOps, GoesBack
  <2> HIDE DEF c
  <2> QED
    BY <1>1, <2>1, OthersAskNothing
<1> QED
  BY <1>1, <1>2, <1>3, <1>4, <1>5, PagesPosted

\* The user cancels the sort.
LEMMA CancelSortPages ==
    ASSUME TypeOK, LoadsInv, OrderlyInv, PagesInv, CancelSort
    PROVE  PagesInv'
<1>1. /\ ui.sorting /\ ~ui.recovering /\ GoesBack
      /\ UNCHANGED <<rows, viewGen, task, src, parked, events, shown, counts, countEvents>>
  BY CancelSortFacts
<1> QED
  BY <1>1, GoesBackPages DEF EventsRead

\* The source is open again, and may have to be sorted again.
LEMMA OnReopenedPages ==
    ASSUME TypeOK, LoadsInv, OrderlyInv, PagesInv, OnReopened
    PROVE  PagesInv'
<1>1. /\ Receive("openCompleted") /\ ui.recovering
      /\ UNCHANGED <<viewGen, opGen, shown, counts>>
      /\ \/ Recovered /\ inbox' = inbox
         \/ /\ SameLoad /\ SameOrder /\ ui'.firstPending = ui.firstPending
            /\ ui'.token = ui.token /\ ui'.pager = ui.pager
            /\ inbox' = Append(inbox, SortCall(opGen, ui.committed))
            /\ Posted(SortCall(opGen, ui.committed))
  BY OnReopenedFacts
<1>2. ui.paged /\ UNCHANGED <<rows, task, src, parked>>
  BY <1>1, ReceiveShape
<1>3. MayPost
  BY <1>1, AnswerMeansOpened
<1>4. NoneLive
  BY <1>1, QuietAnswered DEF OrderlyInv, ProtocolInv
<1>5. SamePlace
  BY <1>1 DEF SamePlace, Recovered, SameOrder
<1>6. PlaceFits'
  BY <1>1, <1>2, <1>5, PlaceStays DEF PagesInv, PlaceFits
<1>7. \/ inbox' = inbox
      \/ \E c \in Call : inbox' = Append(inbox, c) /\ AsksForPage(c)' /\ (c.op = "open" => ui.kind = "rowid")
  <2>1. SortCall(opGen, ui.committed).op = "sort"
    BY CallFields
  <2> QED
    BY <1>1, <2>1, OthersAskNothing DEF Posted, PageOps
<1> QED
  BY <1>1, <1>2, <1>3, <1>4, <1>5, <1>6, <1>7, PagesPosted DEF SamePlace

\* A page that could not be read.
LEMMA OnPageFailedPages ==
    ASSUME TypeOK, LoadsInv, OrderlyInv, PagesInv, OnPageFailed
    PROVE  PagesInv'
<1>1. /\ Receive("pageReady") /\ UNCHANGED <<viewGen, shown, counts>>
      /\ \/ ui.sorting /\ GoesBack
         \/ /\ SameLoad /\ SameOrder /\ ui'.firstPending = ui.firstPending
            /\ ui'.token = ui.token /\ ui'.pager = ui.pager /\ UNCHANGED <<opGen, inbox>>
  BY OnPageFailedFacts
<1>2. ui.paged /\ UNCHANGED <<rows, task, src, parked>> /\ EventsRead
  BY <1>1, ReceiveShape DEF EventsRead
<1>3. CASE ui.sorting /\ GoesBack
  BY <1>1, <1>2, <1>3, GoesBackPages
<1>4. CASE SameLoad /\ SameOrder /\ ui'.firstPending = ui.firstPending
           /\ ui'.token = ui.token /\ ui'.pager = ui.pager /\ UNCHANGED <<opGen, inbox>>
  <2>1. MayPost
    BY <1>1, AnswerMeansOpened
  <2>2. NoneLive
    BY <1>1, <1>4, QuietAnswered DEF OrderlyInv, ProtocolInv
  <2>3. SamePlace
    BY <1>4 DEF SamePlace, SameOrder
  <2>4. PlaceFits'
    BY <1>1, <1>2, <2>3, PlaceStays DEF PagesInv, PlaceFits
  <2> QED
    BY <1>2, <1>4, <2>1, <2>2, <2>4, PagesPosted
<1> QED
  BY <1>1, <1>3, <1>4

\* A sort that completes asks for the first page.
LEMMA OnSortCompletedPages ==
    ASSUME TypeOK, LoadsInv, OrderlyInv, PagesInv, OnSortCompleted
    PROVE  PagesInv'
<1>1. Receive("sortCompleted") /\ UNCHANGED <<viewGen, shown, counts>>
  BY OnSortCompletedFacts
<1>2. \/ ui.recovering /\ Recovered /\ inbox' = inbox /\ opGen' = opGen
      \/ ~ui.recovering /\ GoesBack
      \/ /\ Head(events).ok
         /\ SameLoad /\ SameOrder /\ ui'.firstPending = ui.firstPending /\ ui'.token = ui.token
         /\ ui'.pager = [ui.pager EXCEPT !.total = Head(events).total]
         /\ ui'.pendingPage = 1 /\ ~ui'.pendingFromPrev
         /\ opGen' = opGen
         /\ inbox' = Append(inbox, PageCall("first", opGen, NoToken, NoTotal))
         /\ Posted(PageCall("first", opGen, NoToken, NoTotal))
  BY OnSortCompletedFacts
<1>3. ui.paged /\ UNCHANGED <<rows, task, src, parked>> /\ EventsRead
  BY <1>1, ReceiveShape DEF EventsRead
<1>4. SignalFits(Head(events)) /\ Head(events).sig = "sortCompleted"
  BY <1>1, AnswerFits DEF OrderlyInv
<1>5. ui.sorting /\ (Head(events).ok => Head(events).total \in Nat)
  BY <1>4 DEF SignalFits
<1>6. MayPost
  BY <1>1, AnswerMeansOpened
<1>7. CASE ui.recovering /\ Recovered /\ inbox' = inbox /\ opGen' = opGen
  <2>1. NoneLive
    BY <1>1, <1>7, QuietAnswered DEF OrderlyInv, ProtocolInv
  <2>2. SamePlace /\ SameLoad
    BY <1>7 DEF SamePlace, Recovered
  <2>3. PlaceFits'
    BY <1>1, <1>3, <2>2, PlaceStays DEF PagesInv, PlaceFits
  <2> QED
    BY <1>3, <1>6, <1>7, <2>1, <2>2, <2>3, PagesPosted
<1>8. CASE ~ui.recovering /\ GoesBack
  BY <1>1, <1>3, <1>5, <1>8, GoesBackPages
<1>9. ASSUME Head(events).ok, SameLoad, SameOrder, ui'.firstPending = ui.firstPending,
             ui'.token = ui.token, ui'.pager = [ui.pager EXCEPT !.total = Head(events).total],
             ui'.pendingPage = 1, ~ui'.pendingFromPrev, opGen' = opGen,
             inbox' = Append(inbox, PageCall("first", opGen, NoToken, NoTotal)),
             Posted(PageCall("first", opGen, NoToken, NoTotal))
      PROVE  PagesInv'
  <2>1. NoneLive
    BY <1>1, <1>9, QuietAnswered DEF OrderlyInv, ProtocolInv
  <2>2. ui'.pager.page = ui.pager.page /\ ui'.pager.total # NoTotal /\ ui.pager.page \in Nat
    BY <1>5, <1>9, StateTypes DEF Pager, NoTotal
  <2>3. SamePlace
    BY <1>9, <2>2 DEF SamePlace, SameOrder
  <2>4. PlaceFits'
    BY <1>1, <1>3, <2>3, PlaceStays DEF PagesInv, PlaceFits
  <2>5. PICK c \in Call : c.op = "first" /\ inbox' = Append(inbox, c)
    <3>1. PageCall("first", opGen, NoToken, NoTotal).op = "first"
      BY CallFields
    <3> QED
      BY <1>9, <3>1 DEF Posted
  <2>6. ui'.sorting /\ ui'.pager.page > 0
    BY <1>3, <1>5, <1>9, <2>2 DEF SameOrder, PagesInv
  <2>7. AsksForPage(c)'
    BY <1>9, <2>2, <2>5, <2>6 DEF AsksForPage, Reachable
  <2> QED
    BY <1>3, <1>6, <1>9, <2>1, <2>4, <2>5, <2>7, PagesPosted
<1> QED
  BY <1>2, <1>7, <1>8, <1>9

\* Before the first page there is nothing on display and no token.
LEMMA NothingYet ==
    ASSUME TypeOK, FieldsInv, PlaceFits, UNCHANGED shown, SameLoad,
           ui.firstPending, ui'.firstPending, ui'.token = ui.token, ui'.pager.page = 1
    PROVE  PlaceFits'
<1>1. ui'.token = NoToken /\ ~ui'.token.valid
  BY DEF PlaceFits, NoToken
<1>2. ~OnDisplay'
  BY DEF FieldsInv, OnDisplay, SameLoad
<1> QED
  BY <1>1, <1>2 DEF PlaceFits, TokenFits, DisplayFits

\* open() has returned: the first page is asked for.
LEMMA OnOpenedPages ==
    ASSUME TypeOK, LoadsInv, OrderlyInv, PagesInv, OnOpened
    PROVE  PagesInv'
<1>1. /\ Receive("openCompleted") /\ ~ui.recovering
      /\ SameLoad /\ SameOrder /\ ui'.token = ui.token /\ ui'.firstPending = ui.firstPending
      /\ ui'.pendingPage = 1 /\ ~ui'.pendingFromPrev /\ ui'.pager.page = 1
      /\ UNCHANGED <<viewGen, opGen, shown, counts>>
      /\ inbox' = Append(inbox, PageCall("first", opGen, NoToken, NoTotal))
      /\ Posted(PageCall("first", opGen, NoToken, NoTotal))
  BY OnOpenedFacts
<1>2. ui.paged /\ UNCHANGED <<rows, task, src, parked>>
  BY <1>1, ReceiveShape
<1>3. ui.firstPending /\ ~ui.sorting
  <2>1. SignalFits(Head(events)) /\ Head(events).sig = "openCompleted"
    BY <1>1, AnswerFits DEF OrderlyInv
  <2> QED
    BY <1>1, <2>1 DEF SignalFits, Opening
<1>4. MayPost
  BY <1>1, AnswerMeansOpened
<1>5. NoneLive
  BY <1>1, QuietAnswered DEF OrderlyInv, ProtocolInv
<1>6. PlaceFits'
  BY <1>1, <1>2, <1>3, NothingYet DEF PagesInv, PlaceFits, OrderlyInv, ProtocolInv
<1>7. PICK c \in Call : c.op = "first" /\ inbox' = Append(inbox, c)
  <2>1. PageCall("first", opGen, NoToken, NoTotal).op = "first"
    BY CallFields
  <2> QED
    BY <1>1, <2>1 DEF Posted
<1>8. AsksForPage(c)'
  BY <1>1, <1>3, <1>7 DEF AsksForPage, Reachable
<1> QED
  BY <1>1, <1>2, <1>4, <1>5, <1>6, <1>7, <1>8, PagesPosted

\* The answer that is read brings the page the fields wait for.
LEMMA AnswerBrings ==
    ASSUME TypeOK, LoadsInv, PagesInv, NEW sig, Receive(sig), sig # "indexProgress"
    PROVE  BringsPage(Head(events))
<1>1. /\ ui.paged /\ events # <<>> /\ events \in Seq(Event)
      /\ Head(events).sig = sig /\ Head(events).view = viewGen /\ Head(events).gen = opGen
  BY ReceiveShape, StateTypes
<1>2. 1 \in DOMAIN events /\ events[1] = Head(events)
  BY <1>1, QueueTail
<1>3. 1 \in LiveSignals
  BY <1>1, <1>2 DEF LiveSignals, IsLiveSignal
<1> QED
  BY <1>1, <1>2, <1>3 DEF PagesInv

\* Rows that fit a page are on it.
LEMMA RowsOnPage ==
    ASSUME TypeOK, NEW s \in Seq(Nat), NEW order \in Order, NEW p \in Nat \ {0}, RowsFit(s, order, p)
    PROVE  s # <<>> <=> Exists(p)
<1>1. PageOf(order, p) \in Seq(Nat) /\ (PageOf(order, p) # <<>> <=> Exists(p))
  BY RowsMeanPage
<1>2. CASE s = PageOf(order, p)
  BY <1>1, <1>2
<1>3. CASE s # <<>> /\ s = AtMost(PageOf(order, p), Len(s))
  <2>1. PageOf(order, p) = <<>> => Len(s) = 0
    <3>1. ASSUME PageOf(order, p) = <<>> PROVE Len(s) = 0
      <4>1. Len(PageOf(order, p)) = 0
        BY <3>1
      <4>2. AtMost(PageOf(order, p), Len(s)) = SubSeq(PageOf(order, p), 1, 0)
        BY <4>1 DEF AtMost
      <4> QED
        BY <1>1, <1>3, <4>2
    <3> QED
      BY <3>1
  <2> QED
    BY <1>1, <1>3, <2>1
<1> QED
  BY <1>2, <1>3 DEF RowsFit

\* The page arrives, and is put on display.
LEMMA OnPageReadyPages ==
    ASSUME TypeOK, LoadsInv, OrderlyInv, PagesInv, OnPageReady
    PROVE  PagesInv'
<1> DEFINE e == Head(events)
<1>1. /\ Receive("pageReady") /\ e.ok /\ ~Vanished(e)
      /\ SameLoad /\ ~ui'.firstPending /\ ui'.token = e.token
      /\ ui'.pager = Arrived(e).pager
      /\ ui.sorting /\ ~ui.recovering => ui'.committed = ui.pending
      /\ ~ui.sorting \/ ui.recovering => ui'.committed = ui.committed
      /\ shown' = [view |-> ui.gen, rows |-> e.rows]
      /\ UNCHANGED <<viewGen, opGen, inbox>>
  BY OnPageReadyFacts DEF SameOrder
<1>2. ui.paged /\ UNCHANGED <<rows, task, src, parked>> /\ events # <<>> /\ e.sig = "pageReady"
  BY <1>1, ReceiveShape
<1>3. e \in Event /\ e.rows \in Seq(Nat) /\ e.token \in Token
  BY <1>2, HeadType
<1>4. MayPost
  BY <1>1, AnswerMeansOpened
<1>5. NoneLive
  BY <1>1, QuietAnswered DEF OrderlyInv, ProtocolInv
<1>6. /\ Reachable
      /\ ui.pendingPage = 1 \/ Exists(ui.pendingPage) \/ (ui.kind = "csv" /\ ~ui.firstPending)
      /\ RowsFit(e.rows, Wanted, ui.pendingPage)
      /\ TokenFits(e.token, Wanted, ui.pendingPage)
      /\ MoreFits(e.hasMore \/ ui.pendingFromPrev, ui.pendingPage)
  <2>1. BringsPage(e)
    BY <1>1, AnswerBrings
  <2> HIDE DEF e
  <2> QED
    BY <1>1, <1>2, <2>1 DEF BringsPage
<1>7. ui'.committed = Wanted /\ Wanted \in Order
  BY <1>1, StateTypes DEF Wanted
<1>8. /\ ui'.pager.page = ui.pendingPage /\ ui'.pager.fromPrev = ui.pendingFromPrev
      /\ ui'.pager.total = ui.pager.total
      /\ ui.pager.total = NoTotal => ui'.pager.hasMore = e.hasMore
  <2>1. Arrived(e).pager = [ui.pager EXCEPT !.page = ui.pendingPage, !.fromPrev = ui.pendingFromPrev,
                                           !.hasMore = IF ui.pager.total # NoTotal
                                                       THEN ui.pager.total > ui.pendingPage * PageSize
                                                       ELSE e.hasMore]
    BY <1>3, StateTypes, ArrivedFields
  <2> HIDE DEF e
  <2> QED
    BY <1>1, <2>1, StateTypes DEF Pager
<1> HIDE DEF e
<1>9. ui.pendingPage \in Nat \ {0}
  BY <1>6, StateTypes DEF Reachable
<1>10. ui.pendingPage = 1 \/ Exists(ui.pendingPage)
  <2>1. CASE ui.kind = "csv" /\ ~ui.firstPending
    <3>1. ~ui.sorting
      BY <2>1 DEF OrderlyInv, ProtocolInv, FieldsInv
    <3>2. e.rows # <<>>
      BY <1>1, <2>1, <3>1 DEF Vanished
    <3> QED
      BY <1>3, <1>6, <1>7, <1>9, <3>2, RowsOnPage
  <2> QED
    BY <1>6, <2>1
<1>11. /\ ui'.kind = ui.kind /\ RowCount' = RowCount /\ src' = src
       /\ \A order, page : PageOf(order, page)' = PageOf(order, page)
  BY <1>1, <1>2 DEF SameLoad, RowCount, PageOf
<1>12. TokenFits(ui.token, ui.committed, ui.pager.page)'
  BY <1>1, <1>6, <1>7, <1>8, <1>11 DEF TokenFits
<1>13. DisplayFits'
  <2>1. shown'.rows = e.rows
    BY <1>1
  <2>2. RowsFit(shown.rows, ui.committed, ui.pager.page)'
    BY <1>6, <1>7, <1>8, <1>11, <2>1 DEF RowsFit
  <2>3. (ui.pager.page = 1 \/ Exists(ui.pager.page))'
    BY <1>8, <1>10, <1>11 DEF Exists
  <2>4. ui'.pager.total = NoTotal => MoreFits(ui.pager.hasMore \/ ui.pager.fromPrev, ui.pager.page)'
    BY <1>6, <1>8, <1>11 DEF MoreFits, Followed
  <2> QED
    BY <2>2, <2>3, <2>4 DEF DisplayFits
<1>14. PlaceFits'
  BY <1>1, <1>8, <1>9, <1>12, <1>13 DEF PlaceFits
<1> QED
  BY <1>1, <1>2, <1>4, <1>5, <1>14, PagesPosted

\* A page that is no longer there, in a table nobody writes to: it is the end
\* of a file, and no rows follow the page on display.
LEMMA OnPageVanishedPages ==
    ASSUME TypeOK, LoadsInv, OrderlyInv, PagesInv, OnPageVanished
    PROVE  PagesInv'
<1> DEFINE e == Head(events)
<1>1. /\ Receive("pageReady") /\ Vanished(e)
      /\ SameLoad /\ SameOrder /\ ui'.firstPending = ui.firstPending /\ ui'.token = ui.token
      /\ ui'.pager = [ui.pager EXCEPT !.hasMore = FALSE]
      /\ UNCHANGED <<viewGen, opGen, inbox, shown>>
  BY OnPageVanishedFacts
<1>2. ui.paged /\ UNCHANGED <<rows, task, src, parked>> /\ events # <<>> /\ e.sig = "pageReady"
  BY <1>1, ReceiveShape
<1>3. e \in Event /\ e.rows \in Seq(Nat)
  BY <1>2, HeadType
<1>4. MayPost
  BY <1>1, AnswerMeansOpened
<1>5. NoneLive
  BY <1>1, QuietAnswered DEF OrderlyInv, ProtocolInv
<1>6. e.ok /\ ~ui.firstPending /\ ~ui.sorting /\ e.rows = <<>>
  BY <1>1 DEF Vanished
<1>7. Reachable /\ RowsFit(e.rows, Wanted, ui.pendingPage)
  <2>1. BringsPage(e)
    BY <1>1, AnswerBrings
  <2> HIDE DEF e
  <2> QED
    BY <1>2, <1>6, <2>1 DEF BringsPage
<1> HIDE DEF e
<1>8. ui.pendingPage \in Nat \ {0} /\ ui.pager.page \in Nat \ {0} /\ Wanted \in Order
  BY <1>2, <1>7, StateTypes DEF Reachable, Wanted, PagesInv
<1>9. ~Exists(ui.pendingPage)
  BY <1>3, <1>6, <1>7, <1>8, RowsOnPage
<1>10. ui.kind = "csv"
  BY <1>6, <1>7, <1>9 DEF Reachable
<1>11. ~Followed(ui.pager.page)
  <2>1. ui.pendingPage <= ui.pager.page + 1
    BY <1>7, <1>9 DEF Reachable
  <2>2. ui.pager.page + 1 \in Nat \ {0}
    BY <1>8
  <2>3. ~Exists(ui.pager.page + 1)
    BY <1>8, <1>9, <2>1, <2>2, EarlierPages
  <2> QED
    BY <1>8, <2>3, EarlierPages
<1>12. /\ ui'.pager.page = ui.pager.page /\ ui'.kind = ui.kind
       /\ ui'.token = ui.token /\ ui'.committed = ui.committed /\ ui'.firstPending = ui.firstPending
  BY <1>1, StateTypes DEF SameOrder, SameLoad, Pager
<1>13. /\ RowCount' = RowCount /\ src' = src
       /\ \A order, page : PageOf(order, page)' = PageOf(order, page)
  BY <1>2 DEF RowCount, PageOf
<1>14. PlaceFits
  BY <1>2 DEF PagesInv, PlaceFits
<1>15. TokenFits(ui.token, ui.committed, ui.pager.page)'
  BY <1>12, <1>13, <1>14 DEF PlaceFits, TokenFits
<1>16. DisplayFits'
  <2>1. OnDisplay' <=> OnDisplay
    BY <1>1 DEF OnDisplay, SameLoad
  <2>2. OnDisplay /\ RowsFit(shown.rows, ui.committed, ui.pager.page)
        => RowsFit(shown.rows, ui.committed, ui.pager.page)'
    BY <1>1, <1>12, <1>13 DEF RowsFit
  <2>3. Exists(ui.pager.page)' <=> Exists(ui.pager.page)
    BY <1>12, <1>13 DEF Exists
  <2>4. \A more : MoreFits(more, ui.pager.page)'
    BY <1>10, <1>11, <1>12, <1>13 DEF MoreFits, Followed
  <2> QED
    BY <1>12, <1>14, <2>1, <2>2, <2>3, <2>4 DEF DisplayFits, PlaceFits
<1>17. PlaceFits'
  BY <1>12, <1>14, <1>15, <1>16 DEF PlaceFits
<1> QED
  BY <1>1, <1>2, <1>4, <1>5, <1>17, PagesPosted

\* The pages around the one on display.
LEMMA TurnedPage ==
    ASSUME TypeOK, LoadsInv, OrderlyInv, TotalsInv, PagesInv, TurnPage,
           NEW op \in PageOps, NEW page \in Nat, NEW fromPrev \in BOOLEAN, NEW total \in Total,
           TurnsTo(op, page, fromPrev, total)
    PROVE  /\ page > 0
           /\ page <= ui.pager.page + 1 \/ Exists(page)
           /\ ~ui.firstPending /\ ui.kind # "csv" => Exists(page)
           /\ op = "last" => total = RowCount /\ RowCount > 0 /\ page = PageCount(RowCount)
<1> DEFINE p == ui.pager.page
<1>1. ui.paged /\ p \in Nat \ {0} /\ ui.pager.total \in Total
  <2>1. ui.paged
    BY TurnPageFacts
  <2> QED
    BY <2>1, StateTypes DEF PagesInv
<1>2. RowCount \in Nat /\ (ui.pager.total # NoTotal => ui.pager.total = RowCount)
  BY <1>1, RowsFinite, StateTypes DEF TotalsInv, RowCount
<1>3. ui.firstPending => p = 1
  BY <1>1 DEF PagesInv
<1>4. ~ui.firstPending => /\ p = 1 \/ Exists(p)
                          /\ ui.pager.total = NoTotal =>
                                MoreFits(ui.pager.hasMore \/ ui.pager.fromPrev, p)
  <2>1. ~ui.firstPending => OnDisplay
    BY <1>1 DEF OrderlyInv, ProtocolInv, FieldsInv, OnDisplay
  <2> QED
    BY <1>1, <2>1 DEF PagesInv, DisplayFits
<1> HIDE DEF p
<1>5. 1 \in Nat \ {0} /\ p + 1 \in Nat \ {0}
  BY <1>1
<1>6. CASE op = "first"
  <2>1. page = 1 /\ p > 1
    BY <1>6 DEF TurnsTo, CanFirst, p
  <2>2. Exists(p)
    BY <1>1, <1>3, <1>4, <2>1
  <2>3. Exists(1)
    BY <1>1, <1>5, <2>1, <2>2, EarlierPages
  <2> QED
    BY <1>6, <2>1, <2>3
<1>7. CASE op = "prev"
  <2>1. page = p - 1 /\ p > 1
    BY <1>7 DEF TurnsTo, CanPrev, p
  <2>2. Exists(p)
    BY <1>1, <1>3, <1>4, <2>1
  <2>3. page \in Nat \ {0} /\ page <= p
    BY <1>1, <2>1
  <2>4. Exists(page)
    BY <1>1, <2>2, <2>3, EarlierPages
  <2> QED
    BY <1>7, <2>3, <2>4
<1>8. CASE op = "next"
  <2>1. page = p + 1 /\ CanNext(ui.pager)
    BY <1>8 DEF TurnsTo, p
  <2>2. ASSUME ~ui.firstPending, ui.kind # "csv" PROVE Exists(page)
    <3>1. CASE ui.pager.total # NoTotal
      <4>1. p < PageCount(RowCount)
        BY <1>2, <2>1, <3>1 DEF CanNext, p
      <4>2. p * PageSize < RowCount
        BY <1>1, <1>2, <4>1, NextPageIffRowsFollow
      <4>3. Followed(p)
        BY <4>2 DEF Followed
      <4> QED
        BY <1>1, <2>1, <4>3, EarlierPages
    <3>2. CASE ui.pager.total = NoTotal
      <4>1. Followed(p)
        BY <1>4, <2>1, <2>2, <3>2 DEF CanNext, MoreFits
      <4> QED
        BY <1>1, <2>1, <4>1, EarlierPages
    <3> QED
      BY <3>1, <3>2
  <2> QED
    BY <1>1, <1>8, <2>1, <2>2 DEF p
<1>9. CASE op = "last"
  <2>1. total = RowCount /\ page = PageCount(RowCount) /\ p < PageCount(RowCount)
    BY <1>2, <1>9 DEF TurnsTo, CanLast, p
  <2>2. p * PageSize < RowCount
    BY <1>1, <1>2, <2>1, NextPageIffRowsFollow
  <2>3. RowCount > 0
    <3>1. Followed(p)
      BY <2>2 DEF Followed
    <3>2. Exists(p + 1)
      BY <1>1, <3>1, EarlierPages
    <3>3. Exists(1)
      BY <1>1, <1>5, <3>2, EarlierPages
    <3> QED
      BY <1>5, <3>3, EarlierPages
  <2>4. RowCount \in Nat \ {0}
    BY <1>2, <2>3
  <2>5. /\ PageCount(RowCount) \in Nat \ {0}
        /\ (PageCount(RowCount) - 1) * PageSize = RowCount - LastPageSize(RowCount)
        /\ LastPageSize(RowCount) \in 1..PageSize /\ LastPageSize(RowCount) <= RowCount
    BY <2>4, LastOffset
  <2>6. Exists(page)
    <3> DEFINE o == (PageCount(RowCount) - 1) * PageSize
    <3>1. o = RowCount - LastPageSize(RowCount) /\ LastPageSize(RowCount) \in Int
          /\ LastPageSize(RowCount) > 0
      BY <2>5, PageSizeAssumption
    <3> HIDE DEF o
    <3>2. o < RowCount
      BY <1>2, <3>1
    <3> QED
      BY <2>1, <3>2 DEF Exists, o
  <2> QED
    BY <1>9, <2>1, <2>3, <2>5, <2>6
<1> QED
  BY <1>6, <1>7, <1>8, <1>9 DEF PageOps

\* The user turns the page.
LEMMA TurnPagePages ==
    ASSUME TypeOK, LoadsInv, OrderlyInv, TotalsInv, PagesInv, TurnPage
    PROVE  PagesInv'
<1>1. /\ ui.paged /\ ~ui.sorting /\ opGen' = opGen + 1
      /\ UNCHANGED <<rows, viewGen, task, src, parked, events, shown, counts, countEvents>>
      /\ SameLoad
  BY TurnPageFacts
<1>2. PICK op \in PageOps, page \in Nat, fromPrev \in BOOLEAN, total \in Total :
        /\ TurnsTo(op, page, fromPrev, total)
        /\ ui' = [ui EXCEPT !.inFlight = TRUE, !.busy = TRUE,
                            !.pendingPage = page, !.pendingFromPrev = fromPrev]
        /\ inbox' = Append(inbox, PageCall(op, opGen', ui.token, total))
        /\ Posted(PageCall(op, opGen', ui.token, total))
  BY TurnPageFacts
<1>3. /\ ui'.pendingPage = page /\ ui'.pendingFromPrev = fromPrev /\ ui'.sorting = ui.sorting
      /\ ui'.token = ui.token /\ ui'.pager = ui.pager /\ ui'.firstPending = ui.firstPending
      /\ ui'.committed = ui.committed /\ ui'.kind = ui.kind
  BY <1>2, StateTypes DEF Viewer
<1>4. NoneLive
  BY <1>1, QuietReplaced DEF OrderlyInv, ProtocolInv, EventsRead
<1>5. PlaceFits'
  <2>1. SamePlace
    BY <1>1, <1>3 DEF SamePlace
  <2> QED
    BY <1>1, <2>1, PlaceStays DEF PagesInv, PlaceFits
<1>6. MayPost
  <2>1. ui.pager # FreshPager
    BY <1>2 DEF TurnsTo, CanFirst, CanPrev, CanNext, CanLast, FreshPager, NoTotal
  <2> QED
    BY <1>1, <2>1 DEF PagesInv, OpensOnce, MayPost
<1>7. PICK c \in Call : /\ c.op = op /\ c.token = ui.token /\ c.total = total
                        /\ inbox' = Append(inbox, c)
  <2>1. /\ PageCall(op, opGen', ui.token, total).op = op
        /\ PageCall(op, opGen', ui.token, total).token = ui.token
        /\ PageCall(op, opGen', ui.token, total).total = total
    BY CallFields
  <2> QED
    BY <1>2, <2>1 DEF Posted
<1>8. /\ page > 0
      /\ page <= ui.pager.page + 1 \/ Exists(page)
      /\ ~ui.firstPending /\ ui.kind # "csv" => Exists(page)
      /\ op = "last" => total = RowCount /\ RowCount > 0 /\ page = PageCount(RowCount)
  BY <1>2, TurnedPage
<1>9. RowCount' = RowCount
  BY <1>1 DEF RowCount
<1>10. Reachable'
  BY <1>1, <1>3, <1>8, <1>9 DEF Reachable, Exists
<1>11. AsksForPage(c)'
  BY <1>1, <1>2, <1>3, <1>7, <1>8, <1>9, <1>10 DEF AsksForPage, TurnsTo
<1>12. c.op # "open"
  BY <1>7 DEF PageOps
<1> QED
  BY <1>1, <1>4, <1>5, <1>6, <1>7, <1>11, <1>12, PagesPosted

\* What a call asks for and a signal brings, where no field that matters moves.
LEMMA AsksKept ==
    ASSUME SameUi, rows' = rows, ui.kind = "csv" /\ src.failed => src'.failed
    PROVE  /\ \A c : AsksForPage(c) => AsksForPage(c)'
           /\ \A e : BringsPage(e) => BringsPage(e)'
<1>1. /\ ui'.kind = ui.kind /\ ui'.token = ui.token /\ ui'.committed = ui.committed
      /\ ui'.pending = ui.pending /\ ui'.sorting = ui.sorting /\ ui'.recovering = ui.recovering
      /\ ui'.pendingPage = ui.pendingPage /\ ui'.pendingFromPrev = ui.pendingFromPrev
      /\ ui'.firstPending = ui.firstPending /\ ui'.pager.page = ui.pager.page
  BY DEF SameUi, SameLoad
<1>2. /\ RowCount' = RowCount /\ Wanted' = Wanted
      /\ \A order, page : PageOf(order, page)' = PageOf(order, page)
  BY <1>1 DEF RowCount, Wanted, PageOf
<1>3. /\ \A page : Exists(page)' <=> Exists(page)
      /\ \A more, page : MoreFits(more, page)' <=> MoreFits(more, page)
      /\ \A token, order, page : TokenFits(token, order, page)' <=> TokenFits(token, order, page)
      /\ \A s, order, page : RowsFit(s, order, page) => RowsFit(s, order, page)'
  BY <1>1, <1>2 DEF Exists, MoreFits, Followed, TokenFits, RowsFit
<1>4. Reachable' <=> Reachable
  BY <1>1, <1>2, <1>3 DEF Reachable, Exists
<1>5. ASSUME NEW c, AsksForPage(c) PROVE AsksForPage(c)'
  BY <1>1, <1>2, <1>4, <1>5 DEF AsksForPage
<1>6. ASSUME NEW e, BringsPage(e) PROVE BringsPage(e)'
  <2>1. SUFFICES ASSUME e.sig = "pageReady" /\ e.ok PROVE BringsPage(e)'
    BY DEF BringsPage
  <2>2. /\ Reachable
        /\ ui.pendingPage = 1 \/ Exists(ui.pendingPage) \/ (ui.kind = "csv" /\ ~ui.firstPending)
        /\ RowsFit(e.rows, Wanted, ui.pendingPage)
        /\ TokenFits(e.token, Wanted, ui.pendingPage)
        /\ MoreFits(e.hasMore \/ ui.pendingFromPrev, ui.pendingPage)
    BY <1>6, <2>1 DEF BringsPage
  <2>3. (ui.pendingPage = 1 \/ Exists(ui.pendingPage) \/ (ui.kind = "csv" /\ ~ui.firstPending))'
    BY <1>1, <1>2, <2>2 DEF Exists
  <2>4. RowsFit(e.rows, Wanted, ui.pendingPage)'
    BY <1>1, <1>2, <2>2 DEF RowsFit
  <2>5. TokenFits(e.token, Wanted, ui.pendingPage)'
    BY <1>1, <1>2, <2>2 DEF TokenFits
  <2>6. MoreFits(e.hasMore \/ ui.pendingFromPrev, ui.pendingPage)'
    BY <1>1, <1>2, <2>2 DEF MoreFits, Followed
  <2> QED
    BY <1>4, <2>2, <2>3, <2>4, <2>5, <2>6 DEF BringsPage
<1> QED
  BY <1>5, <1>6

\* What the pager learns from an index, a count or the user's clicks.
LEMMA AsidePager ==
    ASSUME TypeOK, LoadsInv, TotalsInv, Aside, ui.paged
    PROVE  \/ ui'.pager = ui.pager
           \/ Receive("indexProgress") /\ ui'.pager.total = RowCount
           \/ /\ countEvents # <<>> /\ Head(countEvents).view = viewGen
              /\ ui'.pager.total = RowCount
<1>1. CASE OnIndexProgress
  <2>1. Receive("indexProgress") /\ Head(events).ok \in BOOLEAN
    BY <1>1, HeadType DEF OnIndexProgress, Receive
  <2>2. \/ \E status : ui' = [ui EXCEPT !.status = status]
        \/ /\ Head(events).ok /\ Head(events).complete
           /\ ui' = Indexed(ui, Head(events).total)
    BY <1>1, <2>1 DEF OnIndexProgress
  <2>3. Head(events).ok /\ Head(events).complete => Head(events).total = RowCount
    BY <2>1, HeadExact DEF SignalExact
  <2>4. Indexed(ui, Head(events).total).pager.total = Head(events).total
    BY StateTypes DEF Indexed, Viewer, Pager
  <2>5. \A status : [ui EXCEPT !.status = status].pager = ui.pager
    BY StateTypes DEF Viewer
  <2> QED
    BY <2>1, <2>2, <2>3, <2>4, <2>5
<1>2. CASE OnCountCompleted
  <2>1. /\ countEvents # <<>>
        /\ \/ ui' = ui
           \/ \E status : ui' = [ui EXCEPT !.countFailed = TRUE, !.status = status]
           \/ /\ Head(countEvents).view = ui.gen /\ Head(countEvents).ok
              /\ ui' = Counted(ui, Head(countEvents).total)
    BY <1>2 DEF OnCountCompleted
  <2>2. 1 \in DOMAIN countEvents /\ Head(countEvents) = countEvents[1]
    BY <2>1, StateTypes, QueueTail
  <2>3. CountExact(Head(countEvents))
    BY <2>2, TotalsParts
  <2>4. viewGen = ui.gen
    BY DEF LoadsInv
  <2>5. Head(countEvents).view = ui.gen /\ Head(countEvents).ok => Head(countEvents).total = RowCount
    BY <2>3, <2>4 DEF CountExact
  <2>6. Counted(ui, Head(countEvents).total).pager.total = Head(countEvents).total
    BY StateTypes DEF Counted, Viewer, Pager
  <2>7. \A status : [ui EXCEPT !.countFailed = TRUE, !.status = status].pager = ui.pager
    BY StateTypes DEF Viewer
  <2> QED
    BY <2>1, <2>4, <2>5, <2>6, <2>7
<1>3. CASE ~OnIndexProgress /\ ~OnCountCompleted
  <2>1. \/ ui' = ui
        \/ \E status : ui' = [ui EXCEPT !.status = status]
    BY <1>3 DEF Aside, ClickUnsortable, SelectCell, IgnoreStaleSignal, Count, DeleteRow,
                guiVars, vars, workerVars
  <2>2. \A status : [ui EXCEPT !.status = status].pager = ui.pager
    BY StateTypes DEF Viewer
  <2> QED
    BY <2>1, <2>2
<1> QED
  BY <1>1, <1>2, <1>3

\* None of it happens while the open() of a table without a rowid is awaited.
LEMMA AsideOpens ==
    ASSUME TypeOK, LoadsInv, TotalsInv, PagesInv, Aside, ui.paged, OpensOnce
    PROVE  OpensOnce'
<1>1. SameUi /\ UNCHANGED <<viewGen, opGen, inbox, task, src, parked, shown>>
  BY AsideFacts
<1>2. CASE MayPost
  BY <1>1, <1>2, StillOpened DEF SameUi, SameLoad
<1>3. CASE ~MayPost
  <2>1. /\ ui.firstPending /\ ui.pager = FreshPager /\ counts = <<>>
        /\ IF task.op = "open" THEN inbox = <<>> ELSE Len(inbox) = 1
        /\ src.kind = "none" /\ parked = NoCall
        /\ \A i \in DOMAIN events : events[i].view # viewGen
        /\ \A i \in DOMAIN countEvents : countEvents[i].view # viewGen
    BY <1>3 DEF OpensOnce, MayPost
  <2>2. ~Receive("indexProgress")
    BY <1>3, AnswerMeansOpened
  <2>3. countEvents # <<>> => Head(countEvents).view # viewGen
    <3>1. countEvents # <<>> => 1 \in DOMAIN countEvents /\ Head(countEvents) = countEvents[1]
      BY StateTypes, QueueTail
    <3> QED
      BY <2>1, <3>1
  <2>4. ui'.pager = FreshPager
    BY <2>1, <2>2, <2>3, AsidePager
  <2>5. ~Count
    BY <2>1 DEF Count
  <2>6. /\ counts' = counts /\ EventsRead
        /\ countEvents' = countEvents \/ (countEvents # <<>> /\ countEvents' = Tail(countEvents))
    BY <2>5 DEF Aside, ClickUnsortable, SelectCell, IgnoreStaleSignal, OnIndexProgress, Receive,
                OnCountCompleted, DeleteRow, guiVars, vars, workerVars, EventsRead
  <2>7. \A i \in DOMAIN events' : events'[i].view # viewGen
    BY <2>1, <2>6, ReadFromFront
  <2>8. \A i \in DOMAIN countEvents' : countEvents'[i].view # viewGen
    <3>1. ASSUME countEvents # <<>>, countEvents' = Tail(countEvents)
          PROVE  \A i \in DOMAIN countEvents' : countEvents'[i].view # viewGen
      <4>1. \A i \in DOMAIN Tail(countEvents) :
               i + 1 \in DOMAIN countEvents /\ Tail(countEvents)[i] = countEvents[i + 1]
        BY <3>1, StateTypes, QueueTail
      <4> QED
        BY <2>1, <3>1, <4>1
    <3> QED
      BY <2>1, <2>6, <3>1
  <2> QED
    BY <1>1, <2>1, <2>4, <2>6, <2>7, <2>8 DEF OpensOnce, SameUi
<1> QED
  BY <1>2, <1>3

\* What none of the calls and signals of a page turn or a sort is about.
LEMMA AsidePages ==
    ASSUME TypeOK, LoadsInv, TotalsInv, PagesInv, Aside, rows' = rows
    PROVE  PagesInv'
<1>1. SameUi /\ UNCHANGED <<viewGen, opGen, inbox, task, src, parked, shown>>
  BY AsideFacts
<1>2. ui'.paged = ui.paged
  BY <1>1 DEF SameUi, SameLoad
<1>3. SUFFICES ASSUME ui.paged PROVE PagesInv'
  BY <1>2 DEF PagesInv
<1>4. TableFits /\ PlaceFits /\ CallsAsk /\ SignalsBring /\ OpensOnce
  BY <1>3, PagesParts
<1>5. TableFits'
  BY <1>1, <1>4 DEF TableFits, RowCount, SameUi, SameLoad
<1>6. SamePlace
  <2>1. RowCount # NoTotal
    BY RowsFinite, StateTypes DEF RowCount, NoTotal
  <2> QED
    BY <1>1, <1>3, <2>1, AsidePager DEF SamePlace, SameUi
<1>7. PlaceFits'
  BY <1>1, <1>4, <1>6, PlaceStays
<1>8. /\ \A c : AsksForPage(c) => AsksForPage(c)'
      /\ \A e : BringsPage(e) => BringsPage(e)'
  BY <1>1, AsksKept
<1>9. CallsAsk'
  <2>1. LiveCalls' = LiveCalls /\ (IsLive(parked)' <=> IsLive(parked))
    BY <1>1 DEF LiveCalls, IsLive, IsStale
  <2>2. \A i \in LiveCalls : AsksForPage(inbox[i])'
    <3>1. \A i \in LiveCalls : \A c : c = inbox[i] => AsksForPage(c)'
      BY <1>4, <1>8 DEF CallsAsk
    <3> QED
      BY <1>1, <3>1 DEF AsksForPage
  <2>3. IsLive(parked) => AsksForPage(parked)'
    <3>1. \A c : IsLive(parked) /\ c = parked => AsksForPage(c)'
      BY <1>4, <1>8 DEF CallsAsk
    <3> QED
      BY <1>1, <3>1 DEF AsksForPage
  <2> QED
    BY <2>1, <2>2, <2>3 DEF CallsAsk
<1>10. SignalsBring'
  <2>1. EventsRead
    BY DEF Aside, ClickUnsortable, SelectCell, IgnoreStaleSignal, OnIndexProgress, Receive,
           Count, OnCountCompleted, DeleteRow, vars, workerVars, EventsRead
  <2>2. \A i \in DOMAIN events' : \E j \in DOMAIN events : events'[i] = events[j]
    BY <2>1, ReadFromFront
  <2>3. \A i \in LiveSignals' : \E j \in LiveSignals : events'[i] = events[j]
    BY <1>1, <2>2 DEF LiveSignals, IsLiveSignal
  <2>4. \A i \in LiveSignals' : \A e : e = events'[i] => BringsPage(e)'
    BY <1>4, <1>8, <2>3 DEF SignalsBring
  <2>5. \A i \in LiveSignals' : BringsPage(events[i])'
    BY <2>4 DEF BringsPage
  <2> QED
    BY <2>5 DEF SignalsBring
<1>11. OpensOnce'
  BY <1>3, <1>4, AsideOpens
<1> QED
  BY <1>5, <1>7, <1>9, <1>10, <1>11, <1>3 DEF PagesInv, TableFits, PlaceFits, CallsAsk, SignalsBring

\* Another table: nothing is shown of it yet, and only its open() is queued.
LEMMA LoadPages ==
    ASSUME TypeOK, LoadsInv, LoadSelectedTable
    PROVE  PagesInv'
<1>1. /\ WasReset /\ ui'.paged /\ ui'.firstPending /\ ui'.kind \in Kinds
      /\ viewGen' = ui.gen + 1 /\ opGen' = 1
      /\ inbox' = <<NewCall("open", viewGen', 1, ui'.kind)>>
      /\ task' = NoCall /\ src' = NoSource /\ parked' = NoCall
      /\ rows' \in Tables /\ shown' = NothingShown /\ counts' = <<>>
      /\ UNCHANGED <<events, countEvents>>
  BY LoadFacts
<1>2. viewGen = ui.gen /\ ui.gen \in Nat /\ viewGen' = viewGen + 1
  BY <1>1, StateTypes DEF LoadsInv
<1>3. inbox'[1].op = "open" /\ DOMAIN inbox' = {1} /\ Len(inbox') = 1
  BY <1>1 DEF NewCall
<1>4. NoCall.op = "shutdown"
  BY NoCallType
<1>5. \A i \in DOMAIN events' : events'[i].view # viewGen'
  <2>1. \A i \in DOMAIN events : events[i].view \in Nat /\ events[i].view <= viewGen
    BY AllNumbers DEF LoadsInv, Past
  <2> QED
    BY <1>1, <1>2, <2>1
<1>6. \A i \in DOMAIN countEvents' : countEvents'[i].view # viewGen'
  <2>1. \A i \in DOMAIN countEvents : countEvents[i].view \in Nat /\ countEvents[i].view <= viewGen
    BY CountTypes, AllNumbers DEF LoadsInv, Past
  <2> QED
    BY <1>1, <1>2, <2>1
<1>7. TableFits'
  <2>1. src'.order = Unsorted
    BY <1>1 DEF NoSource, EmptySource
  <2>2. ui'.kind = "csv" => rows' = 1..Cardinality(rows')
    BY <1>1, ViewerAssumption
  <2> QED
    BY <2>1, <2>2 DEF TableFits, RowCount
<1>8. PlaceFits'
  <2>1. ui'.pager.page = 1 /\ ui'.token = NoToken /\ ~ui'.token.valid
    BY <1>1 DEF WasReset, FreshPager, NoToken
  <2>2. ~OnDisplay'
    BY <1>1, <1>2 DEF OnDisplay, WasReset, NothingShown
  <2> QED
    BY <2>1, <2>2 DEF PlaceFits, TokenFits, DisplayFits
<1>9. CallsAsk'
  <2>1. ~IsLive(parked)'
    BY <1>1, <1>4 DEF IsLive, Requests, PageOps
  <2>2. \A i \in LiveCalls' : inbox'[i].op = "open"
    BY <1>3 DEF LiveCalls
  <2>3. \A i \in LiveCalls' : AsksForPage(inbox[i])'
    BY <2>2 DEF AsksForPage, PageOps
  <2> QED
    BY <2>1, <2>3 DEF CallsAsk
<1>10. SignalsBring'
  BY <1>5 DEF SignalsBring, LiveSignals, IsLiveSignal
<1>11. OpensOnce'
  <2>1. ui'.pager = FreshPager /\ src'.kind = "none" /\ task'.op # "open"
    BY <1>1, <1>4 DEF WasReset, NoSource, EmptySource
  <2> QED
    BY <1>1, <1>3, <1>5, <1>6, <2>1 DEF OpensOnce
<1> QED
  BY <1>7, <1>8, <1>9, <1>10, <1>11 DEF PagesInv, TableFits, PlaceFits, CallsAsk, SignalsBring

\* A table that is left, or could not be opened, shows nothing.
LEMMA LeavePages ==
    ASSUME TypeOK, LeaveTable \/ OnOpenFailed
    PROVE  PagesInv'
<1>1. ~ui'.paged
  BY LeaveFacts
<1> QED
  BY <1>1 DEF PagesInv

\* Before the first load there is no table.
LEMMA PagesInit == Init => PagesInv
BY DEF Init, Reset, PagesInv

-----------------------------------------------------------------------------
(* The worker answers with the page that is asked for.                     *)

\* A page request that is served from what its source has become.
LEMMA ServedAsAsked ==
    ASSUME TypeOK, LoadsInv, OrderlyInv, TotalsInv, PagesInv, ui.paged,
           NEW c \in Call, c.op \in PageOps, CallFits(c), AsksForPage(c),
           ~Refused(c.op, c.token, c.total)
    PROVE  /\ AsksFor(ui.kind, Wanted, Ranked(rows, Wanted), c.op, c.token, c.total,
                      ui.pager.page, ui.pendingPage)
           /\ ui.pager.page \in Nat \ {0} /\ ui.pendingPage \in Nat \ {0} /\ Wanted \in Order
           /\ Wanted = IF c.op = "first" THEN Wanted ELSE ui.committed
           /\ ui.pendingPage = 1 \/ Exists(ui.pendingPage) \/ (ui.kind = "csv" /\ ~ui.firstPending)
           /\ c.op = "prev" => Followed(ui.pendingPage)
<1> DEFINE p == ui.pager.page
           want == ui.pendingPage
<1>1. /\ Reachable
      /\ c.op = "first" => want = 1
      /\ c.op = "next" => c.token = ui.token /\ want = p + 1
      /\ c.op = "prev" => c.token = ui.token /\ want = p - 1
      /\ c.op = "last" => c.total = RowCount /\ RowCount > 0 /\ want = PageCount(RowCount)
      /\ c.op # "first" => ~ui.sorting
  BY DEF AsksForPage
<1>2. p \in Nat \ {0} /\ want \in Nat \ {0} /\ Wanted \in Order
  BY <1>1, StateTypes DEF PagesInv, Reachable, Wanted
<1>3. c.op # "first" => Wanted = ui.committed
  BY <1>1 DEF Wanted
<1>4. c.op \in {"next", "prev"} => c.token.valid
  BY DEF Refused
<1>5. c.op \in {"next", "prev"} => TokenMarks(ui.kind, Wanted, Ranked(rows, Wanted), c.token, p)
  <2>1. TokenFits(ui.token, ui.committed, p)
    BY DEF PagesInv
  <2>2. TokenMarks(ui.kind, ui.committed, Ranked(rows, ui.committed), ui.token, p)
    BY <2>1, PagesAreRuns
  <2> HIDE DEF p, want
  <2> QED
    BY <1>1, <1>3, <2>2
<1>6. Len(Ranked(rows, Wanted)) = RowCount
  BY <1>2, RowsMeanPage
<1>7. c.op = "prev" => p > 1
  BY <1>1, <1>2
<1>8. AsksFor(ui.kind, Wanted, Ranked(rows, Wanted), c.op, c.token, c.total, p, want)
  <2> HIDE DEF p, want
  <2> QED
    BY <1>1, <1>4, <1>5, <1>6, <1>7 DEF AsksFor
<1>9. c.op \in {"next", "prev"} => ~ui.firstPending
  <2>1. ui.firstPending => ~ui.token.valid
    BY DEF PagesInv, NoToken
  <2> QED
    BY <1>1, <1>4, <2>1
<1>10. c.op = "last" => Exists(want)
  <2>1. ASSUME c.op = "last" PROVE Exists(want)
    <3>1. RowCount \in Nat \ {0}
      BY <1>1, <2>1, RowsFinite, StateTypes DEF RowCount
    <3> DEFINE o == (PageCount(RowCount) - 1) * PageSize
    <3>2. o = RowCount - LastPageSize(RowCount) /\ LastPageSize(RowCount) \in 1..PageSize
          /\ PageSize \in Nat
      BY <3>1, LastOffset, PageSizeAssumption
    <3> HIDE DEF o
    <3>3. o < RowCount
      BY <3>1, <3>2
    <3> QED
      BY <1>1, <2>1, <3>3 DEF Exists, o
  <2> QED
    BY <2>1
<1>11. c.op = "prev" => Followed(want)
  <2>1. ASSUME c.op = "prev" PROVE Followed(want)
    <3>1. OnDisplay
      BY <1>9, <2>1 DEF OrderlyInv, ProtocolInv, FieldsInv, OnDisplay
    <3>2. Exists(p)
      BY <1>7, <2>1, <3>1 DEF PagesInv, DisplayFits
    <3>3. want < p /\ want <= p
      BY <1>1, <1>2, <2>1
    <3> HIDE DEF p, want
    <3> QED
      BY <1>2, <3>2, <3>3, EarlierPages
  <2> QED
    BY <2>1
<1>12. want = 1 \/ Exists(want) \/ (ui.kind = "csv" /\ ~ui.firstPending)
  <2>1. CASE c.op \in {"next", "prev"}
    BY <1>1, <1>9, <2>1 DEF Reachable
  <2> QED
    BY <1>1, <1>10, <2>1 DEF PageOps
<1> QED
  BY <1>2, <1>3, <1>8, <1>11, <1>12

\* A file looked at again can be served as far as before, or not at all.
LEMMA StillServed ==
    ASSUME NEW s \in Source, NEW c, Served(c, s)
    PROVE  Served(c, Verified(s))
<1> DEFINE start == StartOrdinal(c.op, c.token, c.total)
           t == Verified(s)
<1>1. /\ t.kind = s.kind /\ t.indexed = s.indexed /\ t.complete = s.complete
      /\ t.failed = s.failed /\ (s.changed => t.changed)
  BY VerifiedSame DEF SameSource
<1>2. s.kind = "csv" => Readiness(s, start) # "Pending"
  BY DEF Served
<1> HIDE DEF start, t
<1>3. t.kind = "csv" => Readiness(t, start) # "Pending"
  BY <1>1, <1>2 DEF Readiness
<1> QED
  BY <1>3 DEF Served, start, t

\* The page a source answers with, of a request the viewer waits for.
LEMMA AnswerAsWanted ==
    ASSUME TypeOK, LoadsInv, OrderlyInv, TotalsInv, PagesInv, ui.paged,
           NEW c \in Call, c.op \in PageOps, CallFits(c), AsksForPage(c),
           NEW t \in Source, t.kind = ui.kind, t.order = Wanted,
           t.order # Unsorted => t.kind = "rowid" /\ t.ordinals = Ranked(rows, t.order),
           t.kind = "csv" => t.indexed <= RowCount /\ (t.complete => t.indexed = RowCount),
           ~t.changed, Served(c, t),
           NEW page, page.ok, page = Fetch(t, rows, c.op, c.token, c.total)
    PROVE  /\ Reachable
           /\ ui.pendingPage = 1 \/ Exists(ui.pendingPage) \/ (ui.kind = "csv" /\ ~ui.firstPending)
           /\ \/ page.rows = PageOf(Wanted, ui.pendingPage)
              \/ /\ ui.kind = "csv" /\ t.failed /\ page.rows # <<>>
                 /\ page.rows = AtMost(PageOf(Wanted, ui.pendingPage), Len(page.rows))
           /\ TokenFits(page.token, Wanted, ui.pendingPage)
           /\ MoreFits(page.hasMore \/ ui.pendingFromPrev, ui.pendingPage)
<1> DEFINE want == ui.pendingPage
           p == ui.pager.page
           all == Ranked(rows, t.order)
<1>1. rows \in SUBSET Row /\ c.token \in Token /\ c.total \in Total /\ t.kind \in Kind
      /\ t.order \in Order /\ t.indexed \in Nat /\ t.complete \in BOOLEAN
  BY RowsFinite, StateTypes DEF Call, Source
<1>2. t.kind = "csv" => rows = 1..Cardinality(rows)
  BY DEF PagesInv, RowCount
<1>3. ~Refused(c.op, c.token, c.total) =>
         /\ AsksFor(t.kind, t.order, all, c.op, c.token, c.total, p, want)
         /\ p \in Nat \ {0} /\ want \in Nat \ {0}
         /\ want = 1 \/ Exists(want) \/ (ui.kind = "csv" /\ ~ui.firstPending)
         /\ c.op = "prev" => Followed(want)
  BY ServedAsAsked
<1>4. p \in Nat \ {0}
  BY StateTypes DEF PagesInv
<1>5. Cardinality(rows) = RowCount /\ Len(all) = RowCount
  <2>1. Wanted \in Order
    BY StateTypes DEF Wanted
  <2> QED
    BY <1>4, <2>1, RowsMeanPage DEF RowCount
<1>6. Reachable /\ (ui.pendingFromPrev <=> c.op = "prev")
  BY DEF AsksForPage
<1>7. PageIn(all, want) = PageOf(Wanted, want)
  BY PagesAreRuns
<1>8. TokenMarks(t.kind, t.order, all, page.token, want) => TokenFits(page.token, Wanted, want)
  BY PagesAreRuns
<1>9. Followed(want) <=> want * PageSize < Len(all)
  BY <1>5 DEF Followed
<1> HIDE DEF want, p, all
<1>10. /\ page.rows = PageIn(all, want) \/ Partly(t, all, want, page)
       /\ TokenMarks(t.kind, t.order, all, page.token, want)
       /\ want * PageSize < Len(all) => page.hasMore \/ c.op = "prev"
       /\ page.hasMore /\ c.op # "prev" /\ t.kind # "csv" => want * PageSize < Len(all)
       /\ ~Refused(c.op, c.token, c.total)
  BY <1>1, <1>2, <1>3, <1>4, <1>5, FetchShowsPage DEF all
<1>11. Partly(t, all, want, page) => t.failed
  <2>1. ASSUME Partly(t, all, want, page) PROVE t.failed
    <3>1. t.kind = "csv" /\ ~t.complete /\ t.indexed < want * PageSize
      BY <2>1 DEF Partly
    <3> DEFINE start == StartOrdinal(c.op, c.token, c.total)
    <3>2. Readiness(t, start) # "Pending"
      BY <3>1 DEF Served
    <3>3. start = Start(want) /\ want \in Nat \ {0}
      <4>1. t.order = Unsorted
        BY <3>1
      <4>2. AsksFor("csv", Unsorted, all, c.op, c.token, c.total, p, want)
        BY <1>3, <1>10, <3>1, <4>1
      <4>3. all \in Seq(Nat)
        BY <1>1, AllRows DEF all
      <4> QED
        BY <1>1, <1>4, <4>2, <4>3, StartIsWanted
    <3>4. want * PageSize = Start(want) + PageSize /\ Start(want) \in Nat /\ PageSize \in Nat
      BY <3>3, Offsets, PageSizeAssumption DEF Start
    <3> DEFINE o == want * PageSize
    <3> HIDE DEF start, o
    <3>5. t.indexed < start + PageSize
      BY <1>1, <3>1, <3>3, <3>4 DEF o
    <3>6. ~(t.indexed >= start + PageSize)
      BY <1>1, <3>3, <3>4, <3>5
    <3> QED
      BY <3>1, <3>2, <3>6 DEF Readiness
  <2> QED
    BY <2>1
<1>12. MoreFits(page.hasMore \/ ui.pendingFromPrev, want)
  <2>1. c.op = "prev" => Followed(want)
    BY <1>3, <1>10
  <2> QED
    BY <1>6, <1>9, <1>10, <2>1 DEF MoreFits
<1>13. \/ page.rows = PageOf(Wanted, want)
       \/ /\ ui.kind = "csv" /\ t.failed /\ page.rows # <<>>
          /\ page.rows = AtMost(PageOf(Wanted, want), Len(page.rows))
  BY <1>7, <1>10, <1>11 DEF Partly
<1> QED
  BY <1>3, <1>6, <1>8, <1>10, <1>12, <1>13 DEF want

\* The answer to a request the viewer waits for brings the page it waits for.
LEMMA AnswerBringsPage ==
    ASSUME TypeOK, TypeOK', LoadsInv, OrderlyInv, TotalsInv, TotalsInv', PagesInv, ui.paged,
           UNCHANGED <<ui, rows>>,
           NEW c \in Call, c.op \in PageOps, CallFits(c), AsksForPage(c),
           NEW s \in Source, SameSource(src, s), Served(c, s), src.kind # "none",
           NEW page \in Pages(c, s), page.ok => src' = Verified(s)
    PROVE  BringsPage(PageReady(c, page))'
<1>1. /\ PageReady(c, page).ok = page.ok /\ PageReady(c, page).rows = page.rows
      /\ PageReady(c, page).token = page.token /\ PageReady(c, page).hasMore = page.hasMore
  BY EventFields
<1>2. SUFFICES ASSUME page.ok PROVE BringsPage(PageReady(c, page))'
  BY <1>1 DEF BringsPage
<1> DEFINE t == Verified(s)
<1>3. s.open /\ page = Fetch(t, rows, c.op, c.token, c.total) /\ src' = t
  BY <1>2 DEF Pages, FailedPage
<1>4. /\ t \in Source /\ t.kind = src.kind /\ t.open /\ t.order = src.order
      /\ t.ordinals = src.ordinals /\ Served(c, t)
  BY <1>3, VerifiedSame, VerifiedType, StillServed, StateTypes DEF SameSource
<1>5. t.kind = ui.kind
  BY <1>4 DEF LoadsInv
<1>6. t.order = Wanted
  BY <1>4 DEF CallFits
<1>7. t.order # Unsorted => t.kind = "rowid" /\ t.ordinals = Ranked(rows, t.order)
  BY <1>4 DEF LoadsInv, PagesInv
<1>8. /\ ~t.changed
      /\ t.kind = "csv" => t.indexed <= RowCount /\ (t.complete => t.indexed = RowCount)
  <2> HIDE DEF t
  <2>1. src'.kind # "none" /\ src'.open /\ ui'.paged /\ Cardinality(rows') = RowCount
    BY <1>3, <1>4 DEF RowCount
  <2> QED
    BY <1>3, <2>1 DEF TotalsInv, RowCount
<1> HIDE DEF t
<1>9. /\ Reachable
      /\ ui.pendingPage = 1 \/ Exists(ui.pendingPage) \/ (ui.kind = "csv" /\ ~ui.firstPending)
      /\ \/ page.rows = PageOf(Wanted, ui.pendingPage)
         \/ /\ ui.kind = "csv" /\ t.failed /\ page.rows # <<>>
            /\ page.rows = AtMost(PageOf(Wanted, ui.pendingPage), Len(page.rows))
      /\ TokenFits(page.token, Wanted, ui.pendingPage)
      /\ MoreFits(page.hasMore \/ ui.pendingFromPrev, ui.pendingPage)
  BY <1>2, <1>3, <1>4, <1>5, <1>6, <1>7, <1>8, AnswerAsWanted
<1>10. /\ RowCount' = RowCount /\ Wanted' = Wanted
       /\ \A order, p : PageOf(order, p)' = PageOf(order, p)
  BY DEF RowCount, Wanted, PageOf
<1>11. /\ \A p : Exists(p)' <=> Exists(p)
       /\ \A more, p : MoreFits(more, p)' <=> MoreFits(more, p)
       /\ \A token, order, p : TokenFits(token, order, p)' <=> TokenFits(token, order, p)
       /\ Reachable' <=> Reachable
  BY <1>10 DEF Exists, MoreFits, Followed, TokenFits, Reachable
<1>12. RowsFit(page.rows, Wanted, ui.pendingPage)'
  BY <1>3, <1>9, <1>10 DEF RowsFit
<1>13. /\ TokenFits(page.token, Wanted, ui.pendingPage)'
       /\ MoreFits(page.hasMore \/ ui.pendingFromPrev, ui.pendingPage)'
       /\ Exists(ui.pendingPage)' <=> Exists(ui.pendingPage)
  BY <1>9, <1>10, <1>11
<1> DEFINE e == PageReady(c, page)
<1>14. /\ RowsFit(e.rows, Wanted, ui.pendingPage)' /\ TokenFits(e.token, Wanted, ui.pendingPage)'
       /\ MoreFits(e.hasMore \/ ui.pendingFromPrev, ui.pendingPage)'
  BY <1>1, <1>12, <1>13
<1> HIDE DEF e
<1>15. BringsPage(e)'
  BY <1>9, <1>11, <1>13, <1>14 DEF BringsPage
<1> QED
  BY <1>15 DEF e

-----------------------------------------------------------------------------
(* The steps of the worker keep PagesInv.                                  *)

\* What is queued after a step of the worker was queued before it, or is the
\* next slice of an index.
InboxKept ==
    \A i \in DOMAIN inbox' :
        (\E j \in DOMAIN inbox : inbox'[i] = inbox[j]) \/ inbox'[i].op = "slice"

\* A step of the worker, from what it leaves in the source and in the queues.
LEMMA WorkerPages ==
    ASSUME TypeOK, PagesInv, ui.paged, UNCHANGED <<rows, viewGen, opGen, ui, shown>>,
           TableFits', OpensOnce', InboxKept, ui.kind = "csv" /\ src.failed => src'.failed,
           \/ ~IsLive(parked)'
           \/ \E c \in Call : c = parked' /\ AsksForPage(c),
           \A i \in DOMAIN events' :
              \/ \E j \in DOMAIN events : events'[i] = events[j]
              \/ \E e : e = events'[i] /\ (IsLiveSignal(e) => BringsPage(e)')
    PROVE  PagesInv'
<1>1. TableFits /\ PlaceFits /\ CallsAsk /\ SignalsBring /\ OpensOnce
  BY PagesParts
<1>2. SamePlace /\ SameUi
  BY DEF SamePlace, SameUi, SameLoad
<1>3. PlaceFits'
  BY <1>1, <1>2, PlaceStays
<1>4. /\ \A c : AsksForPage(c) => AsksForPage(c)'
      /\ \A e : BringsPage(e) => BringsPage(e)'
  BY <1>2, AsksKept
<1>5. CallsAsk'
  <2>1. \A i \in LiveCalls' : \A c : c = inbox'[i] => AsksForPage(c)'
    <3>1. ASSUME NEW i \in LiveCalls', NEW c, c = inbox'[i] PROVE AsksForPage(c)'
      <4>1. i \in DOMAIN inbox' /\ IsLive(c)
        BY <3>1 DEF LiveCalls, IsLive, IsStale
      <4>2. c.op # "slice"
        BY <4>1 DEF IsLive, Requests, PageOps
      <4>3. PICK j \in DOMAIN inbox : c = inbox[j]
        BY <3>1, <4>1, <4>2 DEF InboxKept
      <4>4. j \in LiveCalls
        BY <4>1, <4>3 DEF LiveCalls
      <4>5. AsksForPage(c)
        BY <1>1, <4>3, <4>4 DEF CallsAsk
      <4> QED
        BY <1>4, <4>5
    <3> QED
      BY <3>1
  <2>2. \A i \in LiveCalls' : AsksForPage(inbox[i])'
    BY <2>1 DEF AsksForPage
  <2>3. IsLive(parked)' => AsksForPage(parked)'
    <3>1. ASSUME NEW c \in Call, c = parked', AsksForPage(c) PROVE AsksForPage(parked)'
      <4>1. AsksForPage(c)'
        BY <1>4, <3>1
      <4> QED
        BY <3>1, <4>1 DEF AsksForPage
    <3> QED
      BY <3>1
  <2> QED
    BY <2>2, <2>3 DEF CallsAsk
<1>6. SignalsBring'
  <2>1. \A i \in LiveSignals' : \A e : e = events'[i] => BringsPage(e)'
    <3>1. ASSUME NEW i \in LiveSignals', NEW e, e = events'[i] PROVE BringsPage(e)'
      <4>1. i \in DOMAIN events' /\ IsLiveSignal(e)
        BY <3>1 DEF LiveSignals, IsLiveSignal
      <4>2. ASSUME NEW j \in DOMAIN events, events'[i] = events[j] PROVE BringsPage(e)'
        <5>1. j \in LiveSignals
          BY <3>1, <4>1, <4>2 DEF LiveSignals
        <5>2. BringsPage(e)
          BY <1>1, <3>1, <4>2, <5>1 DEF SignalsBring
        <5> QED
          BY <1>4, <5>2
      <4> QED
        BY <3>1, <4>1, <4>2
    <3> QED
      BY <3>1
  <2>2. \A i \in LiveSignals' : BringsPage(events[i])'
    BY <2>1 DEF BringsPage
  <2> QED
    BY <2>2 DEF SignalsBring
<1> QED
  BY <1>3, <1>5, <1>6 DEF PagesInv, TableFits, PlaceFits, CallsAsk, SignalsBring

\* Where no open() is queued, a step of the worker queues none.
LEMMA QuietOpens ==
    ASSUME ~OpenQueued, task'.op # "open", InboxKept
    PROVE  OpensOnce'
<1>1. \A i \in DOMAIN inbox : inbox[i].op # "open"
  BY DEF OpenQueued
<1>2. \A i \in DOMAIN inbox' : inbox'[i].op # "open"
  BY <1>1 DEF InboxKept
<1> QED
  BY <1>2 DEF OpensOnce, OpenQueued

\* An open() that is queued is the next call, where the table has no rowid.
LEMMA OpenIsNext ==
    ASSUME TypeOK, OpensOnce, ui.kind # "rowid", OpenQueued, task.op # "open"
    PROVE  Len(inbox) = 1 /\ inbox # <<>> /\ Head(inbox).op = "open" /\ Tail(inbox) = <<>>
<1>1. Len(inbox) = 1 /\ inbox \in Seq(Call)
  BY StateTypes DEF OpensOnce
<1>2. PICK i \in DOMAIN inbox : inbox[i].op = "open"
  BY DEF OpenQueued
<1>3. i = 1
  BY <1>1, <1>2
<1>4. Head(inbox) = inbox[1] /\ Tail(inbox) = <<>> /\ inbox # <<>>
  <2> HIDE DEF Call
  <2>1. inbox # <<>>
    BY <1>1
  <2>2. Tail(inbox) \in Seq(Call) /\ Len(Tail(inbox)) = 0
    BY <1>1, <2>1
  <2>3. Tail(inbox) = <<>>
    BY <2>2, EmptySeq
  <2> QED
    BY <2>1, <2>3
<1> QED
  BY <1>1, <1>2, <1>3, <1>4

\* Another call at the head shows that no open() is queued.
LEMMA OtherIsNext ==
    ASSUME TypeOK, OpensOnce, task = NoCall, inbox # <<>>, Head(inbox).op # "open", InboxKept,
           task' = task, ui'.kind = ui.kind
    PROVE  OpensOnce'
<1>1. task.op # "open"
  BY NoCallType
<1>2. CASE ui.kind = "rowid"
  BY <1>2 DEF OpensOnce
<1>3. CASE ui.kind # "rowid"
  <2>1. ~OpenQueued
    BY <1>1, <1>3, OpenIsNext
  <2> QED
    BY <1>1, <2>1, QuietOpens
<1> QED
  BY <1>2, <1>3

\* What a call taken off the queue leaves there.
LEMMA RestIsKept ==
    ASSUME TypeOK, inbox # <<>>, inbox' = Tail(inbox)
    PROVE  InboxKept
BY InboxTail DEF InboxKept

\* An order is checked against a source of the table on display only.
LEMMA SourceOfTable ==
    ASSUME TypeOK, LoadsInv, ui.paged
    PROVE  /\ src \in Source /\ src.order \in Order
           /\ src.kind # "none" => src.kind = ui.kind
           /\ src.kind = "none" => ~src.failed
           /\ src.order # Unsorted => src.kind = "rowid"
BY StateTypes DEF WorkerTypeOK, Source, LoadsInv, NoSource, EmptySource

\* A source that is the same but for how far it is indexed.
LEMMA TableStays ==
    ASSUME TypeOK, PagesInv, ui.paged, UNCHANGED <<ui, rows>>,
           src'.order = src.order, src'.ordinals = src.ordinals
    PROVE  TableFits'
BY DEF PagesInv, TableFits, RowCount

\* open() or sort() begins.
LEMMA BeginTaskPages ==
    ASSUME TypeOK, LoadsInv, PagesInv, BeginTask, UNCHANGED guiVars, ui.paged
    PROVE  PagesInv'
<1>1. /\ inbox # <<>> /\ inbox' = Tail(inbox) /\ task = NoCall
      /\ Head(inbox).op \in {"open", "sort"}
      /\ UNCHANGED <<rows, viewGen, opGen, src, events, ui, shown, counts, countEvents>>
      /\ \/ UNCHANGED <<task, parked>>
         \/ task' = Head(inbox) /\ parked' \in {parked, NoCall}
  BY BeginTaskFacts, StateTypes DEF guiVars
<1>2. InboxKept /\ TableFits'
  BY <1>1, RestIsKept, TableStays
<1>3. task.op # "open" /\ NoCall.op = "shutdown"
  BY <1>1, NoCallType
<1>4. OpensOnce'
  <2>1. CASE ui.kind = "rowid"
    BY <1>1, <2>1 DEF OpensOnce
  <2>2. CASE ui.kind # "rowid" /\ OpenQueued
    <3>1. Tail(inbox) = <<>> /\ OpensOnce
      BY <1>3, <2>2, OpenIsNext DEF PagesInv
    <3>2. CASE UNCHANGED <<task, parked>>
      BY <1>1, <1>3, <3>1, <3>2 DEF OpensOnce, OpenQueued
    <3>3. CASE task' = Head(inbox) /\ parked' \in {parked, NoCall}
      <4>1. /\ ui.firstPending /\ ui.pager = FreshPager
            /\ src.kind = "none" /\ parked = NoCall /\ counts = <<>>
            /\ \A i \in DOMAIN events : events[i].view # viewGen
            /\ \A i \in DOMAIN countEvents : countEvents[i].view # viewGen
        BY <2>2, <3>1 DEF OpensOnce
      <4>2. Head(inbox).op = "open"
        BY <1>3, <2>2, <3>1, OpenIsNext
      <4>3. task'.op = "open" /\ inbox' = <<>> /\ parked' = NoCall
        BY <1>1, <3>1, <3>3, <4>1, <4>2
      <4> QED
        BY <1>1, <4>1, <4>3 DEF OpensOnce
    <3> QED
      BY <1>1, <3>2, <3>3
  <2>3. CASE ui.kind # "rowid" /\ ~OpenQueued
    <3>1. Head(inbox).op # "open"
      <4>1. 1 \in DOMAIN inbox /\ inbox[1] = Head(inbox)
        BY <1>1, InboxTail
      <4> QED
        BY <2>3, <4>1 DEF OpenQueued
    <3>2. task'.op # "open"
      BY <1>1, <1>3, <3>1
    <3> QED
      BY <1>2, <2>3, <3>2, QuietOpens
  <2> QED
    BY <2>1, <2>2, <2>3
<1>5. \/ ~IsLive(parked)'
      \/ \E c \in Call : c = parked' /\ AsksForPage(c)
  <2>1. CASE parked' = NoCall
    BY <1>3, <2>1 DEF IsLive, Requests, PageOps
  <2>2. CASE parked' = parked
    <3>1. IsLive(parked)' <=> IsLive(parked)
      BY <1>1, <2>2 DEF IsLive, IsStale
    <3>2. parked \in Call
      BY StateTypes DEF WorkerTypeOK
    <3> QED
      BY <2>2, <3>1, <3>2 DEF PagesInv
  <2> QED
    BY <1>1, <2>1, <2>2
<1> QED
  BY <1>1, <1>2, <1>4, <1>5, WorkerPages

\* Only the answer to a page request brings a page.
LEMMA OthersBringNothing ==
    ASSUME NEW e, e.sig # "pageReady"
    PROVE  BringsPage(e)'
BY DEF BringsPage

\* The request that is parked is still parked.
LEMMA ParkedStays ==
    ASSUME TypeOK, PagesInv, ui.paged, UNCHANGED <<viewGen, opGen>>, parked' \in {parked, NoCall}
    PROVE  \/ ~IsLive(parked)'
           \/ \E c \in Call : c = parked' /\ AsksForPage(c)
<1>1. CASE parked' = NoCall
  BY <1>1, NoCallType DEF IsLive, Requests, PageOps
<1>2. CASE parked' = parked
  <2>1. IsLive(parked)' <=> IsLive(parked)
    BY <1>2 DEF IsLive, IsStale
  <2>2. parked \in Call
    BY StateTypes DEF WorkerTypeOK
  <2> QED
    BY <1>2, <2>1, <2>2 DEF PagesInv
<1> QED
  BY <1>1, <1>2

\* open() returns.
LEMMA FinishOpenPages ==
    ASSUME TypeOK, LoadsInv, PagesInv, FinishOpen, UNCHANGED guiVars, ui.paged
    PROVE  PagesInv'
<1>1. /\ task.op = "open" /\ task' = NoCall
      /\ UNCHANGED <<rows, viewGen, opGen, parked, ui, shown, counts, countEvents>>
      /\ src' \in OpenOutcomes(task)
  BY FinishOpenFacts, StateTypes DEF guiVars
<1>2. \/ UNCHANGED <<events, inbox>>
      \/ /\ inbox' = inbox \/ inbox' = Append(inbox, NewCall("slice", task.view, 0, "csv"))
         /\ \E done \in Event :
              /\ done.sig = "openCompleted"
              /\ \/ events' = Append(events, done)
                 \/ events' = Append(Append(events, done), Progress(task.view, src'))
  BY FinishOpenFacts, StateTypes
<1>3. task \in Call /\ src' \in Source /\ src'.order = Unsorted
  <2>1. task \in Call /\ WorkerTypeOK
    BY StateTypes DEF WorkerTypeOK
  <2> QED
    BY <1>1, <2>1, OpenOutcomesFacts
<1>4. TableFits'
  BY <1>1, <1>3 DEF PagesInv, TableFits, RowCount
<1>5. ui.kind # "rowid" => src.kind = "none" /\ inbox = <<>>
  BY <1>1 DEF PagesInv, OpensOnce, OpenQueued
<1>6. ui.kind = "csv" /\ src.failed => src'.failed
  BY <1>5, SourceOfTable
<1>7. inbox' = inbox \/ \E slice \in Call : slice.op = "slice" /\ inbox' = Append(inbox, slice)
  <2> DEFINE slice == NewCall("slice", task.view, 0, "csv")
  <2>1. slice \in Call /\ slice.op = "slice"
    BY <1>3, NewCallType DEF NewCall, Ops, Kind, Call
  <2> HIDE DEF slice
  <2> QED
    BY <1>2, <2>1 DEF slice
<1>8. InboxKept
  <2>1. CASE inbox' = inbox
    BY <2>1 DEF InboxKept
  <2>2. ASSUME NEW slice \in Call, slice.op = "slice", inbox' = Append(inbox, slice)
        PROVE  InboxKept
    <3>1. \A i \in DOMAIN inbox' : (i \in DOMAIN inbox /\ inbox'[i] = inbox[i]) \/ inbox'[i] = slice
      BY <2>2, StateTypes, QueueLast
    <3> QED
      BY <2>2, <3>1 DEF InboxKept
  <2> QED
    BY <1>7, <2>1, <2>2
<1>9. OpensOnce'
  <2>1. CASE ui.kind = "rowid"
    BY <1>1, <2>1 DEF OpensOnce
  <2>2. CASE ui.kind # "rowid"
    <3>1. \A i \in DOMAIN inbox' : inbox'[i].op = "slice"
      BY <1>5, <1>8, <2>2 DEF InboxKept
    <3>2. task'.op # "open"
      BY <1>1, NoCallType
    <3> QED
      BY <3>1, <3>2 DEF OpensOnce, OpenQueued
  <2> QED
    BY <2>1, <2>2
<1>10. \A i \in DOMAIN events' :
          (\E j \in DOMAIN events : events'[i] = events[j]) \/ events'[i].sig # "pageReady"
  <2>1. CASE events' = events
    BY <2>1
  <2>2. ASSUME NEW done \in Event, done.sig = "openCompleted",
               \/ events' = Append(events, done)
               \/ events' = Append(Append(events, done), Progress(task.view, src'))
        PROVE  \A i \in DOMAIN events' :
                  (\E j \in DOMAIN events : events'[i] = events[j]) \/ events'[i].sig # "pageReady"
    <3> DEFINE progress == Progress(task.view, src')
    <3>1. progress \in Event /\ progress.sig = "indexProgress"
      <4>1. progress \in Event
        BY <1>3, ProgressType DEF Call
      <4>2. progress.sig = "indexProgress"
        BY EventFields
      <4> QED
        BY <4>1, <4>2
    <3> HIDE DEF progress
    <3>2. /\ Append(events, done) \in Seq(Event)
          /\ \A i \in DOMAIN Append(events, done) :
                (i \in DOMAIN events /\ Append(events, done)[i] = events[i])
                \/ Append(events, done)[i] = done
      BY StateTypes, EventsAdded
    <3>3. \A i \in DOMAIN Append(Append(events, done), progress) :
             (i \in DOMAIN Append(events, done)
              /\ Append(Append(events, done), progress)[i] = Append(events, done)[i])
             \/ Append(Append(events, done), progress)[i] = progress
      BY <3>1, <3>2, EventsAdded
    <3>4. events' = Append(events, done) \/ events' = Append(Append(events, done), progress)
      BY <2>2 DEF progress
    <3> QED
      BY <2>2, <3>1, <3>2, <3>3, <3>4
  <2> QED
    BY <1>2, <2>1, <2>2
<1>11. \A i \in DOMAIN events' :
          \/ \E j \in DOMAIN events : events'[i] = events[j]
          \/ \E e : e = events'[i] /\ (IsLiveSignal(e) => BringsPage(e)')
  BY <1>10, OthersBringNothing
<1>12. \/ ~IsLive(parked)'
       \/ \E c \in Call : c = parked' /\ AsksForPage(c)
  BY <1>1, ParkedStays
<1> QED
  BY <1>1, <1>4, <1>6, <1>8, <1>9, <1>11, <1>12, WorkerPages

\* sort() returns: the ordinal table is the rows there are, in its order.
LEMMA FinishSortPages ==
    ASSUME TypeOK, LoadsInv, OrderlyInv, PagesInv, FinishSort, UNCHANGED guiVars, ui.paged
    PROVE  PagesInv'
<1>1. /\ task.op = "sort" /\ task' = NoCall /\ src'.failed = src.failed
      /\ UNCHANGED <<rows, viewGen, opGen, inbox, parked, ui, shown, counts, countEvents>>
  BY FinishSortFacts, StateTypes DEF guiVars
<1>2. PICK done \in BOOLEAN :
        /\ done => CanSort(src) /\ src'.order = task.sort /\ src'.ordinals = Ranked(rows, task.sort)
        /\ ~done => src' = src
        /\ IsStale(task) => events' = events
        /\ ~IsStale(task) => \E e \in Event :
             e.sig = "sortCompleted" /\ events' = Append(events, e)
  BY FinishSortFacts, StateTypes
<1>3. TableFits'
  BY <1>1, <1>2 DEF PagesInv, TableFits, RowCount
<1>4. InboxKept
  BY <1>1 DEF InboxKept
<1>5. OpensOnce'
  <2>1. CASE ui.kind = "rowid"
    BY <1>1, <2>1 DEF OpensOnce
  <2>2. CASE ui.kind # "rowid"
    <3>1. IsStale(task)
      <4>1. CallFits(task) => ui.sorting
        BY <1>1 DEF CallFits
      <4> QED
        BY <1>1, <2>2, <4>1, TaskAlone DEF OrderlyInv, ProtocolInv, FieldsInv
    <3>2. events' = events /\ src' = src
      <4>1. ~CanSort(src)
        BY <2>2 DEF CanSort, LoadsInv
      <4> QED
        BY <1>2, <3>1, <4>1
    <3>3. task'.op # "open" /\ OpensOnce
      BY <1>1, NoCallType DEF PagesInv
    <3> QED
      BY <1>1, <3>2, <3>3 DEF OpensOnce, OpenQueued
  <2> QED
    BY <2>1, <2>2
<1>6. \A i \in DOMAIN events' :
         (\E j \in DOMAIN events : events'[i] = events[j]) \/ events'[i].sig # "pageReady"
  <2>1. ASSUME NEW e \in Event, e.sig = "sortCompleted", events' = Append(events, e)
        PROVE  \A i \in DOMAIN events' :
                  (\E j \in DOMAIN events : events'[i] = events[j]) \/ events'[i].sig # "pageReady"
    <3>1. \A i \in DOMAIN events' : (i \in DOMAIN events /\ events'[i] = events[i]) \/ events'[i] = e
      BY <2>1, StateTypes, EventsAdded
    <3> QED
      BY <2>1, <3>1
  <2> QED
    BY <1>2, <2>1
<1>7. \A i \in DOMAIN events' :
         \/ \E j \in DOMAIN events : events'[i] = events[j]
         \/ \E e : e = events'[i] /\ (IsLiveSignal(e) => BringsPage(e)')
  BY <1>6, OthersBringNothing
<1>8. \/ ~IsLive(parked)'
      \/ \E c \in Call : c = parked' /\ AsksForPage(c)
  BY <1>1, ParkedStays
<1> QED
  BY <1>1, <1>3, <1>4, <1>5, <1>7, <1>8, WorkerPages

\* The table is being left.
LEMMA ShutdownPages ==
    ASSUME TypeOK, LoadsInv, Shutdown, UNCHANGED guiVars
    PROVE  PagesInv'
<1>1. inbox # <<>> /\ Head(inbox).op = "shutdown"
  BY ShutdownFacts, StateTypes
<1>2. 1 \in DOMAIN inbox /\ inbox[1] = Head(inbox)
  BY <1>1, InboxTail
<1>3. ~ui.paged
  BY <1>1, <1>2 DEF LoadsInv, CallBelongs
<1> QED
  BY <1>3 DEF guiVars, PagesInv

\* The answer to a request is the only signal a step adds that brings a page.
LEMMA AnswerAdded ==
    ASSUME NEW q \in Seq(Event), NEW answer \in Event, events' = Append(q, answer),
           BringsPage(answer)',
           \A i \in DOMAIN q :
              (\E j \in DOMAIN events : q[i] = events[j]) \/ q[i].sig # "pageReady"
    PROVE  \A i \in DOMAIN events' :
              \/ \E j \in DOMAIN events : events'[i] = events[j]
              \/ \E e : e = events'[i] /\ (IsLiveSignal(e) => BringsPage(e)')
<1> SUFFICES ASSUME NEW i \in DOMAIN events'
             PROVE  \/ \E j \in DOMAIN events : events'[i] = events[j]
                    \/ \E e : e = events'[i] /\ (IsLiveSignal(e) => BringsPage(e)')
  OBVIOUS
<1>1. (i \in DOMAIN q /\ events'[i] = q[i]) \/ events'[i] = answer
  BY EventsAdded
<1>2. CASE events'[i] = answer
  BY <1>2
<1>3. CASE i \in DOMAIN q /\ events'[i] = q[i]
  BY <1>3, OthersBringNothing
<1> QED
  BY <1>1, <1>2, <1>3

\* A page request is dropped, parked or answered.
LEMMA FetchPagePages ==
    ASSUME TypeOK, TypeOK', LoadsInv, OrderlyInv, TotalsInv, TotalsInv', PagesInv,
           FetchPage, UNCHANGED guiVars, ui.paged
    PROVE  PagesInv'
<1>1. /\ inbox # <<>> /\ inbox' = Tail(inbox) /\ task = NoCall /\ task' = NoCall
      /\ Head(inbox).op \in PageOps
      /\ UNCHANGED <<rows, viewGen, opGen, ui, shown, counts, countEvents>>
  BY FetchPageFacts, StateTypes DEF guiVars
<1>2. PICK c \in Call : c = Head(inbox)
  BY <1>1, InboxTail
<1>3. \/ UNCHANGED <<parked, src, events>>
      \/ ~IsStale(c) /\ parked' = c /\ UNCHANGED <<src, events>>
      \/ /\ ~IsStale(c) /\ parked' = NoCall
         /\ src' = Verified(src) /\ src.kind # "none" /\ Served(c, src)
         /\ \E page \in Pages(c, src) : events' = Append(events, PageReady(c, page))
  BY <1>2, FetchPageFacts, StateTypes
<1>4. src \in Source /\ events \in Seq(Event)
  BY StateTypes DEF WorkerTypeOK
<1>5. /\ SameSource(src, src) /\ src'.order = src.order /\ src'.ordinals = src.ordinals
      /\ src.failed => src'.failed
  BY <1>3, <1>4, VerifiedSame DEF SameSource
<1>6. InboxKept /\ TableFits'
  BY <1>1, <1>5, RestIsKept, TableStays
<1>7. OpensOnce'
  BY <1>1, <1>6, OtherIsNext DEF PageOps, PagesInv
<1>8. ASSUME ~IsStale(c)
      PROVE  c.op \in PageOps /\ CallFits(c) /\ AsksForPage(c)
  <2>1. IsLive(c) /\ c.op \in PageOps
    BY <1>1, <1>2, <1>8 DEF IsLive, Requests
  <2>2. CallFits(c)
    BY <1>1, <1>2, <2>1, HeadAlone DEF OrderlyInv, ProtocolInv
  <2>3. 1 \in DOMAIN inbox /\ inbox[1] = c
    BY <1>1, <1>2, InboxTail
  <2>4. AsksForPage(c)
    BY <2>1, <2>3 DEF PagesInv, LiveCalls
  <2> QED
    BY <2>1, <2>2, <2>4
<1>9. CASE UNCHANGED <<parked, src, events>>
  <2>1. \/ ~IsLive(parked)'
        \/ \E d \in Call : d = parked' /\ AsksForPage(d)
    BY <1>1, <1>9, ParkedStays
  <2> QED
    BY <1>1, <1>5, <1>6, <1>7, <1>9, <2>1, WorkerPages
<1>10. CASE ~IsStale(c) /\ parked' = c /\ UNCHANGED <<src, events>>
  BY <1>1, <1>5, <1>6, <1>7, <1>8, <1>10, WorkerPages
<1>11. ASSUME ~IsStale(c), parked' = NoCall, src' = Verified(src), src.kind # "none", Served(c, src),
              NEW page \in Pages(c, src), events' = Append(events, PageReady(c, page))
       PROVE  PagesInv'
  <2>1. \/ ~IsLive(parked)'
        \/ \E d \in Call : d = parked' /\ AsksForPage(d)
    BY <1>1, <1>11, ParkedStays
  <2>2. BringsPage(PageReady(c, page))'
    BY <1>1, <1>4, <1>5, <1>8, <1>11, AnswerBringsPage
  <2>3. PageReady(c, page) \in Event
    BY <1>4, <1>8, <1>11, PagesType, PageReadyType, StateTypes
  <2>4. \A i \in DOMAIN events : \E j \in DOMAIN events : events[i] = events[j]
    OBVIOUS
  <2>5. \A i \in DOMAIN events' :
           \/ \E j \in DOMAIN events : events'[i] = events[j]
           \/ \E e : e = events'[i] /\ (IsLiveSignal(e) => BringsPage(e)')
    BY <1>4, <1>11, <2>2, <2>3, <2>4, AnswerAdded
  <2> QED
    BY <1>1, <1>5, <1>6, <1>7, <2>1, <2>5, WorkerPages
<1> QED
  BY <1>3, <1>9, <1>10, <1>11

\* A slice of indexing: the parked request is dropped, kept or answered.
LEMMA IndexSlicePages ==
    ASSUME TypeOK, TypeOK', LoadsInv, OrderlyInv, TotalsInv, TotalsInv', PagesInv,
           IndexSlice, UNCHANGED guiVars, ui.paged
    PROVE  PagesInv'
<1>1. /\ inbox # <<>> /\ task = NoCall /\ task' = NoCall /\ Head(inbox).op = "slice"
      /\ inbox' = Tail(inbox) \/ inbox' = Append(Tail(inbox), Head(inbox))
      /\ UNCHANGED <<rows, viewGen, opGen, ui, shown, counts, countEvents>>
  BY IndexSliceFacts, StateTypes DEF guiVars
<1>2. \/ UNCHANGED <<parked, src, events>>
      \/ src.kind = "csv" /\ \E s \in SliceOutcomes(src), sofar \in Seq(Event) :
           /\ s \in Source
           /\ src' = s \/ src' = Verified(s)
           /\ sofar = events \/ sofar = Append(events, Progress(Head(inbox).view, s))
           /\ Progress(Head(inbox).view, s) \in Event
           /\ \/ events' = sofar
                 /\ (parked' = NoCall \/ parked' = parked)
              \/ /\ parked # NoCall /\ ~IsStale(parked) /\ parked' = NoCall
                 /\ \E page \in Pages(parked, s) :
                      /\ events' = Append(sofar, PageReady(parked, page))
                      /\ page.ok => src' = Verified(s) /\ Served(parked, s)
  BY IndexSliceFacts, StateTypes
<1>3. src \in Source /\ events \in Seq(Event) /\ parked \in Call
      /\ (parked = NoCall \/ parked.op \in PageOps)
  BY StateTypes DEF WorkerTypeOK
<1>4. InboxKept
  BY <1>1, InboxCycled DEF InboxKept
<1>5. OpensOnce'
  BY <1>1, <1>4, OtherIsNext DEF PagesInv
<1>6. CASE UNCHANGED <<parked, src, events>>
  <2>1. \/ ~IsLive(parked)'
        \/ \E d \in Call : d = parked' /\ AsksForPage(d)
    BY <1>1, <1>6, ParkedStays
  <2>2. TableFits'
    BY <1>1, <1>6, TableStays
  <2> QED
    BY <1>1, <1>4, <1>5, <1>6, <2>1, <2>2, WorkerPages
<1>7. ASSUME src.kind = "csv", NEW s \in SliceOutcomes(src), NEW sofar \in Seq(Event), s \in Source,
             src' = s \/ src' = Verified(s),
             sofar = events \/ sofar = Append(events, Progress(Head(inbox).view, s)),
             Progress(Head(inbox).view, s) \in Event,
             \/ events' = sofar /\ (parked' = NoCall \/ parked' = parked)
             \/ /\ parked # NoCall /\ ~IsStale(parked) /\ parked' = NoCall
                /\ \E page \in Pages(parked, s) :
                     /\ events' = Append(sofar, PageReady(parked, page))
                     /\ page.ok => src' = Verified(s) /\ Served(parked, s)
      PROVE  PagesInv'
  <2>1. SameSource(src, s) /\ (src.failed => s.failed)
    BY <1>3, <1>7, SliceOutcomesFacts, StateTypes
  <2>2. /\ src'.order = src.order /\ src'.ordinals = src.ordinals
        /\ src.failed => src'.failed
    BY <1>7, <2>1, VerifiedSame DEF SameSource
  <2>3. TableFits'
    BY <1>1, <2>2, TableStays
  <2>4. \/ ~IsLive(parked)'
        \/ \E d \in Call : d = parked' /\ AsksForPage(d)
    BY <1>1, <1>7, ParkedStays
  <2>5. \A i \in DOMAIN sofar :
           (\E j \in DOMAIN events : sofar[i] = events[j]) \/ sofar[i].sig # "pageReady"
    <3> DEFINE progress == Progress(Head(inbox).view, s)
    <3>1. progress.sig = "indexProgress" /\ progress \in Event
      BY <1>7, EventFields
    <3>2. sofar = events \/ sofar = Append(events, progress)
      BY <1>7
    <3> HIDE DEF progress
    <3>3. CASE sofar = events
      BY <3>3
    <3>4. CASE sofar = Append(events, progress)
      <4>1. \A i \in DOMAIN sofar : (i \in DOMAIN events /\ sofar[i] = events[i]) \/ sofar[i] = progress
        BY <1>3, <3>1, <3>4, EventsAdded
      <4> QED
        BY <3>1, <4>1
    <3> QED
      BY <3>2, <3>3, <3>4
  <2>6. CASE events' = sofar
    <3>1. \A i \in DOMAIN events' :
             \/ \E j \in DOMAIN events : events'[i] = events[j]
             \/ \E e : e = events'[i] /\ (IsLiveSignal(e) => BringsPage(e)')
      BY <2>5, <2>6, OthersBringNothing
    <3> QED
      BY <1>1, <1>4, <1>5, <2>2, <2>3, <2>4, <3>1, WorkerPages
  <2>7. ASSUME parked # NoCall, ~IsStale(parked), NEW page \in Pages(parked, s),
               events' = Append(sofar, PageReady(parked, page)),
               page.ok => src' = Verified(s) /\ Served(parked, s)
        PROVE  PagesInv'
    <3>1. PICK c \in Call : c = parked /\ c.op \in PageOps /\ IsLive(c)
      BY <1>3, <2>7 DEF IsLive, Requests
    <3>2. CallFits(c) /\ AsksForPage(c)
      BY <3>1 DEF OrderlyInv, ProtocolInv, LiveFits, PagesInv
    <3>3. BringsPage(PageReady(c, page))'
      <4>1. CASE page.ok
        BY <1>1, <1>7, <2>1, <2>7, <3>1, <3>2, <4>1, AnswerBringsPage
      <4>2. CASE ~page.ok
        <5>1. PageReady(c, page).ok = page.ok
          BY EventFields
        <5> QED
          BY <4>2, <5>1 DEF BringsPage
      <4> QED
        BY <4>1, <4>2
    <3>4. PageReady(c, page) \in Event
      BY <1>7, <2>7, <3>1, PagesType, PageReadyType, StateTypes
    <3>5. events' = Append(sofar, PageReady(c, page))
      BY <2>7, <3>1
    <3>6. \A i \in DOMAIN events' :
             \/ \E j \in DOMAIN events : events'[i] = events[j]
             \/ \E e : e = events'[i] /\ (IsLiveSignal(e) => BringsPage(e)')
      BY <1>7, <2>5, <3>3, <3>4, <3>5, AnswerAdded
    <3> QED
      BY <1>1, <1>4, <1>5, <2>2, <2>3, <2>4, <3>6, WorkerPages
  <2> QED
    BY <1>7, <2>6, <2>7
<1> QED
  BY <1>2, <1>6, <1>7

\* Each step of the worker, whatever is on display.
LEMMA WorkerStepPages ==
    ASSUME TypeOK, TypeOK', LoadsInv, OrderlyInv, TotalsInv, TotalsInv', PagesInv, WorkerStep
    PROVE  PagesInv'
<1>1. UNCHANGED guiVars /\ ui' = ui
  BY DEF WorkerStep, guiVars
<1>2. CASE ~ui.paged
  BY <1>1, <1>2 DEF PagesInv
<1>3. CASE ui.paged
  BY <1>1, <1>3, BeginTaskPages, FinishOpenPages, FinishSortPages, FetchPagePages,
     IndexSlicePages, ShutdownPages DEF WorkerStep, WorkerNext
<1> QED
  BY <1>2, <1>3

\* Every step of the viewer and its workers keeps it; a deletion would not.
LEMMA PagesNext ==
    /\ TypeOK /\ TypeOK' /\ LoadsInv /\ OrderlyInv /\ TotalsInv /\ TotalsInv' /\ PagesInv
    /\ [Next]_vars
    => PagesInv'
<1> SUFFICES ASSUME TypeOK, TypeOK', LoadsInv, OrderlyInv, TotalsInv, TotalsInv', PagesInv,
                    [Next]_vars
             PROVE  PagesInv'
  OBVIOUS
<1>1. \/ LoadSelectedTable \/ LeaveTable \/ OnOpenFailed \/ ClickSort \/ CancelSort
      \/ TurnPage \/ OnOpened \/ OnReopened \/ OnPageReady \/ OnPageVanished \/ OnPageFailed
      \/ OnSortCompleted \/ (Aside /\ rows' = rows) \/ WorkerStep
  BY NextSteps
<1>2. CASE LoadSelectedTable \/ LeaveTable \/ OnOpenFailed
  BY <1>2, LoadPages, LeavePages
<1>3. CASE ClickSort \/ CancelSort \/ TurnPage \/ (Aside /\ rows' = rows)
  BY <1>3, ClickSortPages, CancelSortPages, TurnPagePages, AsidePages
<1>4. CASE OnOpened \/ OnReopened \/ OnPageReady \/ OnPageVanished \/ OnPageFailed \/ OnSortCompleted
  BY <1>4, OnOpenedPages, OnReopenedPages, OnPageReadyPages, OnPageVanishedPages,
     OnPageFailedPages, OnSortCompletedPages
<1>5. CASE WorkerStep
  BY <1>5, WorkerStepPages
<1> QED
  BY <1>1, <1>2, <1>3, <1>4, <1>5

\* What is on display, what the token marks, what is asked for and what is on
\* its way are pages of the table, and the page in the pager is the one shown.
THEOREM PagesHold == Spec => []PagesInv
<1>1. /\ TypeOK /\ TypeOK' /\ LoadsInv /\ OrderlyInv /\ TotalsInv /\ TotalsInv' /\ PagesInv
      /\ [Next]_vars
      => PagesInv'
  BY PagesNext
<1>2. Spec => []TypeOK /\ []LoadsInv /\ []OrderlyInv /\ []TotalsInv
  BY SpecIsShared, ViewerTypeCorrect, LoadsHold, OrderlyHold, TotalsHold, PTL
<1> QED
  BY <1>1, <1>2, PagesInit, PTL DEF Spec

\* The rows the user sees are the rows of the page in the pager, in the order
\* the header shows, however pages, sorts and their answers overlapped.
THEOREM PagesShowTheirRows == Spec => []PageShowsItsRows
<1>1. PagesInv => PageShowsItsRows
  BY DEF PagesInv, DisplayFits, RowsFit, PageShowsItsRows, OnDisplay
<1> QED
  BY <1>1, PagesHold, PTL

\* Next page is offered exactly when rows follow the page on display; for a
\* file that is still being indexed, whenever they do.
THEOREM NextIsHonest == Spec => []NextHonest
<1>1. TypeOK /\ TotalsInv /\ PagesInv => NextHonest
  <2> SUFFICES ASSUME TypeOK, TotalsInv, PagesInv, Settled, ui.orderValid
               PROVE  /\ Followed(ui.pager.page) => CanNext(ui.pager)
                      /\ CanNext(ui.pager) /\ ui.kind # "csv" => Followed(ui.pager.page)
    BY DEF NextHonest, Followed, RowCount
  <2> DEFINE p == ui.pager.page
             total == ui.pager.total
  <2>1. OnDisplay /\ ui.paged
    BY DEF Settled, OnDisplay
  <2>2. p \in Nat \ {0} /\ total \in Total /\ DisplayFits
    BY <2>1, StateTypes DEF PagesInv
  <2>3. CASE total # NoTotal
    <3>1. total = RowCount /\ total \in Nat
      BY <2>1, <2>2, <2>3 DEF TotalsInv, Total
    <3>2. p < PageCount(total) <=> Followed(p)
      <4> HIDE DEF p, total
      <4> QED
        BY <2>2, <3>1, NextPageIffRowsFollow DEF Followed
    <3> QED
      BY <2>3, <3>2 DEF CanNext
  <2>4. CASE total = NoTotal
    <3>1. MoreFits(ui.pager.hasMore \/ ui.pager.fromPrev, p)
      BY <2>1, <2>2, <2>4 DEF DisplayFits
    <3> QED
      BY <2>4, <3>1 DEF CanNext, MoreFits
  <2> QED
    BY <2>3, <2>4
<1>2. Spec => []TypeOK
  BY SpecIsShared, ViewerTypeCorrect, PTL
<1> QED
  BY <1>1, <1>2, TotalsHold, PagesHold, PTL

-----------------------------------------------------------------------------
(* The status bar: what it says is what the pager and the index say.       *)

\* A bar that differs in what is on the line, in the warning or in the label.
SameNews(b, c) ==
    /\ c.hasInfo = b.hasInfo /\ c.page = b.page /\ c.total = b.total
    /\ c.indexing = b.indexing

\* A new summary, which takes over page and total.
LEMMA RebuiltFields ==
    ASSUME NEW b \in Bar, NEW c, c = RebuildPagedTexts(b)
    PROVE  /\ SameNews(b, c) /\ c.progress = b.progress /\ c.error = b.error /\ c.text = b.text
           /\ c.indexingText = b.indexingText
           /\ c.summary.kind = "summary" /\ c.summary.page = b.page /\ c.summary.total = b.total
BY DEF RebuildPagedTexts, Plain, Bar, SameNews

\* A warning folded into it.
LEMMA WarnedFields ==
    ASSUME NEW b \in Bar, NEW warning, NEW c, c = SetWarning(b, warning)
    PROVE  /\ SameNews(b, c) /\ c.progress = b.progress /\ c.error = b.error
           /\ c.indexingText = b.indexingText
           /\ c.summary.kind = b.summary.kind /\ c.summary.page = b.summary.page
           /\ c.summary.total = b.summary.total
           /\ \/ c.text = b.text /\ c.summary = b.summary
              \/ c.text = b.text /\ b.text # b.summary
              \/ c.text = c.summary
<1> DEFINE summary == [b.summary EXCEPT !.warning = warning]
           line == IF b.text \in {NoText, b.summary} THEN summary ELSE b.text
<1>1. summary.kind = b.summary.kind /\ summary.page = b.summary.page
      /\ summary.total = b.summary.total
  BY DEF Bar, Text
<1>2. line = summary \/ (line = b.text /\ b.text # b.summary)
  OBVIOUS
<1>3. c = b \/ c = [b EXCEPT !.applied = warning, !.summary = summary, !.text = line]
  BY DEF SetWarning
<1> HIDE DEF summary, line
<1>4. CASE c = b
  BY <1>4 DEF SameNews
<1>5. CASE c = [b EXCEPT !.applied = warning, !.summary = summary, !.text = line]
  BY <1>1, <1>2, <1>5 DEF Bar, SameNews
<1> QED
  BY <1>3, <1>4, <1>5

\* The bar's own text is of a kind it knows.
LEMMA OwnTextFields ==
    ASSUME NEW b \in Bar, LineFits(b), b.hasInfo
    PROVE  LET text == OwnText(b)
           IN  /\ text.kind = "summary" => text = b.summary
               /\ text.kind = "loading" => b.indexing /\ text = b.indexingText
               /\ text.kind # "cell"
<1> DEFINE text == OwnText(b)
<1>1. \/ text = IndexingError
      \/ text = b.summary
      \/ text = b.indexingText /\ b.indexing /\ text # NoText
  BY DEF OwnText
<1>2. IndexingError.kind = "failed"
  BY DEF IndexingError, Plain
<1> HIDE DEF text
<1>3. /\ text.kind = "summary" => text = b.summary
      /\ text.kind = "loading" => b.indexing /\ text = b.indexingText
      /\ text.kind # "cell"
  BY <1>1, <1>2 DEF LineFits
<1> QED
  BY <1>3 DEF text

\* The viewer's messages and the selected cell.
LEMMA LineSet ==
    ASSUME NEW b \in Bar, LineFits(b), NEW c,
           \/ c = SetValueText(b, Message) \/ c = SetValueText(b, CellText)
           \/ c = SetSorting(b, TRUE) \/ c = SetSorting(b, FALSE)
    PROVE  LineFits(c) /\ SameNews(b, c)
BY DEF SetValueText, SetSorting, Message, CellText, Plain, LineFits, SameNews, Bar

\* What is on the line once no cell is selected.
LEMMA LineRestored ==
    ASSUME NEW b \in Bar, LineFits(b)
    PROVE  LineFits(RestoreInfo(b)) /\ SameNews(b, RestoreInfo(b))
<1> DEFINE text == IF b.hasInfo THEN OwnText(b) ELSE NoText
           c == [b EXCEPT !.text = text, !.progress = b.progress /\ b.indexing]
<1>1. RestoreInfo(b) = c
  BY DEF RestoreInfo, HideUnlessIndexing, SetValueText, Bar
<1>2. b.hasInfo => /\ text.kind = "summary" => text = b.summary
                   /\ text.kind = "loading" => b.indexing /\ text = b.indexingText
  BY OwnTextFields
<1> HIDE DEF text
<1>3. c.progress <=> b.progress /\ b.indexing
  BY DEF Bar
<1>4. /\ c.text = text /\ c.summary = b.summary /\ c.indexingText = b.indexingText
      /\ c.hasInfo = b.hasInfo /\ c.page = b.page /\ c.total = b.total /\ c.indexing = b.indexing
  BY DEF Bar
<1> HIDE DEF c
<1>5. LineFits(c) /\ SameNews(b, c)
  BY <1>2, <1>3, <1>4 DEF LineFits, SameNews
<1> QED
  BY <1>1, <1>5

\* A count that failed.
LEMMA LineWarned ==
    ASSUME NEW b \in Bar, LineFits(b), NEW warning
    PROVE  LineFits(SetWarning(b, warning)) /\ SameNews(b, SetWarning(b, warning))
<1> DEFINE c == SetWarning(b, warning)
<1>1. /\ SameNews(b, c) /\ c.progress = b.progress
      /\ c.indexingText = b.indexingText
      /\ c.summary.kind = b.summary.kind /\ c.summary.page = b.summary.page
      /\ c.summary.total = b.summary.total
      /\ \/ c.text = b.text /\ c.summary = b.summary
         \/ c.text = b.text /\ b.text # b.summary
         \/ c.text = c.summary
  BY WarnedFields
<1> HIDE DEF c
<1>2. LineFits(c)
  BY <1>1 DEF LineFits, SameNews
<1> QED
  BY <1>1, <1>2 DEF c

\* A page that has arrived.
LEMMA LinePaged ==
    ASSUME NEW b \in Bar, LineFits(b), NEW page \in Nat, NEW total \in Total, NEW c,
           c = SetPagedLoadInfo(b, page, total)
    PROVE  /\ LineFits(c) /\ c.hasInfo /\ c.page = page /\ c.total = total
           /\ c.indexing = b.indexing
<1> DEFINE started == [b EXCEPT !.page = page, !.total = total, !.hasInfo = TRUE]
           told == RebuildPagedTexts(started)
           warned == SetWarning(told, b.error)
<1>1. /\ started \in Bar /\ started.page = page /\ started.total = total /\ started.hasInfo
      /\ started.indexing = b.indexing /\ started.indexingText = b.indexingText
  BY DEF Bar
<1> HIDE DEF started
<1>2. /\ told \in Bar /\ SameNews(started, told) /\ told.indexingText = started.indexingText
      /\ told.summary.kind = "summary" /\ told.summary.page = page /\ told.summary.total = total
  BY <1>1, RebuildType, RebuiltFields
<1> HIDE DEF told
<1>3. b.error \in Warning
  BY DEF Bar, Warning
<1>4. /\ warned \in Bar /\ SameNews(told, warned) /\ warned.indexingText = told.indexingText
      /\ warned.summary.kind = "summary" /\ warned.summary.page = page
      /\ warned.summary.total = total
  <2>1. warned \in Bar
    BY <1>2, <1>3, WarningType
  <2>2. SameNews(told, warned) /\ warned.indexingText = told.indexingText
        /\ warned.summary.kind = told.summary.kind /\ warned.summary.page = told.summary.page
        /\ warned.summary.total = told.summary.total
    BY <1>2, WarnedFields
  <2> QED
    BY <1>2, <2>1, <2>2
<1> HIDE DEF warned
<1> DEFINE text == OwnText(warned)
<1>5. /\ warned.hasInfo /\ warned.page = page /\ warned.total = total
      /\ warned.indexing = b.indexing /\ warned.indexingText = b.indexingText
  BY <1>1, <1>2, <1>4 DEF SameNews
<1>6. \/ text = IndexingError
      \/ text = warned.summary
      \/ text = warned.indexingText /\ warned.indexing /\ text # NoText
  BY DEF OwnText
<1>7. IndexingError.kind = "failed"
  BY DEF IndexingError, Plain
<1> HIDE DEF text
<1>8. /\ text.kind = "summary" => text = warned.summary
      /\ text.kind = "loading" => warned.indexing /\ text = warned.indexingText
  BY <1>4, <1>5, <1>6, <1>7 DEF LineFits
<1>9. c = [warned EXCEPT !.text = text, !.progress = warned.progress /\ warned.indexing]
  BY <1>4 DEF SetPagedLoadInfo, HideUnlessIndexing, SetValueText, started, told, warned, text, Bar
<1>10. c.progress <=> warned.progress /\ warned.indexing
  BY <1>4, <1>9 DEF Bar
<1>11. /\ c.text = text /\ c.summary = warned.summary /\ c.indexingText = warned.indexingText
       /\ c.hasInfo = warned.hasInfo /\ c.page = warned.page /\ c.total = warned.total
       /\ c.indexing = warned.indexing
  BY <1>4, <1>9 DEF Bar
<1> QED
  BY <1>4, <1>5, <1>8, <1>10, <1>11 DEF LineFits

\* A total, from a count or the end of the index.
LEMMA LineTotal ==
    ASSUME NEW b \in Bar, LineFits(b), NEW total \in Total, NEW c, c = UpdatePagedTotal(b, total)
    PROVE  /\ LineFits(c) /\ c.hasInfo = b.hasInfo /\ c.page = b.page /\ ~c.indexing
           /\ b.hasInfo => c.total = total
<1> DEFINE ended == [b EXCEPT !.indexing = FALSE, !.indexingText = NoText, !.error = "none"]
           retold == [ended EXCEPT !.total = total, !.progress = FALSE]
           told == RebuildPagedTexts(retold)
           shows == b.text \in {NoText, b.summary, b.indexingText}
<1>1. NoText.kind = "empty" /\ NoText \in Text
  BY TextTypes DEF NoText, Plain
<1>2. /\ ended \in Bar /\ ~ended.indexing /\ ended.indexingText = NoText
      /\ ended.hasInfo = b.hasInfo /\ ended.page = b.page /\ ended.text = b.text
      /\ ended.summary = b.summary
  BY <1>1 DEF Bar
<1> HIDE DEF ended
<1>3. /\ retold \in Bar /\ ~retold.indexing /\ retold.indexingText = NoText
      /\ retold.hasInfo = b.hasInfo /\ retold.page = b.page /\ retold.text = b.text
      /\ retold.total = total /\ ~retold.progress
  BY <1>2 DEF Bar
<1> HIDE DEF retold
<1>4. /\ told \in Bar /\ SameNews(retold, told) /\ told.progress = retold.progress
      /\ told.indexingText = retold.indexingText /\ told.text = retold.text
      /\ told.summary.kind = "summary" /\ told.summary.page = retold.page
      /\ told.summary.total = retold.total
  BY <1>3, RebuildType, RebuiltFields
<1> HIDE DEF told
<1>5. CASE ~b.hasInfo
  <2>1. c = ended
    BY <1>5 DEF UpdatePagedTotal, ended
  <2> QED
    BY <1>1, <1>2, <1>5, <2>1 DEF LineFits
<1>6. CASE b.hasInfo /\ shows
  <2>1. c = [told EXCEPT !.text = told.summary]
    BY <1>6 DEF UpdatePagedTotal, SetValueText, ended, retold, told
  <2>2. /\ c.text = told.summary /\ c.summary = told.summary
        /\ c.indexingText = told.indexingText /\ c.progress = told.progress /\ SameNews(told, c)
    BY <1>4, <2>1 DEF Bar, SameNews
  <2>3. /\ ~c.indexing /\ ~c.progress /\ c.indexingText.kind = "empty"
        /\ c.hasInfo = b.hasInfo /\ c.page = b.page /\ c.total = total
        /\ c.summary.kind = "summary" /\ c.summary.page = c.page /\ c.summary.total = c.total
        /\ c.text = c.summary
    BY <1>1, <1>3, <1>4, <2>2 DEF SameNews
  <2> QED
    BY <1>6, <2>3 DEF LineFits
<1>7. CASE b.hasInfo /\ ~shows
  <2>1. c = told
    BY <1>7 DEF UpdatePagedTotal, ended, retold, told
  <2>2. b.text.kind # "summary" /\ b.text.kind # "loading"
    BY <1>7 DEF LineFits
  <2> QED
    BY <1>1, <1>3, <1>4, <1>7, <2>1, <2>2 DEF LineFits, SameNews
<1> QED
  BY <1>5, <1>6, <1>7

\* Progress of the index.
LEMMA LineProgress ==
    ASSUME NEW b \in Bar, LineFits(b), NEW n \in Total, NEW c, c = SetIndexingProgress(b, n)
    PROVE  /\ LineFits(c) /\ c.hasInfo = b.hasInfo /\ c.page = b.page /\ c.total = b.total
           /\ c.indexing
<1> DEFINE loading == LoadingRecords(n)
           line == IF b.text \in {NoText, b.summary, b.indexingText} THEN loading ELSE b.text
<1>1. loading.kind = "loading" /\ loading \in Text
  BY TextTypes DEF LoadingRecords, Plain
<1>2. line = loading \/ (line = b.text /\ b.text # b.summary /\ b.text # b.indexingText)
  OBVIOUS
<1>3. c = [b EXCEPT !.indexing = TRUE, !.indexingText = loading, !.progress = TRUE, !.text = line]
  BY DEF SetIndexingProgress
<1> HIDE DEF loading, line
<1>4. /\ c.indexing /\ c.indexingText = loading /\ c.text = line /\ c.summary = b.summary
      /\ c.hasInfo = b.hasInfo /\ c.page = b.page /\ c.total = b.total
  BY <1>3 DEF Bar
<1> QED
  BY <1>1, <1>2, <1>4 DEF LineFits

\* The index failed.
LEMMA LineFailed ==
    ASSUME NEW b \in Bar, LineFits(b), NEW c, c = SetIndexingFailed(b)
    PROVE  /\ LineFits(c) /\ c.hasInfo = b.hasInfo /\ c.page = b.page /\ c.total = b.total
           /\ ~c.indexing
<1> DEFINE failed == [b EXCEPT !.indexing = FALSE, !.indexingText = NoText, !.error = "index",
                               !.progress = FALSE]
           warned == IF b.hasInfo THEN SetWarning(failed, "index") ELSE failed
<1>1. NoText.kind = "empty" /\ NoText \in Text /\ IndexingError.kind = "failed"
  BY TextTypes DEF NoText, IndexingError, Plain
<1>2. /\ failed \in Bar /\ ~failed.indexing /\ failed.indexingText = NoText /\ ~failed.progress
      /\ failed.hasInfo = b.hasInfo /\ failed.page = b.page /\ failed.total = b.total
      /\ failed.summary = b.summary
  BY <1>1 DEF Bar
<1>3. c = [warned EXCEPT !.text = IndexingError]
  BY <1>2 DEF SetIndexingFailed, SetValueText
<1> HIDE DEF failed
<1>4. /\ warned \in Bar /\ SameNews(failed, warned) /\ warned.indexingText = failed.indexingText
      /\ warned.progress = failed.progress
      /\ warned.summary.kind = b.summary.kind /\ warned.summary.page = b.summary.page
      /\ warned.summary.total = b.summary.total
  <2>1. CASE b.hasInfo
    <3>1. SetWarning(failed, "index") \in Bar
      BY <1>2, WarningType DEF Warning
    <3> QED
      BY <1>2, <2>1, <3>1, WarnedFields
  <2>2. CASE ~b.hasInfo
    BY <1>2, <2>2 DEF SameNews
  <2> QED
    BY <2>1, <2>2
<1> HIDE DEF warned
<1>5. /\ c.text = IndexingError /\ c.summary = warned.summary /\ SameNews(warned, c)
      /\ c.indexingText = warned.indexingText /\ c.progress = warned.progress
  BY <1>3, <1>4 DEF Bar, SameNews
<1> QED
  BY <1>1, <1>2, <1>4, <1>5 DEF LineFits, SameNews

\* What a page that arrives says on the line, and on the label.
LEMMA ArrivedStatus ==
    ASSUME ui \in Viewer, NEW e
    PROVE  LET c == SetPagedLoadInfo(ui.status, ui.pendingPage, ui.pager.total)
           IN  Arrived(e).status = c \/ Arrived(e).status = SetSorting(c, FALSE)
<1> DEFINE more == IF ui.pager.total # NoTotal
                   THEN ui.pager.total > ui.pendingPage * PageSize
                   ELSE e.hasMore
           p == [ui.pager EXCEPT !.page = ui.pendingPage, !.fromPrev = ui.pendingFromPrev,
                                 !.hasMore = more]
           status == SetPagedLoadInfo(ui.status, p.page, p.total)
           c == SetPagedLoadInfo(ui.status, ui.pendingPage, ui.pager.total)
           v == [ui EXCEPT !.inFlight = FALSE, !.busy = FALSE, !.firstPending = FALSE,
                           !.pager = p, !.bar = p, !.token = e.token,
                           !.status = status]
           w == [v EXCEPT !.committed = ui.pending, !.pending = Unsorted]
<1>1. p.page = ui.pendingPage /\ p.total = ui.pager.total
  BY DEF Viewer, Pager
<1>2. status = c
  BY <1>1
<1>3. Arrived(e) = v \/ Arrived(e) = FinishSortRecovery(w)
  BY DEF Arrived
<1> HIDE DEF c, status, p
<1>4. v.status = c /\ w.status = c
  BY <1>2 DEF Viewer
<1>5. FinishSortRecovery(w).status = SetSorting(w.status, FALSE)
  BY DEF FinishSortRecovery, Viewer
<1> HIDE DEF v, w
<1> QED
  BY <1>3, <1>4, <1>5 DEF c

-----------------------------------------------------------------------------
(* What the steps of the viewer do with it.                                *)

\* Leaving and loading begin with an empty bar.
LEMMA LeavingStatus ==
    ASSUME TypeOK, LoadSelectedTable \/ LeaveTable \/ OnOpenFailed
    PROVE  LineFits(ui'.status) /\ ~ui'.status.hasInfo /\ ~ui'.status.indexing
<1> DEFINE cleared == ShowLoading(SetSorting(ui.status, FALSE))
           closed == SetValueText(ClearBar, Message)
<1>1. ui'.status = cleared \/ ui'.status = closed
  <2>1. LoadSelectedTable => ui'.status = cleared
    BY DEF LoadSelectedTable, Cancelled, Reset
  <2>2. LeaveTable => ui'.status = cleared
    BY DEF LeaveTable, CancelPending, Cancelled, Reset
  <2>3. OnOpenFailed => ui'.status = closed
    BY DEF OnOpenFailed, CancelPending, Cancelled, Reset
  <2> QED
    BY <2>1, <2>2, <2>3
<1>2. LineFits(cleared) /\ ~cleared.hasInfo /\ ~cleared.indexing
  BY DEF ShowLoading, EmptyBar, NoText, Plain, LineFits
<1>3. LineFits(closed) /\ ~closed.hasInfo /\ ~closed.indexing
  BY DEF SetValueText, ClearBar, EmptyBar, NoText, Plain, LineFits
<1> HIDE DEF cleared, closed
<1> QED
  BY <1>1, <1>2, <1>3

\* A sort that ends or is cancelled changes the label, and may put a message.
LEMMA RecoveryStatus ==
    ASSUME NEW u \in Viewer, LineFits(u.status), NEW v,
           v \in {Recovering(u), FinishSortRecovery(u), FailSortRecovery(u)}
    PROVE  LineFits(v.status) /\ SameNews(u.status, v.status)
<1> DEFINE b == SetSorting(u.status, FALSE)
           c == SetValueText(b, Message)
<1>1. u.status \in Bar /\ b \in Bar
  <2>1. u.status \in Bar
    BY DEF Viewer
  <2> QED
    BY <2>1, SetterTypes, TextTypes
<1>2. v.status = b \/ v.status = c
  BY DEF Recovering, FinishSortRecovery, FailSortRecovery, Viewer
<1>3. LineFits(b) /\ SameNews(u.status, b)
  BY <1>1, LineSet
<1> HIDE DEF b
<1>4. LineFits(c) /\ SameNews(b, c)
  BY <1>1, <1>3, LineSet
<1> HIDE DEF c
<1> QED
  BY <1>2, <1>3, <1>4 DEF SameNews

\* Sorts, page turns and their answers, other than a page.
LEMMA OrdinaryStatus ==
    ASSUME TypeOK, LineFits(ui.status),
           \/ ClickSort \/ CancelSort \/ TurnPage \/ OnOpened \/ OnReopened
           \/ OnPageVanished \/ OnPageFailed \/ OnSortCompleted
    PROVE  LineFits(ui'.status) /\ SameNews(ui.status, ui'.status)
<1> DEFINE Goal == LineFits(ui'.status) /\ SameNews(ui.status, ui'.status)
<1>1. ui \in Viewer /\ ui.status \in Bar
  BY StateTypes
<1>2. ui'.status = ui.status => Goal
  BY DEF SameNews
<1>3. ui'.status = SetValueText(ui.status, Message) => Goal
  BY <1>1, LineSet
<1>4. ASSUME NEW u \in Viewer, u.status = ui.status,
             ui' \in {Recovering(u), FinishSortRecovery(u), FailSortRecovery(u)}
      PROVE  Goal
  BY <1>4, RecoveryStatus
<1>5. CASE ClickSort
  <2>1. ui'.status = SetSorting(ui.status, TRUE)
    BY <1>1, <1>5, ClickSortFacts DEF Viewer
  <2> QED
    BY <1>1, <2>1, LineSet
<1>6. CASE CancelSort
  BY <1>1, <1>4, <1>6 DEF CancelSort, RecoverSort
<1>7. CASE TurnPage \/ OnOpened
  <2>1. TurnPage => ui'.status = ui.status
    BY <1>1, TurnPageFacts DEF Viewer
  <2>2. OnOpened => ui'.status = ui.status
    BY <1>1 DEF OnOpened, Viewer
  <2> QED
    BY <1>2, <1>7, <2>1, <2>2
<1>8. CASE OnReopened
  <2> DEFINE u == [ui EXCEPT !.canSort = Head(events).canSort]
  <2>1. u \in Viewer /\ u.status = ui.status
    <3>1. Head(events).canSort \in BOOLEAN
      BY <1>8, HeadType DEF OnReopened, Receive
    <3> QED
      BY <1>1, <3>1 DEF Viewer
  <2>2. ui' \in {u, FinishSortRecovery(u), FailSortRecovery(u)}
    BY <1>8 DEF OnReopened
  <2> HIDE DEF u
  <2> QED
    BY <1>2, <1>4, <2>1, <2>2
<1>9. CASE OnPageVanished
  BY <1>3, <1>9, OnPageVanishedFacts
<1>10. CASE OnPageFailed
  <2> DEFINE u == [ui EXCEPT !.inFlight = FALSE, !.busy = FALSE]
  <2>1. u \in Viewer /\ u.status = ui.status
    BY <1>1 DEF Viewer
  <2>2. ui' = Recovering(u) \/ ui'.status = SetValueText(ui.status, Message)
    BY <1>10, OnPageFailedFacts DEF OnPageFailed, RecoverSort
  <2> HIDE DEF u
  <2> QED
    BY <1>3, <1>4, <2>1, <2>2
<1>11. CASE OnSortCompleted
  <2> DEFINE b == SetValueText(ui.status, Message)
             u == [ui EXCEPT !.status = b]
  <2>1. b \in Bar /\ LineFits(b) /\ SameNews(ui.status, b)
    BY <1>1, LineSet, SetterTypes, TextTypes
  <2> HIDE DEF b
  <2>2. u \in Viewer /\ u.status = b
    BY <1>1, <2>1 DEF Viewer
  <2>3. \/ ui' \in {FinishSortRecovery(ui), FailSortRecovery(ui)}
        \/ ui' = Recovering(u)
        \/ ui'.status = ui.status
    <3>1. \/ ui' \in {FinishSortRecovery(ui), FailSortRecovery(ui)}
          \/ RecoverSort(u)
          \/ ui' = [ui EXCEPT !.sortTotal = TRUE, !.pager.total = Head(events).total,
                              !.pendingPage = 1, !.pendingFromPrev = FALSE, !.inFlight = TRUE]
      BY <1>11 DEF OnSortCompleted, b
    <3>2. RecoverSort(u) => ui' = Recovering(u)
      BY DEF RecoverSort
    <3> QED
      BY <1>1, <3>1, <3>2 DEF Viewer
  <2> HIDE DEF u
  <2>4. ui' = Recovering(u) => LineFits(ui'.status) /\ SameNews(b, ui'.status)
    BY <2>1, <2>2, RecoveryStatus
  <2> QED
    BY <1>1, <1>2, <1>4, <2>1, <2>3, <2>4 DEF SameNews
<1> QED
  BY <1>5, <1>6, <1>7, <1>8, <1>9, <1>10, <1>11

\* A page.
LEMMA PageStatus ==
    ASSUME TypeOK, LineFits(ui.status), OnPageReady
    PROVE  /\ LineFits(ui'.status) /\ ui'.status.hasInfo
           /\ ui'.status.page = ui'.pager.page /\ ui'.status.total = ui'.pager.total
           /\ ui'.status.indexing = ui.status.indexing
<1> DEFINE e == Head(events)
           c == SetPagedLoadInfo(ui.status, ui.pendingPage, ui.pager.total)
           d == SetSorting(c, FALSE)
<1>1. ui \in Viewer /\ ui.status \in Bar /\ ui.pendingPage \in Nat /\ ui.pager.total \in Total
      /\ ui.pager \in Pager
  BY StateTypes
<1>2. e \in Event /\ ui'.pager = Arrived(e).pager /\ ui'.status = Arrived(e).status
  BY OnPageReadyFacts, HeadType DEF OnPageReady, Receive
<1>3. ui'.pager.page = ui.pendingPage /\ ui'.pager.total = ui.pager.total
  <2> DEFINE more == IF ui.pager.total # NoTotal
                     THEN ui.pager.total > ui.pendingPage * PageSize
                     ELSE e.hasMore
  <2>1. ui'.pager = [ui.pager EXCEPT !.page = ui.pendingPage,
                                     !.fromPrev = ui.pendingFromPrev, !.hasMore = more]
    BY <1>1, <1>2, ArrivedFields
  <2> HIDE DEF more
  <2> QED
    BY <1>1, <2>1 DEF Pager
<1>4. /\ c \in Bar /\ LineFits(c) /\ c.hasInfo /\ c.page = ui.pendingPage
      /\ c.total = ui.pager.total /\ c.indexing = ui.status.indexing
  <2>1. c \in Bar
    BY <1>1, LoadInfoType
  <2>2. /\ LineFits(c) /\ c.hasInfo /\ c.page = ui.pendingPage
        /\ c.total = ui.pager.total /\ c.indexing = ui.status.indexing
    BY <1>1, LinePaged
  <2> QED
    BY <2>1, <2>2
<1>5. ui'.status = c \/ ui'.status = d
  BY <1>1, <1>2, ArrivedStatus
<1> HIDE DEF c
<1>6. LineFits(d) /\ SameNews(c, d)
  BY <1>4, LineSet
<1> HIDE DEF d
<1> QED
  BY <1>3, <1>4, <1>5, <1>6 DEF SameNews

\* The user selects cells, signals are dropped, and what does not concern it.
LEMMA OtherStatus ==
    ASSUME TypeOK, LineFits(ui.status),
           \/ ClickUnsortable \/ SelectCell \/ IgnoreStaleSignal \/ Count
           \/ (DeleteRow /\ UNCHANGED guiVars) \/ UNCHANGED vars
    PROVE  /\ LineFits(ui'.status) /\ SameNews(ui.status, ui'.status)
           /\ SameUi /\ ui'.pager = ui.pager /\ ui'.bar = ui.bar
<1>1. ui \in Viewer /\ ui.status \in Bar
  BY StateTypes
<1>2. \/ ui' = ui
      \/ ui' = [ui EXCEPT !.status = SetValueText(ui.status, Message)]
      \/ ui' = [ui EXCEPT !.status = SetValueText(ui.status, CellText)]
      \/ ui' = [ui EXCEPT !.status = RestoreInfo(ui.status)]
  BY DEF ClickUnsortable, SelectCell, IgnoreStaleSignal, Count, guiVars, vars
<1>3. SameUi
  BY AsideFacts DEF Aside
<1>4. ui'.pager = ui.pager /\ ui'.bar = ui.bar
  BY <1>1, <1>2 DEF Viewer
<1>5. ASSUME NEW b, b \in {SetValueText(ui.status, Message), SetValueText(ui.status, CellText),
                           RestoreInfo(ui.status)}
      PROVE  LineFits(b) /\ SameNews(ui.status, b)
  BY <1>1, <1>5, LineSet, LineRestored
<1>6. \/ ui'.status = ui.status
      \/ ui'.status \in {SetValueText(ui.status, Message), SetValueText(ui.status, CellText),
                         RestoreInfo(ui.status)}
  BY <1>1, <1>2 DEF Viewer
<1> QED
  BY <1>3, <1>4, <1>5, <1>6 DEF SameNews

\* News of the index.
LEMMA IndexStatus ==
    ASSUME TypeOK, LineFits(ui.status), OnIndexProgress
    PROVE  /\ LineFits(ui'.status) /\ ui'.status.hasInfo = ui.status.hasInfo
           /\ ui'.status.page = ui.status.page
           /\ ui'.status.indexing => Head(events).ok /\ ~Head(events).complete
           /\ \/ /\ ui'.status.total = ui.status.total
                 /\ ui'.pager = ui.pager /\ ui'.bar = ui.bar
              \/ /\ ui.status.hasInfo => ui'.status.total = ui'.pager.total
                 /\ ~ui.firstPending => ui'.bar = ui'.pager
<1> DEFINE e == Head(events)
           failed == SetIndexingFailed(ui.status)
           going == SetIndexingProgress(ui.status, e.total)
           ended == UpdatePagedTotal(ui.status, e.total)
           p == [ui.pager EXCEPT !.total = e.total,
                                 !.hasMore = e.total > ui.pager.page * PageSize]
<1>1. ui \in Viewer /\ ui.status \in Bar /\ ui.pager \in Pager
  BY StateTypes
<1>2. e \in Event /\ e.total \in Total
  BY HeadType DEF OnIndexProgress, Receive
<1>3. \/ ~e.ok /\ ui' = [ui EXCEPT !.status = failed]
      \/ e.ok /\ ~e.complete /\ ui' = [ui EXCEPT !.status = going]
      \/ e.ok /\ e.complete
         /\ ui' = [ui EXCEPT !.pager = p, !.bar = IF ui.firstPending THEN ui.bar ELSE p,
                             !.status = ended]
  <2>1. Indexed(ui, e.total) = [ui EXCEPT !.pager = p,
                                          !.bar = IF ui.firstPending THEN ui.bar ELSE p,
                                          !.status = ended]
    BY DEF Indexed
  <2> QED
    BY <2>1 DEF OnIndexProgress
<1>4. p.total = e.total
  BY <1>1 DEF Pager
<1>5. /\ LineFits(failed) /\ failed.hasInfo = ui.status.hasInfo /\ failed.page = ui.status.page
      /\ failed.total = ui.status.total /\ ~failed.indexing
  BY <1>1, LineFailed
<1>6. /\ LineFits(going) /\ going.hasInfo = ui.status.hasInfo /\ going.page = ui.status.page
      /\ going.total = ui.status.total
  BY <1>1, <1>2, LineProgress
<1>7. /\ LineFits(ended) /\ ended.hasInfo = ui.status.hasInfo /\ ended.page = ui.status.page
      /\ ~ended.indexing /\ (ui.status.hasInfo => ended.total = e.total)
  BY <1>1, <1>2, LineTotal
<1> HIDE DEF failed, going, ended, p, e
<1>8. CASE ~e.ok /\ ui' = [ui EXCEPT !.status = failed]
  BY <1>1, <1>5, <1>8 DEF Viewer, e
<1>9. CASE e.ok /\ ~e.complete /\ ui' = [ui EXCEPT !.status = going]
  BY <1>1, <1>6, <1>9 DEF Viewer, e
<1>10. CASE e.ok /\ e.complete
            /\ ui' = [ui EXCEPT !.pager = p, !.bar = IF ui.firstPending THEN ui.bar ELSE p,
                                !.status = ended]
  <2>1. ui'.status = ended /\ ui'.pager = p /\ (~ui.firstPending => ui'.bar = p)
    BY <1>1, <1>10 DEF Viewer
  <2> QED
    BY <1>4, <1>7, <2>1
<1> QED
  BY <1>3, <1>8, <1>9, <1>10

\* A count.
LEMMA CountStatus ==
    ASSUME TypeOK, LineFits(ui.status), OnCountCompleted
    PROVE  /\ LineFits(ui'.status) /\ ui'.status.hasInfo = ui.status.hasInfo
           /\ ui'.status.page = ui.status.page
           /\ ui'.status.indexing => ui.status.indexing
           /\ \/ /\ ui'.status.total = ui.status.total
                 /\ ui'.pager = ui.pager /\ ui'.bar = ui.bar
              \/ /\ ui.status.hasInfo => ui'.status.total = ui'.pager.total
                 /\ ui'.bar = ui'.pager
<1> DEFINE e == Head(countEvents)
           warned == SetWarning(ui.status, "count")
           told == UpdatePagedTotal(ui.status, e.total)
           p == [ui.pager EXCEPT !.total = e.total]
<1>1. ui \in Viewer /\ ui.status \in Bar /\ ui.pager \in Pager
  BY StateTypes
<1>2. e.total \in Total
  BY CountTypes, FieldTypes DEF OnCountCompleted
<1>3. \/ ui' = ui
      \/ ui' = [ui EXCEPT !.countFailed = TRUE, !.status = warned]
      \/ ui' = [ui EXCEPT !.pager = p, !.bar = p, !.status = told]
  BY DEF OnCountCompleted, Counted
<1>4. p.total = e.total
  BY <1>1 DEF Pager
<1>5. LineFits(warned) /\ SameNews(ui.status, warned)
  BY <1>1, LineWarned
<1>6. /\ LineFits(told) /\ told.hasInfo = ui.status.hasInfo /\ told.page = ui.status.page
      /\ ~told.indexing /\ (ui.status.hasInfo => told.total = e.total)
  BY <1>1, <1>2, LineTotal
<1> HIDE DEF warned, told, p, e
<1>7. CASE ui' = ui
  BY <1>7
<1>8. CASE ui' = [ui EXCEPT !.countFailed = TRUE, !.status = warned]
  BY <1>1, <1>5, <1>8 DEF Viewer, SameNews
<1>9. CASE ui' = [ui EXCEPT !.pager = p, !.bar = p, !.status = told]
  <2>1. ui'.status = told /\ ui'.pager = p /\ ui'.bar = p
    BY <1>1, <1>9 DEF Viewer
  <2> QED
    BY <1>4, <1>6, <2>1
<1> QED
  BY <1>3, <1>7, <1>8, <1>9

-----------------------------------------------------------------------------
(* The status bar is in step with the pager: StatusInv.                    *)

\* A step that tells neither bar anything, and leaves what they were told.
LEMMA StatusKept ==
    ASSUME StatusInv, SameLoad, ui'.firstPending = ui.firstPending,
           LineFits(ui'.status), SameNews(ui.status, ui'.status),
           ui'.pager.page = ui.pager.page,
           ui.kind # "rowid" => ui'.pager.total = ui.pager.total /\ ui'.bar.total = ui.bar.total
    PROVE  StatusInv'
BY DEF StatusInv, ToldFits, SameLoad, SameNews

LEMMA StatusNext ==
    TypeOK /\ LoadsInv /\ OrderlyInv /\ StatusInv /\ [SharedNext]_vars => StatusInv'
<1> SUFFICES ASSUME TypeOK, LoadsInv, OrderlyInv, StatusInv, [SharedNext]_vars
             PROVE  StatusInv'
  OBVIOUS
<1>1. LineFits(ui.status) /\ FieldsInv /\ ui.pager \in Pager
  BY StateTypes DEF StatusInv, OrderlyInv, ProtocolInv
<1>2. CASE LoadSelectedTable \/ LeaveTable \/ OnOpenFailed
  <2>1. LineFits(ui'.status)
    BY <1>2, LeavingStatus
  <2>2. ~ui'.paged \/ ui'.firstPending
    BY <1>2, LoadFacts, LeaveFacts
  <2> QED
    BY <2>1, <2>2 DEF StatusInv
<1>3. CASE ClickSort \/ TurnPage
  <2>1. LineFits(ui'.status) /\ SameNews(ui.status, ui'.status)
    BY <1>1, <1>3, OrdinaryStatus
  <2>2. /\ SameLoad /\ ui'.firstPending = ui.firstPending
        /\ ui'.pager = ui.pager /\ ui'.bar = ui.bar
    <3>1. ui \in Viewer
      BY StateTypes
    <3>2. CASE ClickSort
      BY <3>1, <3>2, ClickSortFacts DEF Viewer
    <3>3. CASE TurnPage
      BY <3>1, <3>3, TurnPageFacts DEF Viewer
    <3> QED
      BY <1>3, <3>2, <3>3
  <2> QED
    BY <2>1, <2>2, StatusKept
<1>4. CASE CancelSort \/ OnReopened \/ OnPageFailed
  <2>1. LineFits(ui'.status) /\ SameNews(ui.status, ui'.status)
    BY <1>1, <1>4, OrdinaryStatus
  <2>2. /\ SameLoad /\ ui'.firstPending = ui.firstPending
        /\ ui'.pager = ui.pager /\ ui'.bar = ui.bar
    <3>1. CASE CancelSort
      BY <3>1, CancelSortFacts DEF GoesBack
    <3>2. CASE OnReopened
      BY <3>2, OnReopenedFacts DEF Recovered
    <3>3. CASE OnPageFailed
      BY <3>3, OnPageFailedFacts DEF GoesBack
    <3> QED
      BY <1>4, <3>1, <3>2, <3>3
  <2> QED
    BY <2>1, <2>2, StatusKept
<1>5. CASE OnOpened
  <2>1. LineFits(ui'.status)
    BY <1>1, <1>5, OrdinaryStatus
  <2>2. Receive("openCompleted") /\ ~ui.recovering /\ ui'.firstPending = ui.firstPending
    BY <1>5, OnOpenedFacts
  <2>3. SignalFits(Head(events)) /\ Head(events).sig = "openCompleted"
    BY <2>2, AnswerFits DEF OrderlyInv
  <2>4. ui.firstPending
    BY <2>2, <2>3 DEF SignalFits, Opening
  <2> QED
    BY <2>1, <2>2, <2>4 DEF StatusInv
<1>6. CASE OnPageReady
  <2>1. /\ LineFits(ui'.status) /\ ui'.status.hasInfo
        /\ ui'.status.page = ui'.pager.page /\ ui'.status.total = ui'.pager.total
    BY <1>1, <1>6, PageStatus
  <2>2. ui'.bar = ui'.pager
    BY <1>6, OnPageReadyFacts
  <2> QED
    BY <2>1, <2>2 DEF StatusInv, ToldFits
<1>7. CASE OnPageVanished
  <2>1. LineFits(ui'.status) /\ SameNews(ui.status, ui'.status)
    BY <1>1, <1>7, OrdinaryStatus
  <2>2. /\ SameLoad /\ ui'.firstPending = ui.firstPending
        /\ ui'.pager = [ui.pager EXCEPT !.hasMore = FALSE] /\ ui'.bar = ui'.pager
    BY <1>7, OnPageVanishedFacts
  <2>3. ui'.pager.page = ui.pager.page /\ ui'.pager.total = ui.pager.total
    BY <1>1, <2>2 DEF Pager
  <2>4. ui'.bar.total = ui'.pager.total
    BY <2>2
  <2> QED
    BY <2>1, <2>2, <2>3, <2>4 DEF StatusInv, ToldFits, SameLoad, SameNews
<1>8. CASE OnSortCompleted
  <2>1. LineFits(ui'.status) /\ SameNews(ui.status, ui'.status)
    BY <1>1, <1>8, OrdinaryStatus
  <2>2. ui.kind = "rowid"
    <3>1. Receive("sortCompleted")
      BY <1>8, OnSortCompletedFacts
    <3>2. SignalFits(Head(events)) /\ Head(events).sig = "sortCompleted"
      BY <3>1, AnswerFits DEF OrderlyInv
    <3> QED
      BY <1>1, <3>2 DEF SignalFits, FieldsInv
  <2>3. /\ SameLoad /\ ui'.firstPending = ui.firstPending
        /\ ui'.pager = ui.pager \/ ui'.pager = [ui.pager EXCEPT !.total = Head(events).total]
    BY <1>8, OnSortCompletedFacts DEF GoesBack, Recovered
  <2>4. ui'.pager.page = ui.pager.page
    BY <1>1, <2>3 DEF Pager
  <2> QED
    BY <2>1, <2>2, <2>3, <2>4, StatusKept
<1>9. CASE \/ ClickUnsortable \/ SelectCell \/ IgnoreStaleSignal \/ Count
           \/ (DeleteRow /\ UNCHANGED guiVars) \/ UNCHANGED vars
  <2>1. /\ LineFits(ui'.status) /\ SameNews(ui.status, ui'.status)
        /\ SameUi /\ ui'.pager = ui.pager /\ ui'.bar = ui.bar
    BY <1>1, <1>9, OtherStatus
  <2> QED
    BY <2>1, StatusKept DEF SameUi
<1>10. CASE OnIndexProgress \/ OnCountCompleted
  <2>1. SameUi
    BY <1>10, AsideFacts DEF Aside
  <2>2. /\ LineFits(ui'.status) /\ ui'.status.hasInfo = ui.status.hasInfo
        /\ ui'.status.page = ui.status.page
        /\ \/ /\ ui'.status.total = ui.status.total
              /\ ui'.pager = ui.pager /\ ui'.bar = ui.bar
           \/ /\ ui.status.hasInfo => ui'.status.total = ui'.pager.total
              /\ ~ui.firstPending => ui'.bar = ui'.pager
    BY <1>1, <1>10, IndexStatus, CountStatus
  <2> QED
    BY <2>1, <2>2 DEF StatusInv, ToldFits, SameUi, SameLoad
<1>11. CASE WorkerStep
  <2>1. ui' = ui
    BY <1>11 DEF WorkerStep, guiVars
  <2> QED
    BY <2>1 DEF StatusInv, ToldFits
<1> QED
  BY <1>2, <1>3, <1>4, <1>5, <1>6, <1>7, <1>8, <1>9, <1>10, <1>11
     DEF SharedNext, Next, UserNext, SignalNext, TurnPage

LEMMA StatusInit == Init => StatusInv
BY DEF Init, Reset, SetSorting, EmptyBar, NoText, Plain, StatusInv, LineFits

\* The two bars know the page, and unless a sort keeps it back the total, that
\* the pager has, and a text of the status bar is taken for what it is.
THEOREM StatusHolds == SharedSpec => []StatusInv
<1>1. TypeOK /\ LoadsInv /\ OrderlyInv /\ StatusInv /\ [SharedNext]_vars => StatusInv'
  BY StatusNext
<1> QED
  BY <1>1, StatusInit, ViewerTypeCorrect, LoadsHold, OrderlyHold, PTL DEF SharedSpec

\* What the status line says of the page is what the pager knows, whether page,
\* count or end of the index came last and whatever stood there in between;
\* where the table can be sorted the total may be the one before the sort.
THEOREM SummariesAreCurrent == SharedSpec => [](ui.kind # "rowid" => SummaryIsCurrent)
<1>1. OrderlyInv /\ StatusInv => (ui.kind # "rowid" => SummaryIsCurrent)
  BY DEF OrderlyInv, ProtocolInv, FieldsInv, OnDisplay, StatusInv, ToldFits, LineFits,
         SummaryIsCurrent
<1> QED
  BY <1>1, OrderlyHold, StatusHolds, PTL

\* The page bar shows the total the viewer knows, unless the table is one that
\* can be sorted: there it may stay behind.
THEOREM TotalsAreDisplayed == SharedSpec => [](ui.kind # "rowid" => TotalDisplayed)
<1>1. OrderlyInv /\ StatusInv => (ui.kind # "rowid" => TotalDisplayed)
  BY DEF OrderlyInv, ProtocolInv, FieldsInv, Settled, OnDisplay, StatusInv, ToldFits,
         TotalDisplayed
<1> QED
  BY <1>1, OrderlyHold, StatusHolds, PTL


-----------------------------------------------------------------------------
(* The end of an index that is waited for is announced: LoadingInv.        *)

\* The places of a queue.
LEMMA QueuePlaces ==
    ASSUME NEW S, NEW q \in Seq(S)
    PROVE  /\ Len(q) \in Nat /\ \A i \in DOMAIN q : i \in Nat \ {0} /\ i <= Len(q) + 1
           /\ DOMAIN q \subseteq Nat \ {0}
<1>1. Len(q) \in Nat /\ DOMAIN q = 1..Len(q)
  OBVIOUS
<1>2. \A i \in 1..Len(q) : i \in Nat \ {0} /\ i <= Len(q) + 1
  BY <1>1
<1> QED
  BY <1>1, <1>2

\* It is as well announced when more is to come.
LEMMA ToldWider ==
    ASSUME NEW q, NEW going, NEW goes, EndIsTold(q, going), going => goes
    PROVE  EndIsTold(q, goes)
BY DEF EndIsTold, EndFollows

\* A signal behind the others.
LEMMA ToldBehind ==
    ASSUME NEW q \in Seq(Event), NEW e \in Event, NEW going, NEW goes, EndIsTold(q, going),
           going => goes \/ EndsIndex(e),
           OfIndex(e) => ui.kind = "csv" /\ (goes \/ EndsIndex(e))
    PROVE  EndIsTold(Append(q, e), goes)
<1> DEFINE r == Append(q, e)
<1>1. /\ \A i \in DOMAIN q : i \in DOMAIN r /\ r[i] = q[i]
      /\ Len(q) + 1 \in DOMAIN r /\ r[Len(q) + 1] = e
      /\ \A i \in DOMAIN r : (i \in DOMAIN q /\ r[i] = q[i]) \/ (i = Len(q) + 1 /\ r[i] = e)
      /\ \A i \in DOMAIN q : i <= Len(q) + 1
      /\ Len(q) \in Nat
  <2>1. /\ Len(q) \in Nat /\ \A i \in DOMAIN q : i <= Len(q) + 1
    BY QueuePlaces
  <2> QED
    BY <2>1, QueueLast
<1> HIDE DEF r
<1>2. ASSUME NEW i \in Nat, i <= Len(q) + 1, EndFollows(q, i, going)
      PROVE  EndFollows(r, i, goes)
  BY <1>1, <1>2 DEF EndFollows
<1>3. ASSUME NEW i \in DOMAIN r, OfIndex(r[i])
      PROVE  ui.kind = "csv" /\ EndFollows(r, i, goes)
  <2>1. CASE i \in DOMAIN q /\ r[i] = q[i]
    <3>1. i \in Nat /\ i <= Len(q) + 1
      BY <1>1, <2>1
    <3> QED
      BY <1>2, <1>3, <2>1, <3>1 DEF EndIsTold
  <2>2. CASE i = Len(q) + 1 /\ r[i] = e
    BY <1>1, <1>3, <2>2 DEF EndFollows
  <2> QED
    BY <1>1, <2>1, <2>2
<1>4. ui.status.indexing => EndFollows(r, 1, goes)
  <2>1. 1 <= Len(q) + 1
    BY <1>1
  <2> QED
    BY <1>2, <2>1 DEF EndIsTold
<1> QED
  BY <1>3, <1>4 DEF EndIsTold, r

\* The first signal is read.
LEMMA ToldAfterRead ==
    ASSUME TypeOK, LoadingInv, ui.paged, SameLoad, UNCHANGED <<viewGen, src>>,
           events # <<>>, events' = Tail(events),
           EndsIndex(Head(events)) => ~ui'.status.indexing,
           ui'.status.indexing => ui.status.indexing \/ OfIndex(Head(events))
    PROVE  LoadingInv'
<1>1. /\ events \in Seq(Event) /\ 1 \in DOMAIN events /\ events[1] = Head(events)
      /\ \A i \in DOMAIN Tail(events) : i + 1 \in DOMAIN events /\ Tail(events)[i] = events[i + 1]
      /\ \A j \in DOMAIN events : j = 1 \/ j - 1 \in DOMAIN Tail(events)
      /\ Tail(events) \in Seq(Event)
  BY StateTypes, QueueTail
<1>2. DOMAIN Tail(events) \subseteq Nat \ {0} /\ DOMAIN events \subseteq Nat \ {0}
  BY <1>1, QueuePlaces
<1> DEFINE q == Tail(events)
<1> HIDE DEF q
<1>3. ASSUME NEW i \in DOMAIN q, EndFollows(events, i + 1, Indexing)
      PROVE  EndFollows(q, i, Indexing)
  <2>1. CASE Indexing
    BY <2>1 DEF EndFollows
  <2>2. ASSUME NEW j \in DOMAIN events, j >= i + 1, EndsIndex(events[j])
        PROVE  EndFollows(q, i, Indexing)
    <3>1. j \in Nat /\ i \in Nat /\ i > 0 /\ j > 1 /\ j - 1 >= i
      BY <1>2, <2>2 DEF q
    <3>2. j - 1 \in DOMAIN q /\ q[j - 1] = events[(j - 1) + 1]
      BY <1>1, <3>1 DEF q
    <3>3. q[j - 1] = events[j]
      BY <3>1, <3>2
    <3> QED
      BY <2>2, <3>1, <3>2, <3>3 DEF EndFollows
  <2> QED
    BY <1>3, <2>1, <2>2 DEF EndFollows
<1>4. ASSUME EndFollows(events, 1, Indexing), ~EndsIndex(Head(events))
      PROVE  EndFollows(q, 1, Indexing)
  <2>1. CASE Indexing
    BY <2>1 DEF EndFollows
  <2>2. ASSUME NEW j \in DOMAIN events, EndsIndex(events[j])
        PROVE  EndFollows(q, 1, Indexing)
    <3>1. j # 1
      BY <1>1, <1>4, <2>2
    <3>2. j \in Nat /\ j > 1 /\ j - 1 >= 1
      BY <1>2, <3>1
    <3>3. j - 1 \in DOMAIN q /\ q[j - 1] = events[(j - 1) + 1]
      BY <1>1, <3>2 DEF q
    <3>4. q[j - 1] = events[j]
      BY <3>2, <3>3
    <3> QED
      BY <2>2, <3>2, <3>3, <3>4 DEF EndFollows
  <2> QED
    BY <1>4, <2>1, <2>2 DEF EndFollows
<1>5. EndIsTold(events, Indexing)
  BY DEF LoadingInv
<1>6. ui'.status.indexing => EndFollows(q, 1, Indexing)
  <2> SUFFICES ASSUME ui'.status.indexing PROVE EndFollows(q, 1, Indexing)
    OBVIOUS
  <2>1. EndFollows(events, 1, Indexing)
    BY <1>1, <1>5 DEF EndIsTold
  <2> QED
    BY <1>4, <2>1
<1>7. ASSUME NEW i \in DOMAIN q, OfIndex(q[i])
      PROVE  ui.kind = "csv" /\ EndFollows(q, i, Indexing)
  <2>1. i + 1 \in DOMAIN events /\ q[i] = events[i + 1]
    BY <1>1 DEF q
  <2> QED
    BY <1>3, <1>5, <1>7, <2>1 DEF EndIsTold
<1>8. events' = q
  BY DEF q
<1>9. (\A e : OfIndex(e)' <=> OfIndex(e)) /\ (Indexing' <=> Indexing)
  BY DEF OfIndex, Indexing, IndexEnded, Broken
<1>10. \A i : EndFollows(q, i, Indexing) => EndFollows(events, i, Indexing)'
  BY <1>8 DEF EndFollows, EndsIndex, OfIndex, Indexing, IndexEnded, Broken
<1> QED
  BY <1>6, <1>7, <1>8, <1>9, <1>10 DEF LoadingInv, EndIsTold, SameLoad

\* A step of the worker.
LEMMA ToldByWorker ==
    ASSUME UNCHANGED <<ui, viewGen>>, NEW going, going <=> Indexing',
           EndIsTold(events', going)
    PROVE  LoadingInv'
BY DEF LoadingInv, EndIsTold, EndFollows, EndsIndex, OfIndex

\* While nothing changes the file, only the end of the index ends it.
LEMMA IndexGoesOn ==
    ASSUME TypeOK, TotalsInv', ui'.paged, NEW s \in Source, src' = s \/ src' = Verified(s),
           s.kind = "csv"
    PROVE  Indexing' \/ IndexEnded(s)
<1>1. /\ src'.kind = s.kind /\ src'.open = s.open /\ src'.complete = s.complete
      /\ src'.failed = s.failed
  BY VerifiedSame DEF SameSource
<1>2. src'.open => ~src'.changed
  BY <1>1 DEF TotalsInv
<1> QED
  BY <1>1, <1>2 DEF Indexing, IndexEnded, Broken

\* Nothing is indexed before open() has returned.
LEMMA NotIndexingYet ==
    ASSUME LoadsInv, PagesInv, ui.paged, task.op = "open"
    PROVE  ~Indexing
<1>1. CASE ui.kind = "rowid"
  BY <1>1 DEF LoadsInv, Indexing
<1>2. CASE ui.kind # "rowid"
  BY <1>2 DEF PagesInv, OpensOnce, OpenQueued, Indexing
<1> QED
  BY <1>1, <1>2

LEMMA FinishOpenTold ==
    ASSUME TypeOK, LoadsInv, PagesInv, LoadingInv, ui.paged, WorkerStep, FinishOpen
    PROVE  LoadingInv'
<1> DEFINE going == Indexing'
<1>0. going <=> Indexing'
  OBVIOUS
<1>1. WorkerTypeOK /\ events \in Seq(Event) /\ UNCHANGED <<ui, viewGen>>
  BY StateTypes, FinishOpenFacts DEF WorkerStep, guiVars
<1>2. task.op = "open" /\ src' \in OpenOutcomes(task) /\ task \in Call
  BY <1>1, FinishOpenFacts DEF WorkerTypeOK
<1>3. EndIsTold(events, going)
  BY <1>2, NotIndexingYet, ToldWider DEF LoadingInv
<1>4. CASE events' = events
  BY <1>0, <1>1, <1>3, <1>4, ToldByWorker
<1>5. ASSUME NEW done \in Event, done.sig = "openCompleted",
             \/ events' = Append(events, done)
             \/ events' = Append(Append(events, done), Progress(task.view, src'))
                /\ src'.complete /\ src'.kind = "csv"
      PROVE  LoadingInv'
  <2> DEFINE first == Append(events, done)
             e == Progress(task.view, src')
  <2>1. EndIsTold(first, going)
    <3>1. ~OfIndex(done)
      BY <1>5 DEF OfIndex
    <3> HIDE DEF going
    <3> QED
      BY <1>1, <1>3, <3>1, ToldBehind
  <2>2. CASE events' = first
    BY <1>0, <1>1, <2>1, <2>2, ToldByWorker
  <2>3. CASE events' = Append(first, e) /\ src'.complete /\ src'.kind = "csv"
    <3>1. first \in Seq(Event)
      BY <1>1, <1>5, QueueAppend
    <3>2. e \in Event
      <4>1. src' \in Source /\ task.view \in Nat
        BY <1>1, <1>2, OpenOutcomesType DEF Call
      <4> QED
        BY <4>1, ProgressType
    <3>3. OfIndex(e) => EndsIndex(e) /\ ui.kind = "csv"
      <4>1. e.complete
        BY <2>3, EventFields
      <4>2. src'.kind = task.kind
        BY <1>1, <1>2, OpenOutcomesType
      <4>3. task # NoCall
        BY <1>2, NoCallType
      <4>4. task.kind = ui.kind
        BY <4>3 DEF LoadsInv, CallBelongs
      <4> QED
        BY <2>3, <4>1, <4>2, <4>4 DEF EndsIndex
    <3> HIDE DEF first, e, going
    <3>4. EndIsTold(Append(first, e), going)
      BY <2>1, <3>1, <3>2, <3>3, ToldBehind
    <3> QED
      BY <1>0, <1>1, <2>3, <3>4, ToldByWorker
  <2> QED
    BY <1>5, <2>2, <2>3
<1> QED
  BY <1>1, <1>4, <1>5, FinishOpenFacts

\* A page or the end of a sort is not about the index.
LEMMA OtherTold ==
    ASSUME TypeOK, TypeOK', TotalsInv', LoadingInv, ui.paged, UNCHANGED <<ui, viewGen>>,
           src' = src \/ src' = Verified(src) \/ (src'.kind # "csv" /\ src.kind # "csv"),
           \/ events' = events
           \/ \E e \in Event : e.sig # "indexProgress" /\ events' = Append(events, e)
    PROVE  LoadingInv'
<1> DEFINE going == Indexing'
<1>0. going <=> Indexing'
  OBVIOUS
<1>1. src \in Source /\ events \in Seq(Event)
  BY StateTypes DEF WorkerTypeOK
<1>2. Indexing => going
  <2>1. CASE (src' = src \/ src' = Verified(src)) /\ src.kind = "csv"
    BY <1>1, <2>1, IndexGoesOn DEF Indexing
  <2>2. CASE src.kind # "csv"
    BY <2>2 DEF Indexing
  <2> QED
    BY <2>1, <2>2
<1>3. EndIsTold(events, going)
  BY <1>2, ToldWider DEF LoadingInv
<1>4. CASE events' = events
  BY <1>0, <1>3, <1>4, ToldByWorker
<1>5. ASSUME NEW e \in Event, e.sig # "indexProgress", events' = Append(events, e)
      PROVE  LoadingInv'
  <2>1. ~OfIndex(e)
    BY <1>5 DEF OfIndex
  <2> HIDE DEF going
  <2>2. EndIsTold(Append(events, e), going)
    BY <1>1, <1>3, <2>1, ToldBehind
  <2> QED
    BY <1>0, <1>5, <2>2, ToldByWorker
<1> QED
  BY <1>4, <1>5

LEMMA FetchPageTold ==
    ASSUME TypeOK, TypeOK', TotalsInv', LoadingInv, ui.paged, WorkerStep, FetchPage
    PROVE  LoadingInv'
<1> DEFINE c == Head(inbox)
<1>1. WorkerTypeOK /\ UNCHANGED <<ui, viewGen>> /\ c \in Call /\ c.op \in PageOps
  BY StateTypes, FetchPageFacts, TakeCallType DEF WorkerStep, guiVars, FetchPage
<1>2. src \in Source
  BY <1>1 DEF WorkerTypeOK
<1>3. \A page \in Pages(c, src) :
         PageReady(c, page) \in Event /\ PageReady(c, page).sig = "pageReady"
  BY <1>1, <1>2, PagesType, PageReadyType, EventFields
<1>4. /\ src' = src \/ src' = Verified(src)
      /\ \/ events' = events
         \/ \E page \in Pages(c, src) : events' = Append(events, PageReady(c, page))
  BY <1>1, FetchPageFacts
<1> HIDE DEF c
<1>5. \/ events' = events
      \/ \E e \in Event : e.sig # "indexProgress" /\ events' = Append(events, e)
  BY <1>3, <1>4
<1> QED
  BY <1>1, <1>4, <1>5, OtherTold

LEMMA FinishSortTold ==
    ASSUME TypeOK, TypeOK', LoadsInv, TotalsInv', LoadingInv, ui.paged, WorkerStep, FinishSort
    PROVE  LoadingInv'
<1>1. WorkerTypeOK /\ UNCHANGED <<ui, viewGen>>
  BY StateTypes, FinishSortFacts DEF WorkerStep, guiVars
<1>2. src' = src \/ (src'.kind # "csv" /\ src.kind # "csv")
  BY <1>1, FinishSortFacts DEF CanSort
<1>3. \/ events' = events
      \/ \E e \in Event : e.sig # "indexProgress" /\ events' = Append(events, e)
  BY <1>1, FinishSortFacts
<1> QED
  BY <1>1, <1>2, <1>3, OtherTold

LEMMA IndexSliceTold ==
    ASSUME TypeOK, LoadsInv, TotalsInv', LoadingInv, ui.paged, WorkerStep, IndexSlice
    PROVE  LoadingInv'
<1> DEFINE going == Indexing'
           c == Head(inbox)
<1>0. going <=> Indexing'
  OBVIOUS
<1>1. WorkerTypeOK /\ UNCHANGED <<ui, viewGen>> /\ events \in Seq(Event)
  BY StateTypes, IndexSliceFacts DEF WorkerStep, guiVars
<1>2. CASE UNCHANGED <<parked, src, events>>
  BY <1>1, <1>2 DEF LoadingInv, EndIsTold, EndFollows, EndsIndex, OfIndex, Indexing, IndexEnded,
                    Broken
<1>3. ASSUME NEW s \in SliceOutcomes(src), NEW sofar \in Seq(Event), s \in Source,
             src.kind = "csv", c.view = viewGen,
             src' = s \/ src' = Verified(s),
             \/ sofar = events /\ ~IndexEnded(s)
             \/ sofar = Append(events, Progress(c.view, s)),
             Progress(c.view, s) \in Event
      PROVE  EndIsTold(sofar, going)
  <2> DEFINE e == Progress(c.view, s)
  <2>1. s.kind = "csv" /\ ui.kind = "csv"
    <3>1. src \in Source
      BY <1>1 DEF WorkerTypeOK
    <3>2. s.kind = "csv"
      BY <1>1, <1>3, <3>1, SliceOutcomesFacts DEF SameSource
    <3> QED
      BY <1>3, <3>2 DEF LoadsInv
  <2>2. going \/ IndexEnded(s)
    BY <1>1, <1>3, <2>1, IndexGoesOn
  <2>3. IndexEnded(s) => EndsIndex(e)
    <3>1. e.sig = "indexProgress" /\ e.view = viewGen /\ e.ok = ~Broken(s)
          /\ e.complete = s.complete
      BY <1>3, EventFields
    <3> QED
      BY <3>1 DEF EndsIndex, OfIndex, IndexEnded
  <2> HIDE DEF going, e
  <2>4. CASE sofar = events /\ ~IndexEnded(s)
    BY <2>2, <2>4, ToldWider DEF LoadingInv
  <2>5. CASE sofar = Append(events, e)
    <3>1. e \in Event
      BY <1>3 DEF e
    <3>2. EndIsTold(events, Indexing)
      BY DEF LoadingInv
    <3> QED
      BY <1>1, <2>1, <2>2, <2>3, <2>5, <3>1, <3>2, ToldBehind
  <2> QED
    BY <1>3, <2>4, <2>5 DEF e
<1>4. ASSUME NEW s \in Source, NEW sofar \in Seq(Event), EndIsTold(sofar, going),
             NEW page \in Pages(parked, s), parked # NoCall
      PROVE  EndIsTold(Append(sofar, PageReady(parked, page)), going)
  <2> DEFINE e == PageReady(parked, page)
  <2>1. parked \in Call /\ parked.op \in PageOps
    BY <1>1, <1>4 DEF WorkerTypeOK
  <2>2. e \in Event /\ e.sig = "pageReady"
    BY <1>1, <1>4, <2>1, PagesType, PageReadyType, EventFields
  <2> HIDE DEF e, going
  <2>3. ~OfIndex(e)
    BY <2>2 DEF OfIndex
  <2>4. EndIsTold(Append(sofar, e), going)
    BY <1>4, <2>2, <2>3, ToldBehind
  <2> QED
    BY <2>4 DEF e
<1> HIDE DEF going
<1>5. CASE ~UNCHANGED <<parked, src, events>>
  <2>1. PICK s \in SliceOutcomes(src), sofar \in Seq(Event) :
           /\ s \in Source /\ src.kind = "csv" /\ c.view = viewGen
           /\ src' = s \/ src' = Verified(s)
           /\ \/ sofar = events /\ ~IndexEnded(s)
              \/ sofar = Append(events, Progress(c.view, s))
           /\ Progress(c.view, s) \in Event
           /\ \/ events' = sofar
              \/ /\ parked # NoCall
                 /\ \E page \in Pages(parked, s) :
                       events' = Append(sofar, PageReady(parked, page))
    BY <1>1, <1>5, IndexSliceFacts
  <2> HIDE DEF c
  <2>2. EndIsTold(sofar, going)
    BY <1>3, <2>1
  <2>3. EndIsTold(events', going)
    BY <1>4, <2>1, <2>2
  <2> QED
    BY <1>0, <1>1, <2>3, ToldByWorker
<1> QED
  BY <1>2, <1>5

LEMMA WorkerStepTold ==
    ASSUME TypeOK, TypeOK', LoadsInv, TotalsInv', PagesInv, LoadingInv, WorkerStep
    PROVE  LoadingInv'
<1>1. ui' = ui /\ WorkerTypeOK
  BY StateTypes DEF WorkerStep, guiVars
<1>2. CASE ~ui.paged
  BY <1>1, <1>2 DEF LoadingInv
<1>3. CASE ui.paged /\ BeginTask
  <2>1. UNCHANGED <<viewGen, src, events>>
    BY <1>1, <1>3, BeginTaskFacts
  <2> QED
    BY <1>1, <2>1 DEF LoadingInv, EndIsTold, EndFollows, EndsIndex, OfIndex, Indexing, IndexEnded,
                      Broken
<1>4. CASE ui.paged /\ Shutdown
  <2>1. inbox # <<>> /\ Head(inbox).op = "shutdown" /\ inbox \in Seq(Call)
    BY <1>1, <1>4, ShutdownFacts DEF WorkerTypeOK
  <2>2. 1 \in DOMAIN inbox /\ inbox[1] = Head(inbox)
    BY <2>1, QueueTail
  <2> QED
    BY <1>4, <2>1, <2>2 DEF LoadsInv, CallBelongs
<1> QED
  BY <1>2, <1>3, <1>4, FinishOpenTold, FinishSortTold, FetchPageTold, IndexSliceTold
     DEF WorkerStep, WorkerNext

\* A step of the viewer that reads no signal.
LEMMA ToldStill ==
    ASSUME LoadingInv, ui.paged, SameLoad, UNCHANGED <<viewGen, src, events>>,
           ui'.status.indexing => ui.status.indexing
    PROVE  LoadingInv'
BY DEF LoadingInv, EndIsTold, EndFollows, EndsIndex, OfIndex, Indexing, IndexEnded, Broken, SameLoad

\* An answer, which is not about the index.
LEMMA AnswerTold ==
    ASSUME TypeOK, LoadsInv, OrderlyInv, StatusInv, LoadingInv,
           OnOpened \/ OnReopened \/ OnPageReady \/ OnPageVanished \/ OnPageFailed \/ OnSortCompleted
    PROVE  LoadingInv'
<1>1. LineFits(ui.status)
  BY DEF StatusInv
<1>2. ui'.status.indexing = ui.status.indexing
  BY <1>1, OrdinaryStatus, PageStatus DEF SameNews
<1>3. PICK sig \in {"openCompleted", "pageReady", "sortCompleted"} : Receive(sig)
  BY DEF OnOpened, OnReopened, OnPageReady, OnPageVanished, OnPageFailed, OnSortCompleted
<1>4. /\ ui.paged /\ events # <<>> /\ events' = Tail(events) /\ src' = src
      /\ Head(events).sig = sig /\ sig # "indexProgress"
  BY <1>3, ReceiveShape
<1>5. SameLoad /\ viewGen' = viewGen
  <2>1. CASE OnOpened \/ OnReopened
    BY <2>1, OnOpenedFacts, OnReopenedFacts DEF Recovered
  <2>2. CASE OnPageReady
    BY <2>2, OnPageReadyFacts DEF OnPageReady
  <2>3. CASE OnPageVanished
    BY <2>3, OnPageVanishedFacts DEF OnPageVanished
  <2>4. CASE OnPageFailed \/ OnSortCompleted
    BY <2>4, OnPageFailedFacts, OnSortCompletedFacts DEF GoesBack, Recovered
  <2> QED
    BY <2>1, <2>2, <2>3, <2>4
<1>6. ~EndsIndex(Head(events))
  BY <1>4 DEF EndsIndex, OfIndex
<1> QED
  BY <1>2, <1>4, <1>5, <1>6, ToldAfterRead

\* News of the index.
LEMMA IndexTold ==
    ASSUME TypeOK, LoadsInv, StatusInv, LoadingInv, OnIndexProgress
    PROVE  LoadingInv'
<1> DEFINE e == Head(events)
<1>1. /\ ui.paged /\ events # <<>> /\ events' = Tail(events) /\ src' = src
      /\ e.sig = "indexProgress" /\ e.view = viewGen
  BY ReceiveShape DEF OnIndexProgress
<1>2. SameLoad /\ viewGen' = viewGen
  BY AsideFacts DEF Aside, SameUi
<1>3. ui'.status.indexing => e.ok /\ ~e.complete
  BY IndexStatus DEF StatusInv
<1>4. OfIndex(e)
  BY <1>1 DEF OfIndex
<1>5. EndsIndex(e) => ~ui'.status.indexing
  BY <1>3 DEF EndsIndex
<1> QED
  BY <1>1, <1>2, <1>4, <1>5, ToldAfterRead

\* A signal that is dropped does not end the index of the load.
LEMMA StaleTold ==
    ASSUME TypeOK, LoadsInv, LoadingInv, ui.paged, IgnoreStaleSignal
    PROVE  LoadingInv'
<1> DEFINE e == Head(events)
<1>1. /\ events # <<>> /\ events' = Tail(events) /\ ~IsCurrent(e)
      /\ UNCHANGED <<viewGen, src, ui>>
  BY DEF IgnoreStaleSignal, guiVars
<1>2. 1 \in DOMAIN events /\ events[1] = e
  BY <1>1, StateTypes, QueueTail
<1>3. ~EndsIndex(e)
  <2>1. EndIsTold(events, Indexing)
    BY DEF LoadingInv
  <2>2. OfIndex(e) => ui.kind = "csv"
    BY <1>2, <2>1 DEF EndIsTold
  <2>3. ~OfIndex(e)
    BY <1>1, <2>2 DEF OfIndex, IsCurrent, LoadsInv
  <2> QED
    BY <2>3 DEF EndsIndex
<1>4. SameLoad
  BY <1>1 DEF SameLoad
<1> QED
  BY <1>1, <1>3, <1>4, ToldAfterRead

\* A new load waits for no index, and nothing on its way is about its own.
LEMMA LoadTold ==
    ASSUME TypeOK, LoadsInv, LoadSelectedTable
    PROVE  LoadingInv'
<1>1. viewGen \in Nat /\ viewGen' = viewGen + 1 /\ events' = events
  BY StateTypes, LoadFacts DEF LoadsInv
<1>2. ~ui'.status.indexing
  BY LeavingStatus
<1>3. ASSUME NEW i \in DOMAIN events PROVE events[i].view # viewGen + 1
  <2>1. events[i].view \in Nat
    <3>1. events \in Seq(Event)
      BY StateTypes
    <3>2. events[i] \in Event
      BY <1>3, <3>1
    <3> QED
      BY <3>2 DEF Event
  <2>2. events[i].view <= viewGen
    BY <1>1, <2>1 DEF LoadsInv, Past
  <2> QED
    BY <1>1, <2>1, <2>2
<1> QED
  BY <1>1, <1>2, <1>3 DEF LoadingInv, EndIsTold, OfIndex

LEMMA LoadingNext ==
    /\ TypeOK /\ TypeOK' /\ LoadsInv /\ OrderlyInv /\ TotalsInv' /\ PagesInv /\ StatusInv
    /\ LoadingInv /\ [Next]_vars
    => LoadingInv'
<1> SUFFICES ASSUME TypeOK, TypeOK', LoadsInv, OrderlyInv, TotalsInv', PagesInv, StatusInv,
                    LoadingInv, [Next]_vars
             PROVE  LoadingInv'
  OBVIOUS
<1>1. LineFits(ui.status)
  BY DEF StatusInv
<1>2. CASE LoadSelectedTable
  BY <1>2, LoadTold
<1>3. CASE LeaveTable \/ OnOpenFailed
  BY <1>3, LeaveFacts DEF LoadingInv
<1>4. CASE ClickSort \/ CancelSort \/ TurnPage
  <2>1. ui'.status.indexing = ui.status.indexing
    BY <1>1, <1>4, OrdinaryStatus DEF SameNews
  <2>2. SameLoad /\ UNCHANGED <<viewGen, src, events>> /\ ui.paged
    <3>1. ui \in Viewer
      BY StateTypes
    <3>2. CASE ClickSort
      BY <3>1, <3>2, ClickSortFacts DEF SameLoad, Viewer
    <3>3. CASE CancelSort
      BY <3>3, CancelSortFacts DEF GoesBack, LoadsInv
    <3>4. CASE TurnPage
      BY <3>1, <3>4, TurnPageFacts DEF SameLoad, Viewer
    <3> QED
      BY <1>4, <3>2, <3>3, <3>4
  <2> QED
    BY <2>1, <2>2, ToldStill
<1>5. CASE \/ OnOpened \/ OnReopened \/ OnPageReady \/ OnPageVanished \/ OnPageFailed
           \/ OnSortCompleted
  BY <1>5, AnswerTold
<1>6. CASE OnIndexProgress
  BY <1>6, IndexTold
<1>7. CASE ~ui.paged /\ Aside
  BY <1>7, AsideFacts DEF LoadingInv, SameUi, SameLoad
<1>8. CASE ui.paged /\ IgnoreStaleSignal
  BY <1>8, StaleTold
<1>9. CASE ui.paged /\ (ClickUnsortable \/ SelectCell \/ Count \/ OnCountCompleted \/ UNCHANGED vars)
  <2>1. events' = events
    BY <1>9 DEF ClickUnsortable, SelectCell, Count, OnCountCompleted, vars, workerVars
  <2>2. SameLoad /\ UNCHANGED <<viewGen, src>>
    BY <1>9, AsideFacts DEF Aside, SameUi
  <2>3. ui'.status.indexing => ui.status.indexing
    BY <1>1, <1>9, OtherStatus, CountStatus DEF SameNews
  <2> QED
    BY <1>9, <2>1, <2>2, <2>3, ToldStill
<1>10. CASE WorkerStep
  BY <1>10, WorkerStepTold
<1> QED
  BY <1>2, <1>3, <1>4, <1>5, <1>6, <1>7, <1>8, <1>9, <1>10
     DEF Next, UserNext, SignalNext, TurnPage, Aside

LEMMA LoadingInit == Init => LoadingInv
BY DEF Init, Reset, LoadingInv

\* The end of an index the status bar waits for is announced, behind whatever
\* says that it goes on.
THEOREM IndexEndsAreTold == Spec => []LoadingInv
<1>1. /\ TypeOK /\ TypeOK' /\ LoadsInv /\ OrderlyInv /\ TotalsInv' /\ PagesInv /\ StatusInv
      /\ LoadingInv /\ [Next]_vars
      => LoadingInv'
  BY LoadingNext
<1>2. Spec => []TypeOK /\ []LoadsInv /\ []OrderlyInv /\ []StatusInv
  BY SpecIsShared, ViewerTypeCorrect, LoadsHold, OrderlyHold, StatusHolds, PTL
<1> QED
  BY <1>1, <1>2, LoadingInit, TotalsHold, PagesHold, PTL DEF Spec

\* Once the index has ended and its signals are read, a window that shows a page
\* neither says that records are being loaded nor shows the progress bar.
THEOREM LoadingEnds == Spec => []LoadingTextEnds
<1>1. LoadsInv /\ OrderlyInv /\ StatusInv /\ LoadingInv => LoadingTextEnds
  <2> SUFFICES ASSUME LoadsInv, OrderlyInv, StatusInv, LoadingInv, OnDisplay, events = <<>>,
                      ui.kind = "csv" => IndexEnded(src)
               PROVE  ui.status.text.kind # "loading" /\ ~ui.status.progress
    BY DEF LoadingTextEnds
  <2>1. ui.paged /\ ~ui.firstPending
    BY DEF OnDisplay, OrderlyInv, ProtocolInv, FieldsInv
  <2>2. LineFits(ui.status) /\ ui.status.hasInfo
    BY <2>1 DEF StatusInv, ToldFits
  <2>3. ~Indexing
    BY <2>1 DEF Indexing, LoadsInv
  <2>4. ~ui.status.indexing
    BY <2>1, <2>3 DEF LoadingInv, EndIsTold, EndFollows
  <2> QED
    BY <2>2, <2>4 DEF LineFits
<1>2. Spec => []LoadsInv /\ []OrderlyInv /\ []StatusInv
  BY SpecIsShared, LoadsHold, OrderlyHold, StatusHolds, PTL
<1> QED
  BY <1>1, <1>2, IndexEndsAreTold, PTL


-----------------------------------------------------------------------------
(* A selected cell stays on the line: CellTextKept.                        *)

\* A page turn leads to another page.
LEMMA AwayNext ==
    TypeOK /\ LoadsInv /\ OrderlyInv /\ TurnsAway /\ [SharedNext]_vars => TurnsAway'
<1> SUFFICES ASSUME TypeOK, LoadsInv, OrderlyInv, TurnsAway, [SharedNext]_vars
             PROVE  TurnsAway'
  OBVIOUS
<1>1. FieldsInv /\ ui \in Viewer
  BY StateTypes DEF OrderlyInv, ProtocolInv
<1>2. CASE LoadSelectedTable
  BY <1>2, LoadFacts DEF TurnsAway, WasReset
<1>3. CASE LeaveTable \/ OnOpenFailed
  <2>1. ui'.kind = "csv"
    BY <1>3 DEF LeaveTable, OnOpenFailed, CancelPending, Cancelled, Reset
  <2> QED
    BY <1>3, <2>1, LeaveFacts DEF TurnsAway, WasReset
<1>4. CASE ClickSort
  BY <1>1, <1>4, ClickSortFacts DEF TurnsAway, Viewer
<1>5. CASE CancelSort
  BY <1>5, CancelSortFacts DEF TurnsAway, GoesBack, SameLoad
<1>6. CASE TurnPage
  <2>1. PICK op \in PageOps, page \in Nat, fromPrev \in BOOLEAN, total \in Total :
           /\ TurnsTo(op, page, fromPrev, total)
           /\ ui' = [ui EXCEPT !.inFlight = TRUE, !.busy = TRUE,
                               !.pendingPage = page, !.pendingFromPrev = fromPrev]
    BY <1>6, TurnPageFacts
  <2>2. page # ui.pager.page
    <3>1. ui.pager.page \in Nat
      BY StateTypes
    <3> QED
      BY <2>1, <3>1 DEF TurnsTo, CanFirst, CanPrev, CanLast
  <2>3. ui'.pendingPage = page /\ ui'.pager = ui.pager /\ ui'.kind = ui.kind
    BY <1>1, <2>1 DEF Viewer
  <2> QED
    BY <2>2, <2>3 DEF TurnsAway
<1>7. CASE OnOpened
  <2>1. /\ Receive("openCompleted") /\ ~ui.recovering /\ SameLoad
        /\ ui'.firstPending = ui.firstPending
    BY <1>7, OnOpenedFacts
  <2>2. SignalFits(Head(events)) /\ Head(events).sig = "openCompleted"
    BY <2>1, AnswerFits DEF OrderlyInv
  <2>3. ui.firstPending
    BY <2>1, <2>2 DEF SignalFits, Opening
  <2> QED
    BY <2>1, <2>3 DEF TurnsAway, SameLoad
<1>8. CASE OnReopened
  BY <1>1, <1>8, OnReopenedFacts DEF TurnsAway, FieldsInv, Recovered, SameLoad
<1>9. CASE OnPageReady \/ OnPageVanished
  BY <1>9, OnPageReadyFacts, OnPageVanishedFacts DEF TurnsAway, SameLoad
<1>10. CASE OnPageFailed
  BY <1>10, OnPageFailedFacts DEF TurnsAway, SameLoad, GoesBack
<1>11. CASE OnSortCompleted
  <2>1. SignalFits(Head(events)) /\ Head(events).sig = "sortCompleted"
    BY <1>11, OnSortCompletedFacts, AnswerFits DEF OrderlyInv
  <2>2. ui.sorting
    BY <2>1 DEF SignalFits
  <2> QED
    BY <1>1, <1>11, <2>2, OnSortCompletedFacts
       DEF TurnsAway, FieldsInv, Recovered, GoesBack, SameLoad, SameOrder
<1>12. CASE Aside
  BY <1>12, AsideFacts DEF TurnsAway, SameUi, SameLoad
<1>13. CASE WorkerStep
  BY <1>13 DEF TurnsAway, WorkerStep, guiVars
<1> QED
  BY <1>2, <1>3, <1>4, <1>5, <1>6, <1>7, <1>8, <1>9, <1>10, <1>11, <1>12, <1>13
     DEF SharedNext, Next, UserNext, SignalNext, TurnPage, Aside

\* Rows that fit a page begin where the page does.
LEMMA FitsBegin ==
    ASSUME TypeOK, NEW s \in Seq(Nat), s # <<>>, NEW order \in Order, NEW p \in Nat \ {0},
           RowsFit(s, order, p)
    PROVE  Start(p) + 1 \in 1..RowCount /\ s[1] = Ranked(rows, order)[Start(p) + 1]
<1> DEFINE all == Ranked(rows, order)
           there == PageOf(order, p)
<1>1. all \in Seq(Nat) /\ Len(all) = RowCount
  <2>1. rows \in SUBSET Row
    BY StateTypes DEF WorkerTypeOK
  <2> QED
    BY <2>1, AllRows DEF RowCount
<1>2. there = PageIn(all, p)
  BY PagesAreRuns
<1>3. there \in Seq(Nat) /\ there # <<>>
  BY RowsMeanPage, RowsOnPage
<1> HIDE DEF all, there
<1>4. /\ Start(p) \in Nat /\ Start(p) + 1 \in 1..RowCount
      /\ Head(there) = all[Start(p) + 1]
  <2> DEFINE o == Start(p)
             k == Left(Len(all), o, PageSize)
  <2>1. o \in Nat /\ k \in 1..PageSize /\ o + k <= Len(all) /\ Head(there) = all[o + 1]
    BY <1>1, <1>2, <1>3, PageEnds
  <2>2. PageSize \in Nat /\ Len(all) \in Nat
    BY <1>1, PageSizeAssumption
  <2> HIDE DEF o, k
  <2>3. o + 1 \in 1..RowCount
    BY <1>1, <2>1, <2>2
  <2> QED
    BY <2>1, <2>3 DEF o
<1>5. s[1] = Head(there)
  <2>1. CASE s = there
    BY <1>3, <2>1
  <2>2. CASE s = AtMost(there, Len(s))
    <3> DEFINE m == IF Len(there) < Len(s) THEN Len(there) ELSE Len(s)
    <3>1. Len(s) \in Nat /\ Len(s) > 0 /\ Len(there) \in Nat /\ Len(there) > 0
      BY <1>3
    <3>2. m \in 1..Len(there)
      BY <3>1
    <3> HIDE DEF m
    <3>3. \A i \in 1..m : there[i] \in Nat
      BY <1>3, <3>1, <3>2
    <3>4. SubSeq(there, 1, m)[1] = there[1]
      BY <1>3, <3>1, <3>2, <3>3, SubSeqProperties
    <3>5. s = SubSeq(there, 1, m)
      BY <2>2 DEF AtMost, m
    <3> QED
      BY <1>3, <3>4, <3>5
  <2> QED
    BY <2>1, <2>2 DEF RowsFit, there
<1> QED
  BY <1>4, <1>5 DEF all

\* Rows of two pages differ.
LEMMA PagesDiffer ==
    ASSUME TypeOK, NEW order \in Order, NEW s \in Seq(Nat), NEW t \in Seq(Nat),
           NEW p \in Nat \ {0}, NEW q \in Nat \ {0}, p # q,
           RowsFit(s, order, p), RowsFit(t, order, q), t # <<>>
    PROVE  s # t
<1> SUFFICES ASSUME s = t PROVE FALSE
  OBVIOUS
<1> DEFINE all == Ranked(rows, order)
<1>1. /\ Start(p) + 1 \in 1..RowCount /\ s[1] = all[Start(p) + 1]
      /\ Start(q) + 1 \in 1..RowCount /\ t[1] = all[Start(q) + 1]
  BY FitsBegin
<1>2. \A i, j \in 1..RowCount : i # j => all[i] # all[j]
  <2>1. rows \in SUBSET Row
    BY StateTypes DEF WorkerTypeOK
  <2>2. rows \in SUBSET Nat /\ IsFiniteSet(rows)
    BY <2>1, RowFacts
  <2>3. IsStrictOrder(rows, order)
    BY <2>1, <2>2, NaturalOrder, SortOrder DEF Order
  <2>4. /\ \A i, j \in 1..RowCount : i < j => Precedes(order, all[i], all[j])
        /\ \A i \in 1..RowCount : all[i] \in rows
    BY <2>1, <2>2, <2>3, RankedEnumerates, AllRows DEF RowCount
  <2>5. \A a \in rows : ~Precedes(order, a, a)
    BY <2>3 DEF IsStrictOrder
  <2> HIDE DEF all
  <2> QED
    BY <2>4, <2>5
<1>3. Start(p) # Start(q)
  <2>1. /\ Start(p) = PageSize * (p - 1) /\ Start(q) = PageSize * (q - 1)
        /\ p - 1 \in Nat /\ q - 1 \in Nat /\ PageSize \in Nat /\ PageSize > 0
    BY PageSizeAssumption DEF Start
  <2>2. /\ p - 1 < q - 1 => Start(p) + PageSize <= Start(q)
        /\ q - 1 < p - 1 => Start(q) + PageSize <= Start(p)
    BY <2>1, Product
  <2>3. Start(p) \in Nat /\ Start(q) \in Nat
    BY <2>1, Product
  <2>4. p - 1 < q - 1 \/ q - 1 < p - 1
    BY <2>1
  <2> QED
    BY <2>1, <2>2, <2>3, <2>4
<1>4. Start(p) + 1 # Start(q) + 1
  <2>1. Start(p) \in Nat /\ Start(q) \in Nat
    BY Offsets DEF Start
  <2> QED
    BY <1>3, <2>1
<1> HIDE DEF all
<1> QED
  BY <1>1, <1>2, <1>4

\* What news of totals and of the index leaves of a cell's text.
LEMMA CellOutlives ==
    ASSUME NEW b \in Bar, LineFits(b), b.text.kind = "cell", NEW n, NEW warning, NEW on
    PROVE  /\ SetSorting(b, on).text.kind = "cell"
           /\ SetValueText(b, Message).text.kind = "message"
           /\ SetWarning(b, warning).text.kind = "cell"
           /\ UpdatePagedTotal(b, n).text.kind = "cell"
           /\ SetIndexingProgress(b, n).text.kind = "cell"
           /\ SetIndexingFailed(b).text.kind = "failed"
<1>1. b.text # NoText /\ b.text # b.summary /\ b.text # b.indexingText
  BY DEF LineFits, NoText, Plain
<1>2. SetSorting(b, on).text.kind = "cell" /\ SetValueText(b, Message).text.kind = "message"
  BY DEF SetSorting, SetValueText, Message, Plain, Bar
<1>3. SetWarning(b, warning).text.kind = "cell"
  BY <1>1 DEF SetWarning, Bar
<1>4. SetIndexingProgress(b, n).text.kind = "cell"
  BY <1>1 DEF SetIndexingProgress, Bar
<1>5. UpdatePagedTotal(b, n).text.kind = "cell"
  <2> DEFINE ended == [b EXCEPT !.indexing = FALSE, !.indexingText = NoText, !.error = "none"]
             told == RebuildPagedTexts([ended EXCEPT !.total = n, !.progress = FALSE])
  <2>1. UpdatePagedTotal(b, n) \in {ended, told}
    BY <1>1 DEF UpdatePagedTotal
  <2>2. ended.text = b.text /\ told.text = b.text
    BY DEF RebuildPagedTexts, Bar
  <2> HIDE DEF ended, told
  <2> QED
    BY <2>1, <2>2
<1>6. SetIndexingFailed(b).text.kind = "failed"
  <2> DEFINE failed == [b EXCEPT !.indexing = FALSE, !.indexingText = NoText, !.error = "index",
                                 !.progress = FALSE]
             warned == IF b.hasInfo THEN SetWarning(failed, "index") ELSE failed
  <2>1. NoText \in Text
    BY TextTypes
  <2>2. failed \in Bar
    BY <2>1 DEF Bar
  <2>3. SetWarning(failed, "index") \in Bar
    BY <2>2, WarningType DEF Warning
  <2>4. SetIndexingFailed(b) = [warned EXCEPT !.text = IndexingError]
    BY DEF SetIndexingFailed, SetValueText
  <2>5. warned \in Bar
    BY <2>2, <2>3
  <2> HIDE DEF warned
  <2>6. SetIndexingFailed(b).text = IndexingError
    BY <2>4, <2>5 DEF Bar
  <2> QED
    BY <2>6 DEF IndexingError, Plain
<1> QED
  BY <1>2, <1>3, <1>4, <1>5, <1>6

\* The page that arrives is not the one on display.
LEMMA ArrivalShows ==
    ASSUME TypeOK, LoadsInv, OrderlyInv, PagesInv, TurnsAway, "rowid" \notin Kinds, OnPageReady
    PROVE  shown' # shown
<1> DEFINE e == Head(events)
<1>1. FieldsInv
  BY DEF OrderlyInv, ProtocolInv
<1>2. /\ Receive("pageReady") /\ e.ok /\ ~Vanished(e)
      /\ shown' = [view |-> ui.gen, rows |-> e.rows]
  BY OnPageReadyFacts
<1>3. ui.paged /\ e.sig = "pageReady" /\ events # <<>> /\ e \in Event /\ e.rows \in Seq(Nat)
  BY <1>2, ReceiveShape, HeadType
<1>4. CASE ui.firstPending
  <2>1. shown.view # ui.gen
    BY <1>1, <1>4 DEF FieldsInv
  <2>2. shown'.view = ui.gen
    BY <1>2
  <2> QED
    BY <2>1, <2>2
<1>5. CASE ~ui.firstPending
  <2>1. ~ui.sorting /\ ui.inFlight /\ Wanted = ui.committed
    <3>1. SignalFits(e)
      BY <1>2, AnswerFits DEF OrderlyInv
    <3>2. ui.inFlight
      BY <1>3, <3>1 DEF SignalFits
    <3>3. ~ui.sorting
      BY <1>1 DEF TurnsAway, FieldsInv
    <3> QED
      BY <3>2, <3>3 DEF Wanted
  <2>2. ui.pendingPage # ui.pager.page
    BY <1>5, <2>1 DEF TurnsAway
  <2>3. Reachable /\ RowsFit(e.rows, ui.committed, ui.pendingPage)
    <3>1. BringsPage(e)
      BY <1>2, AnswerBrings
    <3> HIDE DEF e
    <3> QED
      BY <1>2, <1>3, <2>1, <3>1 DEF BringsPage
  <2>4. ui.pager.page > 0 /\ RowsFit(shown.rows, ui.committed, ui.pager.page)
    <3>1. OnDisplay
      BY <1>1, <1>3, <1>5 DEF FieldsInv, OnDisplay
    <3> QED
      BY <1>3, <3>1 DEF PagesInv, DisplayFits
  <2>5. e.rows # <<>>
    BY <1>2, <1>5, <2>1 DEF Vanished
  <2>6. /\ ui.committed \in Order /\ shown.rows \in Seq(Nat)
        /\ ui.pager.page \in Nat \ {0} /\ ui.pendingPage \in Nat \ {0}
    BY <2>3, <2>4, StateTypes DEF Reachable
  <2> HIDE DEF e
  <2>7. shown.rows # e.rows
    BY <1>3, <2>2, <2>3, <2>4, <2>5, <2>6, PagesDiffer
  <2> QED
    BY <1>2, <2>7
<1> QED
  BY <1>4, <1>5

LEMMA CellStays ==
    ASSUME TypeOK, LoadsInv, OrderlyInv, PagesInv, StatusInv, TurnsAway, "rowid" \notin Kinds,
           [Next]_vars, ui.status.text.kind = "cell"
    PROVE  \/ ui'.status.text.kind \in {"cell", "failed", "message"}
           \/ shown' # shown \/ ui'.gen # ui.gen \/ ui'.token # ui.token
           \/ SelectCell
<1> DEFINE Stays == ui'.status.text.kind \in {"cell", "failed", "message"}
           b == ui.status
<1>1. ui \in Viewer /\ b \in Bar /\ LineFits(b) /\ FieldsInv /\ ui.kind # "rowid" /\ ~ui.sorting
  BY StateTypes DEF StatusInv, OrderlyInv, ProtocolInv, TurnsAway, FieldsInv
<1>2. CASE LoadSelectedTable \/ LeaveTable \/ OnOpenFailed
  <2>1. ui'.gen = ui.gen + 1 /\ ui.gen \in Nat
    BY <1>2, LoadFacts, LeaveFacts, StateTypes DEF WasReset
  <2> QED
    BY <2>1
<1>3. CASE ClickSort
  <2>1. ui'.status = SetSorting(b, TRUE)
    BY <1>1, <1>3, ClickSortFacts DEF Viewer
  <2> QED
    BY <1>1, <2>1, CellOutlives
<1>4. CASE CancelSort \/ OnReopened \/ OnSortCompleted
  <2>1. ui.sorting
    <3>1. CASE CancelSort
      BY <3>1, CancelSortFacts
    <3>2. CASE OnReopened
      BY <1>1, <3>2, OnReopenedFacts DEF FieldsInv
    <3>3. CASE OnSortCompleted
      <4>1. SignalFits(Head(events)) /\ Head(events).sig = "sortCompleted"
        BY <3>3, OnSortCompletedFacts, AnswerFits DEF OrderlyInv
      <4> QED
        BY <4>1 DEF SignalFits
    <3> QED
      BY <1>4, <3>1, <3>2, <3>3
  <2> QED
    BY <1>1, <2>1
<1>5. CASE TurnPage \/ OnOpened
  <2>1. TurnPage => ui'.status = b
    BY <1>1, TurnPageFacts DEF Viewer
  <2>2. OnOpened => ui'.status = b
    BY <1>1 DEF OnOpened, Viewer
  <2> QED
    BY <1>5, <2>1, <2>2
<1>6. CASE OnPageReady
  BY <1>6, ArrivalShows
<1>7. CASE OnPageVanished \/ OnPageFailed
  <2>1. ui'.status = SetValueText(b, Message)
    BY <1>1, <1>7, OnPageVanishedFacts, OnPageFailedFacts
  <2> QED
    BY <1>1, <2>1, CellOutlives
<1>8. CASE ClickUnsortable
  <2>1. ui'.status = SetValueText(b, Message)
    BY <1>1, <1>8 DEF ClickUnsortable, Viewer
  <2> QED
    BY <1>1, <2>1, CellOutlives
<1>9. CASE OnIndexProgress
  <2>1. \E n : ui'.status \in {SetIndexingFailed(b), SetIndexingProgress(b, n),
                               UpdatePagedTotal(b, n)}
    <3> DEFINE e == Head(events)
               ended == Indexed(ui, e.total)
    <3>1. \/ ui' = [ui EXCEPT !.status = SetIndexingFailed(b)]
          \/ ui' = [ui EXCEPT !.status = SetIndexingProgress(b, e.total)]
          \/ ui' = ended
      BY <1>9 DEF OnIndexProgress
    <3>2. ended.status = UpdatePagedTotal(b, e.total)
      BY <1>1 DEF Indexed, Viewer
    <3> HIDE DEF ended, e
    <3> QED
      BY <1>1, <3>1, <3>2 DEF Viewer
  <2>2. PICK n : ui'.status \in {SetIndexingFailed(b), SetIndexingProgress(b, n),
                                 UpdatePagedTotal(b, n)}
    BY <2>1
  <2> QED
    BY <1>1, <2>2, CellOutlives
<1>10. CASE OnCountCompleted
  <2>1. \E n : ui'.status \in {b, SetWarning(b, "count"), UpdatePagedTotal(b, n)}
    <3> DEFINE e == Head(countEvents)
               told == Counted(ui, e.total)
    <3>1. \/ ui' = ui
          \/ ui' = [ui EXCEPT !.countFailed = TRUE, !.status = SetWarning(b, "count")]
          \/ ui' = told
      BY <1>10 DEF OnCountCompleted
    <3>2. told.status = UpdatePagedTotal(b, e.total)
      BY <1>1 DEF Counted, Viewer
    <3> HIDE DEF told, e
    <3> QED
      BY <1>1, <3>1, <3>2 DEF Viewer
  <2>2. PICK n : ui'.status \in {b, SetWarning(b, "count"), UpdatePagedTotal(b, n)}
    BY <2>1
  <2> QED
    BY <1>1, <2>2, CellOutlives
<1>11. CASE IgnoreStaleSignal \/ Count \/ WorkerStep \/ UNCHANGED vars
  BY <1>11 DEF IgnoreStaleSignal, Count, WorkerStep, guiVars, vars
<1> QED
  BY <1>2, <1>3, <1>4, <1>5, <1>6, <1>7, <1>8, <1>9, <1>10, <1>11
     DEF Next, UserNext, SignalNext, TurnPage

LEMMA AwayInit == Init => TurnsAway
BY DEF Init, Reset, TurnsAway

\* A page turn leads to another page than the one on display.
THEOREM TurnsLeadAway == SharedSpec => []TurnsAway
<1>1. TypeOK /\ LoadsInv /\ OrderlyInv /\ TurnsAway /\ [SharedNext]_vars => TurnsAway'
  BY AwayNext
<1> QED
  BY <1>1, AwayInit, ViewerTypeCorrect, LoadsHold, OrderlyHold, PTL DEF SharedSpec

\* Progress of the index, a count or the end of the file never take the place
\* of a cell the user selected: only a new page, bad news or the user does.
\* With tables that can be sorted "a new page" is more than its rows tell: a
\* sort may show the rows that were there.
THEOREM SelectedCellStays ==
    ASSUME "rowid" \notin Kinds
    PROVE  Spec => CellTextKept
<1>1. /\ TypeOK /\ LoadsInv /\ OrderlyInv /\ PagesInv /\ StatusInv /\ TurnsAway /\ [Next]_vars
      => [ui.status.text.kind = "cell" =>
            \/ ui'.status.text.kind \in {"cell", "failed", "message"}
            \/ shown' # shown \/ ui'.gen # ui.gen \/ ui'.token # ui.token
            \/ SelectCell]_vars
  BY CellStays
<1>2. Spec => []TypeOK /\ []LoadsInv /\ []OrderlyInv /\ []StatusInv /\ []TurnsAway
  BY SpecIsShared, ViewerTypeCorrect, LoadsHold, OrderlyHold, StatusHolds, TurnsLeadAway, PTL
<1> QED
  BY <1>1, <1>2, PagesHold, PTL DEF Spec, CellTextKept

-----------------------------------------------------------------------------
(* The window, as somebody who reads it would describe it.                 *)

\* The first page is what a sort waits for.
LEMMA FirstNext ==
    TypeOK /\ LoadsInv /\ OrderlyInv /\ SortShowsFirst /\ [SharedNext]_vars => SortShowsFirst'
<1> SUFFICES ASSUME TypeOK, LoadsInv, OrderlyInv, SortShowsFirst, [SharedNext]_vars
             PROVE  SortShowsFirst'
  OBVIOUS
<1>1. FieldsInv /\ ui \in Viewer
  BY StateTypes DEF OrderlyInv, ProtocolInv
<1>2. CASE LoadSelectedTable \/ LeaveTable \/ OnOpenFailed
  BY <1>2, LoadFacts, LeaveFacts DEF SortShowsFirst, WasReset
<1>3. CASE ClickSort
  <2>1. /\ ui.inFlight => ui.sorting
        /\ \E order : ui' = [ui EXCEPT !.pending = order, !.sorting = TRUE, !.busy = TRUE,
                                       !.status = SetSorting(ui.status, TRUE)]
    BY <1>3, ClickSortFacts
  <2> QED
    BY <1>1, <2>1 DEF SortShowsFirst, Viewer
<1>4. CASE CancelSort
  BY <1>4, CancelSortFacts DEF SortShowsFirst, GoesBack
<1>5. CASE TurnPage
  <2>1. /\ ~ui.sorting
        /\ \E p, back : ui' = [ui EXCEPT !.inFlight = TRUE, !.busy = TRUE,
                                         !.pendingPage = p, !.pendingFromPrev = back]
    BY <1>5, TurnPageFacts
  <2> QED
    BY <1>1, <2>1 DEF SortShowsFirst, Viewer
<1>6. CASE OnOpened
  BY <1>6, OnOpenedFacts DEF SortShowsFirst
<1>7. CASE OnReopened
  BY <1>7, OnReopenedFacts DEF SortShowsFirst, SameOrder, Recovered
<1>8. CASE OnPageReady \/ OnPageVanished
  BY <1>8, OnPageReadyFacts, OnPageVanishedFacts DEF SortShowsFirst
<1>9. CASE OnPageFailed
  BY <1>9, OnPageFailedFacts DEF SortShowsFirst, GoesBack
<1>10. CASE OnSortCompleted
  BY <1>10, OnSortCompletedFacts DEF SortShowsFirst, GoesBack, Recovered
<1>11. CASE Aside
  BY <1>11, AsideFacts DEF SortShowsFirst, SameUi
<1>12. CASE WorkerStep
  BY <1>12 DEF SortShowsFirst, WorkerStep, guiVars
<1> QED
  BY <1>2, <1>3, <1>4, <1>5, <1>6, <1>7, <1>8, <1>9, <1>10, <1>11, <1>12
     DEF SharedNext, Next, UserNext, SignalNext, TurnPage, Aside

LEMMA FirstHolds == SharedSpec => []SortShowsFirst
<1>1. Init => SortShowsFirst
  BY DEF Init, Reset, SortShowsFirst
<1>2. TypeOK /\ LoadsInv /\ OrderlyInv /\ SortShowsFirst /\ [SharedNext]_vars => SortShowsFirst'
  BY FirstNext
<1> QED
  BY <1>1, <1>2, ViewerTypeCorrect, LoadsHold, OrderlyHold, PTL DEF SharedSpec

LEMMA SameSize == \A S : Window!Cardinality(S) = Cardinality(S)
BY DEF Window!Cardinality, Cardinality

\* The abstract window cuts the table into the same pages.
LEMMA SameRows ==
    ASSUME NEW p, NEW order
    PROVE  Window!RowsOf(p, order) = PageOf(order, p)
<1>1. Window!Ranked(rows, order) = Ranked(rows, order)
  BY DEF Window!Ranked, Ranked, Window!Precedes, Precedes, Window!Unsorted, Unsorted,
         Window!Cardinality, Cardinality
<1>2. Window!FirstRowOnPage(p) = FirstRowOnPage(p)
  BY DEF Window!FirstRowOnPage, FirstRowOnPage
<1>3. \A s, n : Window!AtMost(s, n) = AtMost(s, n)
  BY DEF Window!AtMost, AtMost
<1> QED
  BY <1>1, <1>2, <1>3 DEF Window!RowsOf, PageOf

\* What the user waits for.
LEMMA AskedForPage ==
    ASSUME TypeOK, ui.inFlight, ~ui.sorting
    PROVE  /\ Asked = [page |-> ui.pendingPage, order |-> ui.committed]
           /\ Asked # Nothing
<1>1. ui.pendingPage \in Nat /\ ui.committed \in Order
  BY StateTypes
<1> QED
  BY <1>1, NothingAssumption DEF Asked

LEMMA AskedForSort ==
    ASSUME TypeOK, ui.sorting, ~ui.recovering
    PROVE  /\ Asked = [page |-> 1, order |-> ui.pending]
           /\ Asked # Nothing
<1>1. ui.pending \in Order
  BY StateTypes
<1> QED
  BY <1>1, NothingAssumption DEF Asked

LEMMA AskedForNothing ==
    ASSUME (~ui.sorting /\ ~ui.inFlight) \/ (ui.sorting /\ ui.recovering)
    PROVE  Asked = Nothing
BY DEF Asked

\* A step that leaves alone what is in the window.
WindowKept ==
    /\ rows' = rows
    /\ ui'.paged = ui.paged
    /\ Unreadable' = Unreadable
    /\ Display' = Display
    /\ ui'.pager.page = ui.pager.page
    /\ ui'.committed = ui.committed

LEMMA KeepsWindow ==
    ASSUME SameLoad, UNCHANGED <<rows, src, shown>>, ui'.pager.page = ui.pager.page,
           ui'.committed = ui.committed
    PROVE  WindowKept
BY DEF WindowKept, SameLoad, Unreadable, Display, OnDisplay

LEMMA WindowStutters ==
    ASSUME WindowKept, Asked' = Asked
    PROVE  UNCHANGED Window!windowVars
BY DEF WindowKept, Window!windowVars

LEMMA WindowGivesUp ==
    ASSUME WindowKept, Asked # Nothing, Asked' = Nothing
    PROVE  Window!Next
BY DEF WindowKept, Window!Next, Window!GiveUp

LEMMA WindowTurns ==
    ASSUME WindowKept, ui.paged, Asked = Nothing, NEW p \in Nat, p # 0,
           p \in {1, ui.pager.page - 1, ui.pager.page + 1, PageCount(RowCount)},
           Asked' = [page |-> p, order |-> ui.committed]
    PROVE  Window!Next
<1>1. Window!PageCount(RowCount) = PageCount(RowCount)
  BY DEF Window!PageCount, PageCount, Window!NoTotal, NoTotal
<1> QED
  BY <1>1, SameSize DEF WindowKept, Window!Next, Window!Turn, Window!Request, RowCount

LEMMA WindowSorts ==
    ASSUME WindowKept, ui.paged, Asked = Nothing \/ Asked.page = 1, NEW order \in SortState,
           Asked' = [page |-> 1, order |-> order]
    PROVE  Window!Next
<1>1. order \in Window!SortState
  BY DEF Window!SortState, SortState
<1> QED
  BY <1>1 DEF WindowKept, Window!Next, Window!Sort, Window!Request

LEMMA WindowLeaves ==
    ASSUME TypeOK, LoadsInv, OrderlyInv, LeaveTable \/ OnOpenFailed
    PROVE  Window!Next
<1>1. ui.paged
  BY AnswerFits DEF OrderlyInv, OnOpenFailed, LeaveTable
<1>2. /\ WasReset /\ ui'.paged = FALSE /\ rows' = rows
  <2>1. WasReset /\ ~ui'.paged /\ rows' = rows
    BY LeaveFacts
  <2>2. ui'.paged \in BOOLEAN
    BY DEF LeaveTable, OnOpenFailed, CancelPending, Cancelled, Reset
  <2> QED
    BY <2>1, <2>2
<1>3. Unreadable' = FALSE /\ Display' = <<>> /\ Asked' = Nothing
  BY <1>2 DEF WasReset, Unreadable, Display, OnDisplay, Asked
<1>4. ui'.pager.page = 1 /\ ui'.committed = Window!Unsorted
  BY <1>2 DEF WasReset, FreshPager, Window!Unsorted, Unsorted
<1> QED
  BY <1>1, <1>2, <1>3, <1>4 DEF Window!Next, Window!Leave, Window!Blank

LEMMA WindowLoads ==
    ASSUME TypeOK, LoadSelectedTable
    PROVE  Window!Next
<1>1. /\ WasReset /\ ui'.paged = TRUE /\ rows' \subseteq Row /\ src' = NoSource
      /\ shown' = NothingShown
  <2>1. WasReset /\ rows' \in Tables /\ src' = NoSource /\ shown' = NothingShown
    BY LoadFacts
  <2>2. ui'.paged = TRUE
    BY DEF LoadSelectedTable, Cancelled, Reset
  <2> QED
    BY <2>1, <2>2, ViewerAssumption
<1>2. Unreadable' = FALSE
  BY <1>1 DEF Unreadable, NoSource, EmptySource
<1>3. Display' = <<>>
  <2>1. ui'.gen = ui.gen + 1 /\ ui.gen \in Nat /\ shown'.view = 0
    BY <1>1, StateTypes DEF WasReset, NothingShown
  <2> QED
    BY <2>1 DEF Display, OnDisplay
<1>4. Asked' = Nothing
  BY <1>1 DEF WasReset, Asked
<1>5. ui'.pager.page = 1 /\ ui'.committed = Window!Unsorted
  BY <1>1 DEF WasReset, FreshPager, Window!Unsorted, Unsorted
<1> QED
  BY <1>1, <1>2, <1>3, <1>4, <1>5 DEF Window!Next, Window!Load, Window!Blank

LEMMA ClickSorts ==
    ASSUME TypeOK, OrderlyInv, ClickSort
    PROVE  Window!Next
<1>1. /\ ui.paged /\ ~ui.recovering /\ (ui.inFlight => ui.sorting) /\ SameLoad
      /\ UNCHANGED <<rows, src, shown>>
  BY ClickSortFacts
<1>2. PICK order \in SortState :
        ui' = [ui EXCEPT !.pending = order, !.sorting = TRUE, !.busy = TRUE,
                         !.status = SetSorting(ui.status, TRUE)]
  BY ClickSortFacts
<1>3. /\ ui'.pending = order /\ ui'.sorting /\ ui'.recovering = ui.recovering
      /\ ui'.pager = ui.pager /\ ui'.committed = ui.committed
  BY <1>2, StateTypes DEF Viewer
<1>4. WindowKept
  BY <1>1, <1>3, KeepsWindow
<1>5. Asked = Nothing \/ Asked.page = 1
  BY <1>1 DEF Asked
<1>6. Asked' = [page |-> 1, order |-> order]
  BY <1>1, <1>3 DEF Asked
<1> QED
  BY <1>1, <1>4, <1>5, <1>6, WindowSorts

LEMMA TurnsPage ==
    ASSUME TypeOK, TotalsInv, TurnPage
    PROVE  Window!Next
<1>1. /\ ui.paged /\ ~ui.sorting /\ ~ui.inFlight /\ SameLoad
      /\ UNCHANGED <<rows, src, shown>>
  BY TurnPageFacts
<1>2. PICK op \in PageOps, p \in Nat, back \in BOOLEAN, total \in Total :
        /\ TurnsTo(op, p, back, total)
        /\ ui' = [ui EXCEPT !.inFlight = TRUE, !.busy = TRUE,
                            !.pendingPage = p, !.pendingFromPrev = back]
  BY TurnPageFacts
<1>3. /\ ui'.inFlight /\ ui'.pendingPage = p /\ ui'.sorting = ui.sorting
      /\ ui'.pager = ui.pager /\ ui'.committed = ui.committed
  BY <1>2, StateTypes DEF Viewer
<1>4. WindowKept
  BY <1>1, <1>3, KeepsWindow
<1>5. p # 0 /\ p \in {1, ui.pager.page - 1, ui.pager.page + 1, PageCount(RowCount)}
  <2>1. ui.pager.page \in Nat /\ (ui.pager.total # NoTotal => ui.pager.total = RowCount)
    BY <1>1, StateTypes DEF TotalsInv
  <2> QED
    BY <1>2, <2>1 DEF TurnsTo, CanPrev, CanLast
<1>6. Asked = Nothing
  BY <1>1 DEF Asked
<1>7. Asked' = [page |-> p, order |-> ui.committed]
  BY <1>1, <1>3 DEF Asked
<1> QED
  BY <1>1, <1>4, <1>5, <1>6, <1>7, WindowTurns

LEMMA OpenedTurns ==
    ASSUME TypeOK, LoadsInv, OrderlyInv, PagesInv, OnOpened
    PROVE  Window!Next
<1>1. /\ Receive("openCompleted") /\ ~ui.recovering /\ SameLoad /\ SameOrder /\ shown' = shown
      /\ ui'.inFlight /\ ui'.pendingPage = 1 /\ ui'.pager.page = 1
  BY OnOpenedFacts
<1>2. SignalFits(Head(events)) /\ Head(events).sig = "openCompleted" /\ ui.paged
      /\ UNCHANGED <<rows, src>>
  BY <1>1, AnswerFits DEF OrderlyInv
<1>3. Opening
  BY <1>1, <1>2 DEF SignalFits
<1>4. ui.pager.page = 1
  BY <1>2, <1>3 DEF PagesInv, Opening
<1>5. WindowKept
  BY <1>1, <1>2, <1>4, KeepsWindow DEF SameOrder
<1>6. Asked = Nothing
  BY <1>3 DEF Opening, Asked
<1>7. Asked' = [page |-> 1, order |-> ui.committed]
  BY <1>1, <1>3 DEF Opening, SameOrder, Asked
<1> QED
  BY <1>2, <1>5, <1>6, <1>7, WindowTurns

\* An answer shows the page that was asked for.
LEMMA PageShows ==
    ASSUME TypeOK, LoadsInv, OrderlyInv, PagesInv, SortShowsFirst, OnPageReady
    PROVE  Window!Next
<1> DEFINE e == Head(events)
<1>1. /\ Receive("pageReady") /\ e.ok /\ SameLoad /\ ~ui'.inFlight
      /\ ui'.pager = Arrived(e).pager
      /\ ui.sorting /\ ~ui.recovering =>
            ui'.committed = ui.pending /\ ui'.pending = Unsorted /\ ~ui'.sorting /\ ~ui'.recovering
      /\ ~ui.sorting \/ ui.recovering => SameOrder
      /\ shown' = [view |-> ui.gen, rows |-> e.rows]
  BY OnPageReadyFacts
<1>2. SignalFits(e) /\ e.sig = "pageReady" /\ ui.paged /\ UNCHANGED <<rows, src>>
  BY <1>1, AnswerFits DEF OrderlyInv
<1>3. ui.inFlight /\ ~ui.recovering
  BY <1>2 DEF SignalFits
<1>4. BringsPage(e)
  BY <1>1, AnswerBrings
<1>5. RowsFit(e.rows, Wanted, ui.pendingPage)
  BY <1>1, <1>2, <1>4 DEF BringsPage
<1>6. Asked = [page |-> ui.pendingPage, order |-> Wanted] /\ Asked # Nothing
  <2>1. CASE ui.sorting
    BY <1>3, <2>1, AskedForSort DEF SortShowsFirst, Wanted
  <2>2. CASE ~ui.sorting
    BY <1>3, <2>2, AskedForPage DEF Wanted
  <2> QED
    BY <2>1, <2>2
<1>7. ui'.committed = Wanted /\ ~ui'.sorting
  BY <1>1, <1>3 DEF Wanted, SameOrder
<1>8. Asked' = Nothing
  BY <1>1, <1>7 DEF Asked
<1>9. ui'.pager.page = ui.pendingPage
  <2>1. ui \in Viewer /\ ui.pager \in Pager /\ e \in Event
    BY <1>1, StateTypes, QueueTail DEF Receive
  <2>2. ui'.pager = [ui.pager EXCEPT !.page = ui.pendingPage, !.fromPrev = ui.pendingFromPrev,
                       !.hasMore = IF ui.pager.total # NoTotal
                                   THEN ui.pager.total > ui.pendingPage * PageSize
                                   ELSE e.hasMore]
    BY <1>1, <2>1, ArrivedFields
  <2> QED
    BY <2>1, <2>2 DEF Pager
<1>10. Display' = e.rows
  BY <1>1, <1>2 DEF Display, OnDisplay, SameLoad
<1>11. Unreadable' = Unreadable /\ ui'.paged = ui.paged
  BY <1>1, <1>2 DEF Unreadable, SameLoad
<1>12. \/ Display' = Window!RowsOf(Asked.page, Asked.order)
       \/ /\ Unreadable /\ Display' # <<>>
          /\ Display' = Window!AtMost(Window!RowsOf(Asked.page, Asked.order), Len(Display'))
  <2>1. Window!RowsOf(Asked.page, Asked.order) = PageOf(Wanted, ui.pendingPage)
    BY <1>6, SameRows
  <2>2. \A s, n : Window!AtMost(s, n) = AtMost(s, n)
    BY DEF Window!AtMost, AtMost
  <2> QED
    BY <1>2, <1>5, <1>10, <2>1, <2>2 DEF RowsFit, Unreadable
<1>13. Window!Show
  BY <1>2, <1>6, <1>7, <1>8, <1>9, <1>11, <1>12 DEF Window!Show
<1> QED
  BY <1>13 DEF Window!Next

LEMMA WindowHandles ==
    ASSUME TypeOK, LoadsInv, OrderlyInv,
           CancelSort \/ OnReopened \/ OnPageVanished \/ OnPageFailed \/ OnSortCompleted
    PROVE  Window!Next \/ UNCHANGED Window!windowVars
<1>1. FieldsInv
  BY DEF OrderlyInv, ProtocolInv
<1>2. ASSUME GoesBack, UNCHANGED <<rows, src, shown>>, ui.sorting, ~ui.recovering
      PROVE  Window!Next
  <2>1. WindowKept
    BY <1>2, KeepsWindow DEF GoesBack
  <2>2. Asked # Nothing
    BY <1>2, AskedForSort
  <2>3. Asked' = Nothing
    BY <1>2 DEF GoesBack, Asked
  <2> QED
    BY <2>1, <2>2, <2>3, WindowGivesUp
<1>3. ASSUME Recovered, UNCHANGED <<rows, src, shown>>, ui.recovering
      PROVE  UNCHANGED Window!windowVars
  <2>1. WindowKept
    BY <1>3, KeepsWindow DEF Recovered
  <2>2. Asked = Nothing /\ Asked' = Nothing
    BY <1>1, <1>3 DEF Recovered, FieldsInv, Asked
  <2> QED
    BY <2>1, <2>2, WindowStutters
<1>4. CASE CancelSort
  BY <1>2, <1>4, CancelSortFacts
<1>5. CASE OnReopened
  <2>1. /\ Receive("openCompleted") /\ ui.recovering /\ shown' = shown
        /\ \/ Recovered
           \/ /\ SameLoad /\ SameOrder /\ ui'.pager = ui.pager
    BY <1>5, OnReopenedFacts
  <2>2. UNCHANGED <<rows, src>>
    BY <2>1 DEF Receive
  <2>3. CASE Recovered
    BY <1>3, <2>1, <2>2, <2>3
  <2>4. CASE SameLoad /\ SameOrder /\ ui'.pager = ui.pager
    <3>1. WindowKept
      BY <2>1, <2>2, <2>4, KeepsWindow DEF SameOrder
    <3>2. Asked = Nothing /\ Asked' = Nothing
      BY <1>1, <2>1, <2>4 DEF SameOrder, FieldsInv, Asked
    <3> QED
      BY <3>1, <3>2, WindowStutters
  <2> QED
    BY <2>1, <2>3, <2>4
<1>6. CASE OnPageVanished
  <2>1. /\ Receive("pageReady") /\ Vanished(Head(events)) /\ SameLoad /\ SameOrder
        /\ ~ui'.inFlight /\ ui'.pager = [ui.pager EXCEPT !.hasMore = FALSE] /\ shown' = shown
    BY <1>6, OnPageVanishedFacts
  <2>2. SignalFits(Head(events)) /\ Head(events).sig = "pageReady" /\ UNCHANGED <<rows, src>>
    BY <2>1, AnswerFits DEF OrderlyInv
  <2>3. ui.inFlight /\ ~ui.sorting
    BY <2>1, <2>2 DEF SignalFits, Vanished
  <2>4. ui'.pager.page = ui.pager.page
    BY <2>1, StateTypes DEF Pager
  <2>5. WindowKept
    BY <2>1, <2>2, <2>4, KeepsWindow DEF SameOrder
  <2>6. Asked # Nothing /\ Asked' = Nothing
    BY <2>1, <2>3, AskedForPage DEF SameOrder, Asked
  <2> QED
    BY <2>5, <2>6, WindowGivesUp
<1>7. CASE OnPageFailed
  <2>1. /\ Receive("pageReady") /\ shown' = shown
        /\ \/ ui.sorting /\ GoesBack
           \/ /\ ~ui.sorting /\ SameLoad /\ SameOrder /\ ~ui'.inFlight /\ ui'.pager = ui.pager
    BY <1>7, OnPageFailedFacts
  <2>2. SignalFits(Head(events)) /\ Head(events).sig = "pageReady" /\ UNCHANGED <<rows, src>>
    BY <2>1, AnswerFits DEF OrderlyInv
  <2>3. ui.inFlight /\ ~ui.recovering
    BY <2>2 DEF SignalFits
  <2>4. CASE ui.sorting /\ GoesBack
    BY <1>2, <2>1, <2>2, <2>3, <2>4
  <2>5. CASE ~ui.sorting /\ SameLoad /\ SameOrder /\ ~ui'.inFlight /\ ui'.pager = ui.pager
    <3>1. WindowKept
      BY <2>1, <2>2, <2>5, KeepsWindow DEF SameOrder
    <3>2. Asked # Nothing /\ Asked' = Nothing
      BY <2>3, <2>5, AskedForPage DEF SameOrder, Asked
    <3> QED
      BY <3>1, <3>2, WindowGivesUp
  <2> QED
    BY <2>1, <2>4, <2>5
<1>8. CASE OnSortCompleted
  <2>1. /\ Receive("sortCompleted") /\ shown' = shown
        /\ \/ ui.recovering /\ Recovered
           \/ ~ui.recovering /\ GoesBack
           \/ /\ ~ui.recovering /\ SameLoad /\ SameOrder
              /\ ui'.pager = [ui.pager EXCEPT !.total = Head(events).total]
    BY <1>8, OnSortCompletedFacts
  <2>2. SignalFits(Head(events)) /\ Head(events).sig = "sortCompleted" /\ UNCHANGED <<rows, src>>
    BY <2>1, AnswerFits DEF OrderlyInv
  <2>3. ui.sorting
    BY <2>2 DEF SignalFits
  <2>4. CASE ui.recovering /\ Recovered
    BY <1>3, <2>1, <2>2, <2>4
  <2>5. CASE ~ui.recovering /\ GoesBack
    BY <1>2, <2>1, <2>2, <2>3, <2>5
  <2>6. CASE /\ ~ui.recovering /\ SameLoad /\ SameOrder
             /\ ui'.pager = [ui.pager EXCEPT !.total = Head(events).total]
    <3>1. ui'.pager.page = ui.pager.page
      BY <2>6, StateTypes DEF Pager
    <3>2. WindowKept
      BY <2>1, <2>2, <2>6, <3>1, KeepsWindow DEF SameOrder
    <3>3. Asked' = Asked
      BY <2>3, <2>6 DEF SameOrder, Asked
    <3> QED
      BY <3>2, <3>3, WindowStutters
  <2> QED
    BY <2>1, <2>4, <2>5, <2>6
<1> QED
  BY <1>4, <1>5, <1>6, <1>7, <1>8

LEMMA WindowAside ==
    ASSUME TypeOK, Aside, rows' = rows
    PROVE  UNCHANGED Window!windowVars
<1>1. SameUi /\ UNCHANGED <<src, shown>>
  BY AsideFacts
<1>2. WindowKept
  BY <1>1, KeepsWindow DEF SameUi
<1>3. Asked' = Asked
  BY <1>1 DEF SameUi, Asked
<1> QED
  BY <1>2, <1>3, WindowStutters

\* What cannot be read any further stays so until the table is left.
LEMMA StaysUnreadable ==
    ASSUME TypeOK, LoadsInv, PagesInv, WorkerStep, Unreadable
    PROVE  Unreadable'
<1>1. ui' = ui /\ WorkerNext /\ ui.paged /\ ui.kind = "csv" /\ src.failed /\ src \in Source
  BY StateTypes DEF WorkerStep, guiVars, Unreadable, WorkerTypeOK
<1>2. Verified(src).failed
  BY <1>1 DEF Verified, Source
<1>3. CASE BeginTask
  BY <1>1, <1>3 DEF BeginTask, Unreadable
<1>4. CASE FinishOpen
  <2>1. src.kind = "none"
    BY <1>1, <1>4 DEF FinishOpen, PagesInv, OpensOnce, OpenQueued
  <2>2. ~src.failed
    BY <2>1 DEF LoadsInv, NoSource, EmptySource
  <2> QED
    BY <1>1, <2>2
<1>5. CASE FinishSort
  <2>1. src' = src \/ \E order, ordinals : src' = [src EXCEPT !.order = order, !.ordinals = ordinals]
    BY <1>5 DEF FinishSort
  <2> QED
    BY <1>1, <2>1 DEF Source, Unreadable
<1>6. CASE FetchPage
  <2>1. src' = src \/ src' = Verified(src)
    BY <1>6 DEF FetchPage
  <2> QED
    BY <1>1, <1>2, <2>1 DEF Unreadable
<1>7. CASE IndexSlice
  <2>1. SliceOutcomes(src) = {src}
    BY <1>1 DEF SliceOutcomes, IndexEnded, Broken
  <2>2. \A s, sofar : AnswerParked(s, sofar) => src' = s \/ src' = Verified(s)
    BY DEF AnswerParked
  <2>3. src' = src \/ \E s \in SliceOutcomes(src) : \E sofar : AnswerParked(s, sofar)
    BY <1>7 DEF IndexSlice
  <2>4. src' = src \/ src' = Verified(src)
    BY <2>1, <2>2, <2>3
  <2> QED
    BY <1>1, <1>2, <2>4 DEF Unreadable
<1>8. CASE Shutdown
  <2>1. inbox # <<>> /\ Head(inbox).op = "shutdown"
    BY <1>8 DEF Shutdown, TakeCall
  <2>2. 1 \in DOMAIN inbox /\ inbox[1] = Head(inbox)
    BY <2>1, StateTypes, QueueTail
  <2>3. inbox[1].op # "shutdown"
    BY <1>1, <2>2 DEF LoadsInv, CallBelongs
  <2> QED
    BY <2>1, <2>2, <2>3
<1> QED
  BY <1>1, <1>3, <1>4, <1>5, <1>6, <1>7, <1>8 DEF WorkerNext

LEMMA WindowAtWork ==
    ASSUME TypeOK, LoadsInv, PagesInv, WorkerStep
    PROVE  Window!Next \/ UNCHANGED Window!windowVars
<1>1. ui' = ui /\ shown' = shown /\ rows' = rows
  BY DEF WorkerStep, guiVars, WorkerNext, BeginTask, FinishOpen, FinishSort, FetchPage,
         IndexSlice, Shutdown, TakeCall
<1>2. Asked' = Asked /\ Display' = Display
  BY <1>1 DEF Asked, Display, OnDisplay
<1>3. CASE Unreadable' = Unreadable
  BY <1>1, <1>2, <1>3, WindowStutters DEF WindowKept
<1>4. CASE Unreadable' # Unreadable
  <2>1. ~Unreadable /\ Unreadable'
    <3>1. Unreadable \in BOOLEAN /\ Unreadable' \in BOOLEAN
      BY DEF Unreadable
    <3>2. Unreadable => Unreadable'
      BY StaysUnreadable
    <3> QED
      BY <1>4, <3>1, <3>2
  <2>2. ui.paged /\ Unreadable' = TRUE
    BY <1>1, <2>1 DEF Unreadable
  <2> QED
    BY <1>1, <1>2, <2>1, <2>2 DEF Window!Next, Window!Break
<1> QED
  BY <1>3, <1>4

LEMMA WindowNext ==
    /\ TypeOK /\ LoadsInv /\ OrderlyInv /\ TotalsInv /\ PagesInv /\ SortShowsFirst /\ [Next]_vars
    => [Window!Next]_Window!windowVars
<1> SUFFICES ASSUME TypeOK, LoadsInv, OrderlyInv, TotalsInv, PagesInv, SortShowsFirst, [Next]_vars
             PROVE  Window!Next \/ UNCHANGED Window!windowVars
  OBVIOUS
<1>1. \/ LoadSelectedTable \/ LeaveTable \/ OnOpenFailed \/ ClickSort \/ CancelSort
      \/ TurnPage \/ OnOpened \/ OnReopened \/ OnPageReady \/ OnPageVanished \/ OnPageFailed
      \/ OnSortCompleted \/ (Aside /\ rows' = rows) \/ WorkerStep
  BY NextSteps
<1>2. CASE LoadSelectedTable \/ LeaveTable \/ OnOpenFailed
  BY <1>2, WindowLoads, WindowLeaves
<1>3. CASE ClickSort \/ TurnPage \/ OnOpened \/ OnPageReady
  BY <1>3, ClickSorts, TurnsPage, OpenedTurns, PageShows
<1>4. CASE CancelSort \/ OnReopened \/ OnPageVanished \/ OnPageFailed \/ OnSortCompleted
  BY <1>4, WindowHandles
<1>5. CASE Aside /\ rows' = rows
  BY <1>5, WindowAside
<1>6. CASE WorkerStep
  BY <1>6, WindowAtWork
<1> QED
  BY <1>1, <1>2, <1>3, <1>4, <1>5, <1>6

LEMMA WindowInit == Init => Window!Init
<1> SUFFICES ASSUME Init PROVE Window!Init
  OBVIOUS
<1>1. rows \subseteq Row /\ ui = Reset(0, EmptyBar) /\ shown = NothingShown
  BY DEF Init, WorkerInit
<1>2. ui.paged = FALSE /\ ~ui.sorting /\ ~ui.inFlight /\ ui.pager.page = 1
      /\ ui.committed = Unsorted
  BY <1>1 DEF Reset, FreshPager
<1>3. Unreadable = FALSE /\ Display = <<>> /\ Asked = Nothing
  BY <1>2 DEF Unreadable, Display, OnDisplay, Asked
<1> QED
  BY <1>1, <1>2, <1>3 DEF Window!Init, Window!Unsorted, Unsorted

\* Whatever is queued, stale, parked or cancelled in the threads, the window
\* shows the page that was asked for last, whole, in its order and with its
\* number, or stays as it is.
THEOREM ViewerImplementsWindow == Spec => ImplementsPagedTable
<1>1. /\ TypeOK /\ LoadsInv /\ OrderlyInv /\ TotalsInv /\ PagesInv /\ SortShowsFirst /\ [Next]_vars
      => [Window!Next]_Window!windowVars
  BY WindowNext
<1>2. Spec => []TypeOK /\ []LoadsInv /\ []OrderlyInv /\ []SortShowsFirst
  BY SpecIsShared, ViewerTypeCorrect, LoadsHold, OrderlyHold, FirstHolds, PTL
<1> QED
  BY <1>1, <1>2, TotalsHold, PagesHold, WindowInit, PTL
     DEF Spec, ImplementsPagedTable, Window!Spec

=============================================================================
