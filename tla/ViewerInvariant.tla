-------------------------- MODULE ViewerInvariant --------------------------
(***************************************************************************)
(* Why the promises of DataTableViewer hold: what is true of the calls and *)
(* the signals on their way, of the source and of the viewer's fields in   *)
(* every reachable state.  The parts up to OrderInv hold whoever writes to *)
(* the table; the others take it that nobody does.                         *)
(***************************************************************************)
EXTENDS DataTableViewer

\* Everything on its way or in the worker belongs to a load, and the load that
\* is current is the only one that can own the worker's side.
Here(view) == IF ui.paged THEN view = viewGen ELSE view < viewGen
Past(view) == IF ui.paged THEN view <= viewGen ELSE view < viewGen

CallBelongs(c) == Here(c.view) /\ (ui.paged => c.kind = ui.kind /\ c.op # "shutdown")

LoadsInv ==
    /\ viewGen = ui.gen
    /\ ui.worker = ui.paged
    /\ ui.sorting => ui.paged
    /\ ui.paged => viewGen > 0 /\ opGen > 0
    /\ \A i \in DOMAIN inbox : CallBelongs(inbox[i])
    /\ task # NoCall => CallBelongs(task) /\ task.op \in {"open", "sort"}
    /\ parked # NoCall => CallBelongs(parked)
    /\ src.kind # "none" => Here(src.view) /\ (ui.paged => src.kind = ui.kind)
    /\ src.kind = "none" => src = NoSource
    /\ src.order # Unsorted => src.kind = "rowid"
    /\ \A i \in DOMAIN events : Past(events[i].view)
    /\ \A i \in DOMAIN counts : Here(counts[i])
    /\ \A i \in DOMAIN countEvents : Past(countEvents[i].view)
    /\ shown.view <= viewGen

\* A request that is live is one the viewer waits for.  There is one at most,
\* in one place: on the queue, in progress, parked, or in its signal.
Requests == PageOps \union {"open", "sort"}

IsLive(c) == c.op \in Requests /\ ~IsStale(c)
IsLiveSignal(e) == e.sig # "indexProgress" /\ e.view = viewGen /\ e.gen = opGen

LiveCalls == {i \in DOMAIN inbox : IsLive(inbox[i])}
LiveSignals == {i \in DOMAIN events : IsLiveSignal(events[i])}

OneLive ==
    /\ \A i, j \in LiveCalls : i = j
    /\ \A i, j \in LiveSignals : i = j
    /\ LiveCalls # {} => ~IsLive(task) /\ ~IsLive(parked) /\ LiveSignals = {}
    /\ IsLive(task) => ~IsLive(parked) /\ LiveSignals = {}
    /\ IsLive(parked) => LiveSignals = {}

\* None of them has a number that is yet to come.
NotAhead(x) == x.view = viewGen => x.gen <= opGen

NumbersInv ==
    /\ \A i \in DOMAIN inbox : NotAhead(inbox[i])
    /\ NotAhead(task)
    /\ NotAhead(parked)
    /\ \A i \in DOMAIN events : NotAhead(events[i])

\* The order the source is to be in when the request that is live is served.
Wanted == IF ui.sorting /\ ~ui.recovering THEN ui.pending ELSE ui.committed

Opening == ui.firstPending /\ ~ui.sorting /\ ~ui.inFlight /\ ui.orderValid

\* The live request is the one the fields say is under way.
CallFits(c) ==
    /\ c.op = "open" => (Opening \/ ui.recovering)
    /\ c.op = "sort" => ui.sorting /\ c.sort = Wanted
    /\ c.op \in PageOps => ui.inFlight /\ ~ui.recovering /\ src.order = Wanted

SignalFits(e) ==
    /\ e.sig = "openCompleted" => (Opening \/ ui.recovering) /\ src.order = Unsorted
                                  /\ (e.canSort => ui.kind = "rowid")
    /\ e.sig = "sortCompleted" => ui.sorting /\ (e.ok => src.order = Wanted /\ e.total \in Nat)
    /\ e.sig = "pageReady" => ui.inFlight /\ ~ui.recovering /\ src.order = Wanted
                              /\ Ordered(Wanted, e.rows)

LiveFits ==
    /\ \A i \in LiveCalls : CallFits(inbox[i])
    /\ IsLive(task) => CallFits(task)
    /\ IsLive(parked) => CallFits(parked)
    /\ \A i \in LiveSignals : SignalFits(events[i])

\* An open() or sort() that was replaced may still be running.  Its order is not
\* the one on display only while the viewer sorts, and nothing is fetched from
\* the source before it is through.
ReplacedInv ==
    ui.paged /\ task # NoCall /\ ~IsLive(task) =>
        /\ ~IsLive(parked) /\ LiveSignals = {}
        /\ \/ ui.sorting /\ \A i \in LiveCalls : inbox[i].op \notin PageOps
           \/ ~ui.sorting /\ task.op = "open" /\ ui.committed = Unsorted

FieldsInv ==
    /\ ui.recovering => ui.sorting /\ ~ui.inFlight
    /\ ui.sorting => ui.kind = "rowid" /\ ui.orderValid
    /\ ui.inFlight => ui.paged /\ ui.orderValid
    /\ ~ui.orderValid => ~ui.canSort
    /\ ui.canSort => ui.kind = "rowid"
    /\ ui.firstPending => ui.committed = Unsorted /\ shown.view # ui.gen
    /\ ui.paged /\ ~ui.firstPending => shown.view = ui.gen

ProtocolInv == OneLive /\ NumbersInv /\ LiveFits /\ ReplacedInv /\ FieldsInv

\* The ordinal table is in the order it was made in.
OrdinalsInv == src.order # Unsorted => Ordered(src.order, src.ordinals)

OrderInv == OrdinalsInv /\ IdleSourceOrder /\ ShownInOrder

\* The count that follows a page that vanished is the last of all counts.
Uncounted == ui.paged /\ ui.vanishedAt # NoTotal /\ HasCountWorker(ui) /\ ~ui.countFailed

Corrected(total) == total # NoTotal /\ total <= ui.vanishedAt

RecountInv ==
    /\ ui.paged /\ ui.vanishedAt # NoTotal => Cardinality(rows) <= ui.vanishedAt
    /\ ui.vanishedAt # NoTotal => \A i \in LiveSignals :
           events[i].sig = "sortCompleted" /\ events[i].ok => Corrected(events[i].total)
    /\ Uncounted /\ ui.sortTotal => Corrected(ui.pager.total)
    /\ Uncounted /\ counts = <<>> /\ countEvents = <<>> => Corrected(ui.pager.total)
    /\ Uncounted /\ counts = <<>> /\ countEvents # <<>> =>
           LET e == countEvents[Len(countEvents)]
           IN  e.view = viewGen /\ (e.ok => Corrected(e.total))

SharedInv == TypeOK /\ LoadsInv /\ ProtocolInv /\ OrderInv /\ RecountInv

-----------------------------------------------------------------------------
(* The rest takes it that nobody writes to the table.                      *)

RowCount == Cardinality(rows)

\* Whoever says how many rows there are says the truth.
TotalsInv ==
    ui.paged =>
        /\ ui.pager.total # NoTotal => ui.pager.total = RowCount
        /\ src.kind # "none" /\ src.open => src.asOpened = rows /\ ~src.changed
        /\ src.kind = "csv" => src.indexed <= RowCount /\ (src.complete => src.indexed = RowCount)
        /\ \A i \in DOMAIN events :
             events[i].view = viewGen /\ events[i].ok =>
                 /\ events[i].sig = "sortCompleted" => events[i].total = RowCount
                 /\ events[i].sig = "indexProgress" /\ events[i].complete
                        => events[i].total = RowCount
        /\ \A i \in DOMAIN countEvents :
             countEvents[i].view = viewGen /\ countEvents[i].ok => countEvents[i].total = RowCount

\* A token marks the page it came with: by its offset, by the rows at its ends,
\* or by their places in the ordinal table.
TokenFits(token, order, page) ==
    LET there == PageOf(order, page)
    IN  token.valid =>
            IF ui.kind # "rowid" THEN token.offset = FirstRowOnPage(page) - 1
            ELSE /\ there # <<>>
                 /\ IF order = Unsorted
                    THEN token.first = Head(there) /\ token.last = there[Len(there)]
                    ELSE /\ token.first = FirstRowOnPage(page)
                         /\ token.last = FirstRowOnPage(page) + Len(there) - 1

\* Rows of a page: all of them, or as far as a file was indexed that cannot be
\* indexed any further.
RowsFit(s, order, page) ==
    \/ s = PageOf(order, page)
    \/ /\ ui.kind = "csv" /\ src.failed
       /\ s # <<>> /\ s = AtMost(PageOf(order, page), Len(s))

\* There are rows on a page, and after it.
Exists(page) == (page - 1) * PageSize < RowCount
Followed(page) == page * PageSize < RowCount

\* What is said of the rows that follow a page.
MoreFits(more, page) ==
    /\ Followed(page) => more
    /\ more /\ ui.kind # "csv" => Followed(page)

\* The page a live call or its answer is about is the one the viewer is to show
\* next.  It may be missing only at the end of a file that is being indexed.
Reachable ==
    /\ ui.pendingPage > 0
    /\ ui.pendingPage <= ui.pager.page + 1 \/ Exists(ui.pendingPage)
    /\ ~ui.sorting /\ ~ui.firstPending /\ ui.kind # "csv" => Exists(ui.pendingPage)

AsksForPage(c) ==
    c.op \in PageOps =>
        /\ Reachable
        /\ c.op = "first" => ui.pendingPage = 1
        /\ c.op = "next" => c.token = ui.token /\ ui.pendingPage = ui.pager.page + 1
        /\ c.op = "prev" => c.token = ui.token /\ ui.pendingPage = ui.pager.page - 1
        /\ c.op = "last" => c.total = RowCount /\ RowCount > 0
                            /\ ui.pendingPage = PageCount(RowCount)
        /\ c.op # "first" => ~ui.sorting
        /\ ui.pendingFromPrev <=> c.op = "prev"

BringsPage(e) ==
    e.sig = "pageReady" /\ e.ok =>
        /\ Reachable
        /\ \/ ui.pendingPage = 1 \/ Exists(ui.pendingPage)
           \/ ui.kind = "csv" /\ ~ui.firstPending
        /\ RowsFit(e.rows, Wanted, ui.pendingPage)
        /\ TokenFits(e.token, Wanted, ui.pendingPage)
        /\ MoreFits(e.hasMore \/ ui.pendingFromPrev, ui.pendingPage)

\* The page on display, and what the pager says of it.
DisplayFits ==
    OnDisplay =>
        /\ RowsFit(shown.rows, ui.committed, ui.pager.page)
        /\ ui.pager.page = 1 \/ Exists(ui.pager.page)
        /\ ui.pager.total = NoTotal => MoreFits(ui.pager.hasMore \/ ui.pager.fromPrev, ui.pager.page)

\* Until the first open() of what is not sorted has returned there is nothing
\* else to do, nothing to show and nothing to read.
OpenQueued == task.op = "open" \/ \E i \in DOMAIN inbox : inbox[i].op = "open"

OpensOnce ==
    ui.kind # "rowid" /\ OpenQueued =>
        /\ ui.firstPending /\ ui.pager = FreshPager
        /\ IF task.op = "open" THEN inbox = <<>> ELSE Len(inbox) = 1
        /\ src.kind = "none" /\ parked = NoCall /\ counts = <<>>
        /\ \A i \in DOMAIN events : events[i].view # viewGen
        /\ \A i \in DOMAIN countEvents : countEvents[i].view # viewGen

PagesInv ==
    ui.paged =>
        /\ ui.kind = "csv" => rows = 1..RowCount
        /\ src.order # Unsorted => src.ordinals = Ranked(rows, src.order)
        /\ ui.pager.page > 0
        /\ ui.firstPending => ui.token = NoToken /\ ui.pager.page = 1
        /\ TokenFits(ui.token, ui.committed, ui.pager.page)
        /\ DisplayFits
        /\ \A i \in LiveCalls : AsksForPage(inbox[i])
        /\ IsLive(parked) => AsksForPage(parked)
        /\ \A i \in LiveSignals : BringsPage(events[i])
        /\ OpensOnce

-----------------------------------------------------------------------------
(* The status bar.                                                         *)

\* Once a page has been shown the bar knows the text on the line for its own or
\* for somebody else's: a summary is the one it would write, a loading text the
\* one of the index it still waits for.
LineFits(b) ==
    /\ b.summary.kind \in {"empty", "summary"}
    /\ b.indexingText.kind \in {"empty", "loading"}
    /\ b.hasInfo =>
         /\ b.summary.kind = "summary"
         /\ b.summary.page = b.page /\ b.summary.total = b.total
         /\ b.text.kind = "summary" => b.text = b.summary
         /\ b.text.kind = "loading" => b.indexing /\ b.text = b.indexingText
         /\ b.progress => b.indexing

\* Both bars were told what the pager knows; the total of a sort is kept back
\* until its page is there.
ToldFits ==
    /\ ui.status.hasInfo
    /\ ui.status.page = ui.pager.page
    /\ ui.kind # "rowid" => /\ ui.status.total = ui.pager.total
                            /\ ui.bar.total = ui.pager.total

StatusInv ==
    /\ LineFits(ui.status)
    /\ ui.paged /\ ~ui.firstPending => ToldFits

\* The end of an index that the status bar waits for is announced, behind
\* whatever says that it goes on.
Indexing == src.kind = "csv" /\ ~IndexEnded(src)

OfIndex(e) == e.sig = "indexProgress" /\ e.view = viewGen
EndsIndex(e) == OfIndex(e) /\ (~e.ok \/ e.complete)

EndFollows(q, from, going) == going \/ \E j \in DOMAIN q : j >= from /\ EndsIndex(q[j])

EndIsTold(q, going) ==
    /\ ui.status.indexing => EndFollows(q, 1, going)
    /\ \A i \in DOMAIN q : OfIndex(q[i]) => ui.kind = "csv" /\ EndFollows(q, i, going)

LoadingInv == ui.paged => EndIsTold(events, Indexing)

\* A page turn leads to another page.
TurnsAway ==
    /\ ui.kind \in Kinds \union {"csv"}
    /\ ui.inFlight /\ ~ui.sorting /\ ~ui.firstPending => ui.pendingPage # ui.pager.page

\* The page a sort waits for is the first one, also when it is asked for while
\* that of another sort is on its way.
SortShowsFirst == ui.sorting /\ ui.inFlight => ui.pendingPage = 1

=============================================================================
