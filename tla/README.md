# DataTableViewer: a TLA+ development

DataTableViewer is a Qt plugin that shows CSV/TSV files and SQLite tables one
page at a time. Its difficulty is not in the tables but in the timing: the GUI
thread asks, workers answer later on threads of their own, and in between the
user turns pages, sorts, cancels, copies or opens something else, while the
file is still being indexed and other programs may write to it. These modules
model that part of the program, TLC checks it on small tables, and TLAPS proves
the results that can be proved for tables of any size.

Paths below are relative to the repository root; `viewer` stands for
`src/ui/data_table_viewer.cpp` and `worker` for `src/workers/source_worker.cpp`.

## 1. The system

| Component | State it keeps | Operations | Talks to |
|---|---|---|---|
| `DataTableViewer` (`viewer`), GUI thread | generation of the load, paged / sorting / recovering flags, committed and pending order, pager, page token, page requested | load a file or table, page turns, sort, cancel sort, handlers of all worker signals, copy, destruction | posts calls to the workers, receives their signals, drives the widgets |
| `SourceWorker`, a thread per load | the source, one parked page request | open, first/next/prev/last, sort, indexSlice, refetchRows, shutdown, interrupt | emits openCompleted, pageReady, sortCompleted, indexProgress, refetchRowsCompleted |
| `CountWorker`, a thread per SQLite load | its own connection | count, shutdown, interrupt | emits countCompleted |
| generation counters `m_viewGen`, `m_opGen` | two shared atomics | bumped by the GUI thread, compared by the workers | shared memory |
| `InterruptHandle` | connection and interrupt sequence behind a mutex | setDb, clear, interrupt, sequence | GUI thread and worker |
| `PagerState`, `PageBar` | page, total, hasMore, arrivedFromPrev; a copy in the bar, busy | pages, canFirst/Prev/Next/Last, setPagerState, setBusy | viewer |
| `SqliteTableSource` | connection, order table, keys | open, first/next/prev/last, sort, refetch | SQLite, a database others write to |
| `CsvFileSource` | file handle and its stamp, index, sampled columns, failed flag | open, advanceIndex, readiness, pages, refetch, verifyUnchanged | scanner, index, a file others write to |
| `CsvRecordIndex` | write buffer, cache of the first spans, cache of the last block, temporary file | init, appendSpan, readSpan(s), flush, markComplete | file system |
| `CsvRecordScanner` | quote / CR / field state | feed, finish | `CsvFileSource` |
| `TableRenderer` | page data and keys, pending copy, sort indicator, header layout | setPageData, setData, clear, performCopy, onRefetchRowsCompleted | viewer, clipboard |
| `StatusBar` | the text of the line, the summary, flags and texts of indexing, progress bar, sorting label | setPagedLoadInfo, updatePagedTotal, setIndexingProgress, setIndexingFailed, setWarning, restoreInfo, ... | viewer |
| worker ledger (`m_workers`), `BackgroundThread` | live threads and workers | trackWorker, reapWorkers, cancelPending, joinBackgroundWorkers | Qt's deleteLater, destroyed signals |
| `TableWorker`, parsers | none after the parse | doParse | viewer |
| `TypeInferrer`, `ActionRegistry`, models, search bar, pickers | local | sequential | GUI thread |

What is hard about it:

* *Concurrency.* Calls and signals are queued in both directions. The only
  thing that tells a late answer from a wanted one is the pair (view
  generation, operation generation).
* *Side effects of superseded calls.* A sort or an open whose answer is thrown
  away has already changed the source.
* *Waiting.* A page of a file that is not indexed yet is parked in the worker
  and answered by a later slice; a copy waits for its rows. Nothing has a timer.
* *Several sources of one fact.* The total comes from COUNT, a sort or the end
  of the index, in any order; hasMore from the source or from the total.
* *Ends.* Workers delete themselves on their own threads; the viewer may be
  destroyed at any moment and must leave no thread behind, not even one in a query
  that takes hours.
* *Shared labels.* Five sources of text write to one line and recognise their
  own text only by comparing strings.
* *Failure.* A slice, a reopening, a refetch, an access to the temporary file
  or the COUNT may fail, and recovery may fail in its turn.
* *The outside.* Rows are deleted and files rewritten meanwhile.

## 2. Modules

| Module | Models | Built on |
|---|---|---|
| `PagerState` | `src/core/pager_state.h`: page count and the four buttons | |
| `TablePages` | what a source answers: rowid keyset, offset, ordinal table after a sort, file pages; tokens; readiness | |
| `SourceWorker` | the worker's slots, the queue of calls, the parked request, indexing in slices | `TablePages` |
| `WorkerClient` | the worker under the least disciplined client | `SourceWorker` |
| `StatusBar` | the status bar's texts as operations on a record | `PagerState` |
| `DataTableViewer` | GUI thread, source worker, COUNT worker, page bar and status bar together | `SourceWorker`, `PagerState`, `StatusBar` |
| `PagedTable` | abstract specification of the window: a page asked for comes whole, or nothing changes | `TablePages` |
| `PagedViewer` | the mapping from the viewer to `PagedTable` | `DataTableViewer`, implements `PagedTable` |
| `WorkerLifecycle` | threads and workers made, retired, interrupted, deleted and joined; interrupt and retry | |
| `CsvRecordScanner` | the scanner fed slice by slice, next to a definition of what a file holds | |
| `CopyPipeline` | performCopy, refetchRows, onRefetchRowsCompleted, the clipboard | |
| `SpanList` | abstract specification of the index: an append-only list | |
| `CsvRecordIndex` | the index with buffer, caches, file and failures | implements `SpanList` |
| `ViewerInvariant`, `ScannerInvariant` | no code: the inductive invariants of `DataTableViewer` and of `CsvRecordScanner` | `DataTableViewer`; `CsvRecordScanner` |
| `WorkerProofs`, `IndexProofs`, `LifecycleProofs`, `CopyProofs` | theorems | `WorkerClient`; `CsvRecordIndex`; `WorkerLifecycle`; `CopyPipeline` |
| `ScannerProofs` | theorems about the scanner | `ScannerInvariant` |
| `SourceProofs` | theorems about pager arithmetic and pages; lemmas about the worker's actions, for both modules that drive it | `SourceWorker`, with `TablePages` and `PagerState` |
| `ViewerProofs`, `PagingProofs` | theorems: types, loads, the sorting label, requests, orders and recounts; totals, pages, the status bar and the refinement of `PagedTable` | `ViewerInvariant`, `PagedViewer`, `SourceProofs` |
| `MC*` | instances for TLC | |

### How state and actions correspond to the code

**Queues.** `inbox` is the event queue of the source worker's thread, `events`
that of its signals to the viewer, `counts` and `countEvents` the same for the
COUNT worker. Each is first in, first out. Qt has one queue at the GUI thread;
the model lets the signals of the two workers be read in either order, which
includes every order there is.

**Steps.** An action is one slot or one handler, with everything it calls.
`open` and `sort` take two steps in the worker (`BeginTask`, then `FinishOpen`
or `FinishSort`), because their side effects survive when the call turns stale
half way. A page read or an index slice is one step: the only thing that could
happen in between is that it turns stale, and then its answer is dropped, which
is what happens to it if the generation moves just after the step.

**Generations.** `viewGen` and `opGen` are the current worker's shared atomics,
`ui.gen` the viewer's `m_generation`. Every load creates a new pair of workers.
A retired worker is not kept in `DataTableViewer`: after cancelPending() each of
its calls returns as stale, and only signals it has already emitted matter; these
stay in `events`. How it ends is the subject of `WorkerLifecycle`. The viewer
interrupts a connection only after it has bumped the generation, so a cancelled
query is always a stale one. The two cancelPending() calls of a load of a CSV
file are one step.

**Indexing.** The number of slices a file takes is bounded by `MaxSlices`;
each slice indexes some records, possibly none, may be the last, or fails. A
file changed by someone else (`DeleteRow`) is noticed by verifyUnchanged() at
the next slice or page and stays refused, as the code latches it. A slice that
does not end the index may report its progress or not, since the code does so
every 100 ms.

**Sources.** A table is a set of rowids with a sort key each; ties are broken by
rowid, as the ORDER BY in `sort` does. `Page`, `FetchByRowid`, `FetchByOffset`,
`FetchByOrdinal` and `CsvFetch` return rows, token and hasMore as the queries
do, reading one row more than the page. That two queries see the rows in the
same order is a fact of the ORDER BY wherever there is a key; a view without one
keeps what order its query plan gives, and that plan is taken to be stable. Cell contents, types, decoding and
truncation do not matter to control and are absent.

**Viewer.** `ui` holds the fields of `DataTableViewer` that handlers read, one
for one; `ui.busy` and `ui.bar` are the page bar's own copies. `shown` is the
page in the renderer. `ui.vanishedAt` is a history field. Keyboard shortcuts
reach the page handlers without asking the page bar, so whether a button is
enabled guards nothing. cancelPending() leaves the page bar as it was; the bar
is hidden then, and a load tells it busy and pager before it is shown again, so
the model resets both with the rest.

**Status bar.** `ui.status` holds the fields of `StatusBar`; every handler of the
viewer that writes to the bar does so in its action. A text is a record: what it
is about and the numbers in it. Two texts are equal in the model when they are in
the code, apart from two values that would collide in print (a cell whose text is
that of the summary); file size, time and format do not change while a table is
open. `SelectCell` is the renderer's selection handler, with and without a cell.

**Lifecycle.** `pairs` are the threads with their workers, numbered as they are
made; `ledger` is `m_workers`, which is in that order, `queue` the GUI thread's events. A thread takes calls from its
`inbox`, one step for each access to what is shared: the handle, the
connection, the generation. `handle` is `m_db` in the InterruptHandle, `cut`
SQLite's own interrupt flag, which it clears when a statement starts. A worker
deletes itself in its event loop or, once its thread was told to quit, when the
loop ends. Its destroyed signal lets the GUI thread delete the thread, which
waits in ~BackgroundThread(). joinBackgroundWorkers() takes a step per pair and
one more between asking whether a worker exists and using it. A worker that is
used when it is gone ends the model (`crashed`), and the other properties are
about what happens short of that. Only as much of the viewer is here as decides
which call is sent to whom.

**Scanner.** `Feed` is feed(), a slice at a time. The pointers p and spanStart
become a position and the bytes since (`span`); `skip` marks a byte the code has
stepped over after looking ahead. `cell`, `fields` and `records` collect what
the callbacks of `CsvFileSource` are given. m_hasBom is only copied into the
header of the index and is left out.

**Copying.** In `CopyPipeline` a row stands for the one cell of it that is
selected. `pending` is `m_pendingCopy`, `notice` the last argument of
`copyRefetchIncomplete`, `calls`, `task` and `events` the refetchRows() calls,
those under way and their answers. Here each load keeps its own worker, since
retired workers do answer. `pending.view` is a history field. Results go by
place on the page, as in the code, which is why an answer to the wrong copy
could put foreign text on the clipboard. Markdown's limit of 1000 rows and the
escaping of cells are layout.

**Index.** `disk` is the temporary file as a sequence of spans, `writeBuffer`,
`ramCache`, `blockCache`, `blockStart` the code's fields. A read is a sequence
of steps, one per span. Nothing else happens in between (one thread uses the
index); the steps are apart because any of them may fail. A failed write leaves
any prefix of the buffer in the file. The header is never read back, so writing
it only matters by failing. The scanner never passes an inverted span, and
advanceIndex() stops appending once the index is complete.

## 3. What is checked

All runs switch off deadlock checking: the user may stop at any moment, and the
bounds stop the model.

| Run | Asks | Bounds | Result |
|---|---|---|---|
| `worker_client` | Is a parked page request always followed by a slice, answered once, and answered in the end? | 2 records, 1 to a page, 2 slices, 2 loads, 3 requests a load, 1 unread signal, other programs delete rows | holds |
| `viewer_sort` | Rowid table with ties: do header order, source order, Next, sorting label and busy state agree? Does the window implement `PagedTable`, whose pages are in the order of the header? | 3 rows or 2, 1 to a page, 2 loads, 4 operations | holds |
| `viewer_file` | A CSV file indexed while pages are turned, and a table without rowid counted meanwhile: display, Next, total, status line, busy state, `PagedTable` | 4, 3 or no rows, 2 to a page, 3 slices, 2 loads, 4 operations, any cell selected | holds |
| `viewer_shared` | The same table while others delete rows | 3 rows, 2 to a page, 1 load, 3 operations | holds |
| `index` | Does the index implement the append-only list, whatever fails? Without failures, does it ever fail by itself? | 5 records, buffer 3, block 2, 1 cached span, two different spans | holds |
| `copy` | Does the clipboard hold what was selected, are cut texts reported, does a copy over the budget copy nothing, does every copy end? | 4 rows, 3 pages, 2 copies, 2 loads, 1 row may be deleted | holds |
| `lifecycle` | Is a closed connection ever interrupted? Does anything outlive the viewer, does its destructor end, are retired threads freed? | 3 pairs (a list of tables and a table, in either order), 1 interrupt nobody asked for, destruction at any moment | holds |
| `scanner` | Do slices cut anywhere give the records and fields of the whole file? Does a row decoded alone? | 5 kinds of byte, all texts of 4 bytes, some of 5 and 6, with and without byte order mark, 2 columns | holds |
| `bar_total` | Does the page bar show the total the viewer knows? | 1 load, 3 operations | violated |
| `vanish` | Does an empty page mean the data was modified? | 1 load, 4 operations | violated |
| `copy_completes` | Does refetchRows() always complete the copy? | as `copy` | violated |
| `lifecycle_touch` | Does the worker the destructor disconnects still exist? | 2 pairs | violated |

The bounds reach the cases that matter. Two loads suffice for everything a
retired load can do to a later one, since a later one never looks further back
than "not mine". With one row to a page and three rows there are a first, a
middle and a last page, and ties in the sort key. Four operations allow a sort,
another on top of it, a cancel and a page turn to be under way together (the
recovery's own calls are not counted). Two rows to a page with three or four
rows give a short and a full last page. With a buffer of three, blocks of two and
one cached span, five records put spans in memory, in the block, in the file
and in the buffer at once. Two copies are an old answer and a new request;
of the four rows one fits the budget but not with a second and markup, one is over
it by itself, one fits although its row does not, and one is displayed whole.
Three pairs are a list of tables with the table opened from it, or a table left
for another file; a third load would find no more of the first than the second does.
Four bytes hold every pair of special bytes with a cut before, between and after
it, and an escaped quote within quotes; the longer texts are runs of quotes, and
of quotes and line ends.
`MaxOp` bounds what the user asks for; recoveries may go beyond it.

Definitions whose comment begins with "Mutant" are seeded faults, plausible slips
in the code such as a forgotten reset or a guard too weak. Nothing uses them;
putting one in place of the definition that follows it makes the run violate the
property named in `PROJECT.json`, which shows that the property can fail.

### The properties

* `ParkedIsScheduled`, `EveryRequestAnswered`, `AnsweredOnce`: the parked
  request, from `WorkerClient`.
* `PageShowsItsRows`: the rows on display are those of the page number in the
  pager, in the order the header shows. Late answers, tokens cut in another
  order, cancelled sorts and premature ends of file would all break it.
* `ImplementsPagedTable`: the viewer implements `PagedTable`. From one state to the
  next the rows, their number and their order change together, to exactly what was
  asked for last, or everything goes with the table.
* `IdleSourceOrder`: with no sort under way the source is in the order the
  viewer believes in, or the viewer has given up that belief.
* `NextHonest`: Next is enabled exactly when rows follow (for an unfinished
  index: whenever they do).
* `TotalIsExact`, `TotalDisplayed`, `RecountIsFresh`: the total, its display, and
  the count taken again after a page vanished.
* `ShownInOrder`: a page never mixes two orders, even while rows are deleted.
* `BusyEnds`: page turns and sorts end, however they were interrupted.
* `SummaryIsCurrent`, `LoadingTextEnds`, `CellTextKept`, `SortingLabel`: the status
  bar. A summary on the line has the page and the total of now, "Loading records"
  goes when the index ends, whichever of the end and the first page comes first,
  a selected cell is not evicted by progress, and the label that cancels a sort
  is there exactly while one can be cancelled.
* `ConnectionInv`, `StrayIsHarmless`: the handle never holds a closed connection,
  and one interrupt nobody asked for costs nobody a page or a count.
* `NothingOutlives`, `DestructorEnds`, `RetiredIsFreed`: the ends of threads. No
  thread, worker or connection is left behind the destructor; it ends though
  queries may run for ever; and the threads of files left long ago go.
* `RecordsAreFound`, `FieldsAreDecoded`, `RowsDecodeAlone`, `ScannerInv`: the
  scanner, against line ends, fields and literal quotes defined by the parity of
  the quotes before a byte.
* `Implements`, `IndexInv`, `NeverFailsByItself`: the index.
* `ClipboardIsSelection`, `CutTextsAreReported`, `PendingIsCurrent`, `CopyEnds`:
  copying. `OverBudgetCopiesNothing` is what `src/src/core/table_source.h`:42-46 and
  `docs/SPEC.md`:90 promise: the source, the worker and the renderer each price
  something else (a cell, the rows fetched with all their columns, the text with
  its markup), and whichever finds a copy too large, nothing of it is copied,
  not even the rows that were fetched before.

### Fairness

Weak fairness of the worker's next step, of the viewer reading signals, of
COUNT and of its answer: Qt's event loops run as long as their threads live,
queries terminate, and a thread is only quit after its load was retired. In
`WorkerClient` and `CopyPipeline` the same, per worker. Nothing is assumed of
the user, of other programs or of the success of any call. In `WorkerLifecycle`
queries need not terminate: fairness covers every step of a thread but the end of
a statement by itself, and StopStatement is fair because SQLite calls the
progress handler every 1000 instructions for as long as a statement runs. The index
and the scanner have no fairness: their properties are about safety.

## 4. What is proved

For every value of the constants, from the assumptions the modules state
(`PageSizeAssumption`, `TableAssumption`, `MaxSlicesAssumption`,
`ClientAssumption`, `IndexAssumption`, `LifecycleAssumption`, `CopyAssumption`,
`ScannerAssumption`, `ViewerAssumption`, `NothingAssumption`: sizes are positive,
keys are functions on the rows, the records of a file are numbered from one,
markers differ from data, the byte order mark has three bytes and none of them
is syntax):

* **`WorkerProofs`.** `TypeCorrect`, `InvHolds`, `NoRequestForgotten`,
  `AnswersAreUnique`.
  `ParkedIsScheduled` alone is not inductive: that a slice is queued has to
  survive slices that find nothing, opens that replace the source, requests
  that replace the parked one and shutdowns. `Inv` adds why. A parked request of
  the current view waits on the unfinished index of an open file
  (`ParkedWaits`); such an index has its slice queued (`FileScheduled`); page
  calls are behind the open that makes them meaningful (`CallsFollowOpen`,
  `OpenIsCurrent`); and nothing in the queues is of a later load, or of this one
  once it is shut down (`NothingFromLater`, `RetiredIsPast`). The result follows
  from the first two. That no request is answered twice (`OnceInv`) needs that a
  request is in one place, on the queue, in progress, parked or among the
  answers, and that what is in two places has two numbers.
* **`SourceProofs`.** `NextPageIffRowsFollow` and `LastPageIsAPage`: pager
  arithmetic for every total and page size. `RankedEnumerates`: numbering rows by how
  many precede them lists each once, in order, so the ordinal table of a sort
  is well defined. `StartOrdinalType`, `FetchType`: whatever token is handed
  to a source, the answer is a page or a failure, and no page starts below zero.
  `FetchInOrder`: the rows of that page follow one another in the order the
  source is in, also when some of the table or of the ordinal table are gone.
  `FetchShowsPage`: asked from either end, or with a token of the page before or
  after, a source of any kind that answers with a page brings that page, a token
  that marks it and the truth about what follows it; the pages part of
  `PagingProofs` rests on it.
* **`IndexProofs`.** `IndexCorrect`, `HealthyIndex`, `IndexImplementsList`. The
  argument: `Contents`, the file followed by the buffer, is the list.
  `FileHoldsTheRest` says the two together have `recordCount` spans, so a flush
  writes at the end of the file and leaves `Contents` alone, and every span to
  be read is in the file after it. `RamHoldsTheFirst` and
  `BlockHoldsWhatIsOnDisk` make both caches pieces of `Contents`; `GotIsARun`
  carries that through a read of several spans. After a failure only
  `NothingAfterFailure` is left: nothing more is served. `CompleteIsOnDisk`
  is what markComplete()'s rollback is for. For the refinement, appending maps
  to `Add`, a return to `Answer`, any failing access to `Break`; flushing and
  filling a cache do not show. A by-product: with no temporary file the buffer
  is never empty when something is to be read, so flushBuffer() refuses before
  the seek could use a null handle.

* **`LifecycleProofs`.** `Connections`, `DestructorLeavesNothing`,
  `OneStrayIsHarmless`. That nothing
  outlives the viewer has to be known long before its destructor runs, so `IInv`
  follows every pair from the start. What the ledger has dropped is freed
  (`LedgerInv`): reapWorkers() asks for both pointers. A deletion that is queued
  is for a thread that still exists, whose worker is gone, and is the only one
  for it (`EventsInv`); the thread being deleted has none queued (`GuiInv`). A
  worker is freed once, because none that is freed still has a deletion in its
  inbox, and when only the closing of its connection is left to do its handle
  has been cleared (`PairOK`). Reclaiming the ledger then frees all that is left,
  and any deletion still queued was for one of its threads. An ordinary step of
  a pair frees nothing (`Ordinary`); one lemma says that it keeps `IInv`, and
  most actions only have to show that they are one. `OneStrayIsHarmless` says of
  every behaviour that up to its second stray interrupt no page and no count of
  the load on display is reported as interrupted. Its invariant `StrayInv` is
  that the viewer only ever interrupts pairs of earlier loads, because
  cancelPending() moves the generation first and the destructor stays at the last
  one (`LoadsInv`), so that a statement of the current load that ends early was
  cut from outside and finds the sequence it began with, the condition of the
  retry (`Undisturbed`).

* **`CopyProofs`.** `CopiesTheSelection`, `CutTextsReported`,
  `CopiesWithinBudget`, `PendingCopyIsCurrent`, `CopyTypeCorrect`. An answer
  names rows by their place only, so that it fits the copy it is taken for must
  follow from its number. `IInv` says that every request and answer under way is
  of a copy that has begun and that those with the number of the copy that waits
  are about its cells (`CallsMatch`, `TasksMatch`, `EventsMatch`); a copy that
  begins gets a number nothing under way has. The copy that waits is the last
  one and has not written the clipboard (`PendingIsLast`), and its cells have
  one place each (`OnePerPlace`), from which `CutTextsCounted` gets a bijection
  between the rows counted as failed and the texts that are cut off.
  `CopiesWithinBudget` is about the text that was written
  (`ClipboardWithinBudget`); that the batch behind it was within the budget too
  is a sum over a set that grows row by row, an induction over data, and
  `OverBudgetCopiesNothing` is left to TLC. That only paged tables have such
  cells (`WholeUnlessPaged`) covers the copies that are written at once. The
  types need more than `IInv` (`Rest`): that the calls are of copies that have
  begun, and that the count of failed rows is one of a finite set.

* **`ScannerProofs`.** `ScannerKeepsUp`, `ScannerInvHolds`, `RecordsFound`,
  `FieldsDecoded`, `RowsAlone`: for every file, every way to cut it, empty
  slices included, and every limit of columns. What a file holds is said of the
  file as a whole (parity of quotes, line ends, the kth of a set of positions),
  what the scanner does byte by byte, so the proof brings the two together at
  each position. `Scan(t, o, s, q)` says that a scanner `s` has read `t` from `o`
  to `q`: the records it reported end at the first line ends behind `o`, one at each
  and in order (`Found`); it is within quotes if the parity says so, but for a
  quote that ended a slice (`Quoting`); and the open record's fields, with the cell
  and the span put behind them, are the file's up to `q` (`FieldsSoFar`), unless a
  CR has ended the record and nothing is known of the next one (`Between`).
  One lemma for each kind of byte says that reading it leads from `Scan` at `q` to
  `Scan` at `q + 1` (`InsideDoes`, `OutsideDoes`); a byte read together with the
  one before is accounted for in `LoopAt`. The loop is a recursive function on
  `0..Len(bytes)`, so `LoopEnds` needs an induction up to a number only. The
  library's induction takes a predicate, which the provers cannot instantiate;
  `IndTo` states it for a set and proves it from the least element that is
  missing (`LeastOf`), by the well-foundedness of strict inclusion on finite
  sets. `CrResolved` and `QuoteResolved` settle what a slice left open,
  `FeedBegins` the byte order mark cut anywhere, `EndFound` the record behind the last
  line. `Scan` holds from any place where a record may begin (`GoodOrigin`);
  `RowsAlone` uses that: a row's bytes are a file cut off behind the row
  (`IsHead`), which has the same quotes, line ends and fields up to there.

* **`ViewerProofs`**, under `SharedSpec`, with others deleting rows at any moment.
  `ViewerTypeCorrect`: viewer, status bar, queues and both workers keep their
  types. `LoadsHold` (`LoadsInv`): what is queued, running, parked or on its way
  is of the current load or an earlier one, and the worker's side is of the current
  one or of nothing. So `IsStale` and `IsCurrent` ask the same question.
  `LabelFollowsSort`: the label that cancels a sort. The others build
  on these:
  - `OrderlyHold`: the protocol. `OneLive`: of the current operation there is one
    request or answer, in one place. `NumbersInv` makes that survive a new
    request: nothing has its number yet. `LiveFits`: it is the one the fields of
    the viewer say is under way, and carries or finds the order the viewer
    will take it for. `ReplacedInv` covers the side effects of a sort or open that
    was replaced while it ran: it may still change the source, but only while
    the viewer sorts or recovers, and no page is read before it is through.
    `FieldsInv` is which fields go together. With these the orders agree
    (`OrderInv`), hence `IdleSourceIsOrdered` and `RowsStayInOrder`. `RecoverSort`
    cannot be cancelled itself and clears the page under way, without which
    `OneLive` would fail.
  - `RecountHolds`, `RecountsAreFresh`: rows never become more, counts are taken
    and read in order, so the last count was taken after the last page vanished;
    that a sort's total outranks it has to be cleared (`Uncounted`), and a sort
    under way counts rows no earlier (`SortsBelow`).

* **`PagingProofs`.** The layers, each of which uses the ones before it and
  `ViewerProofs`; totals, pages, the end of the loading text and the refinement need
  that nobody else writes to the table (`Spec`), the others do not:
  - `TotalsHold`, `TotalsAreExact` (under `Spec`: nobody writes): the total of the
    pager, of a sort, of a count and of a complete index are the number of rows,
    each in the signal as well as in the source, since they are read late and
    in any order.
  - `PagesHold` (`PagesInv`, under `Spec`), hence `PagesShowTheirRows` and
    `NextIsHonest`. A page turn names no page: it sends the token of the page on
    display, or the total. So `TokenFits` says which page a token marks,
    `AsksForPage` that the live call asks for the page the viewer will take the
    answer for, and `BringsPage` that the answer is that page; `FetchShowsPage`
    leads from one to the other for each kind of source. A sort that is
    promoted and then cancelled leaves the ordinal table in another order than
    the token, which only `OrderInv` rules out for a call that is served
    (`CallFits`). What the pager says of the rows that follow is true
    (`MoreFits`) because a page reached backwards has one behind it. That a file's
    records only become more, and that the last page of one whose index failed may
    be short (`RowsFit`), needs that a source is opened once per load
    (`OpensOnce`), except where a sort is recovered from.
  - `StatusHolds` (`StatusInv`), hence `SummariesAreCurrent` and
    `TotalsAreDisplayed`. The status bar tells its own text from somebody else's
    by comparing strings, so what is on the line has to be known: a summary
    there is the one the bar would write now, a loading text the one of the index
    it waits for (`LineFits`), and both bars were told the page the pager
    knows (`ToldFits`). The total too, except for a table that can be sorted:
    a sort stores its total before the bars hear of it. Both theorems leave that
    kind out, and for the page bar finding 1 is why.
  - `IndexEndsAreTold` (`LoadingInv`, under `Spec`), hence `LoadingEnds`. As long as
    the bar waits for the index, the index goes on or a signal that ends it is
    on its way, and every signal that says it goes on has such an end behind
    it. Otherwise a late "loading" would stay for ever.
  - `TurnsLeadAway` (`TurnsAway`) and `SelectedCellStays` (under `Spec`). The
    action property lets the text of a selected cell go when other rows are shown,
    so that a page turn does show others has to be known: the page asked for is
    not the one on display, and by `PagesInv` neither are its rows. A sort
    may show the rows that were there, so the theorem assumes that no table
    can be sorted.

  - `ViewerImplementsWindow` (under `Spec`): the viewer implements `PagedTable`,
    which knows a table, the rows, number and order on display, and what was asked
    for last. A step of the abstract specification may turn to a neighbouring, the
    first or the last page, ask for an order, show exactly what was asked for, give
    up, leave or load; it has no requests, generations, tokens, workers or sources.
    `Asked` reads what is waited for off the fields: the page under way, the first
    page of the order being sorted by, nothing while an order is restored. Page
    turns, and the first page after an open, map to `Turn`; a click on a column to
    `Sort`, also on top of another sort; an answer to `Show`, by `BringsPage`, and
    because a sort waits for the first page (`SortShowsFirst`); cancels, failures
    and vanished pages to `GiveUp`; the failing index of a file to `Break`. Every
    other step of the viewer, the workers and the counts is a stutter. A file
    stays unreadable until it is left, because it is opened once per load
    (`OpensOnce`). This is the sum of the safety theorems above: between two states
    not just each state fits, but the number, the order and the rows change together,
    and only to what was asked for.

Only model-checked: liveness (`BusyEnds`, `EveryRequestAnswered`, `CopyEnds`,
`DestructorEnds`, `RetiredIsFreed`), which is beyond the prover. Every other
property of a passing run is stated by a theorem. `SummaryIsCurrent`, `TotalDisplayed` and
`CellTextKept` are neither checked nor proved for tables that can be sorted, for
the reasons above. `StrayIsHarmless` does not hold beyond one stray interrupt:
the code retries once.

## 5. Findings

1. **Page bar without its total** (run `bar_total`). A successful sort stores the total
   (`viewer`:1009-1010) and leaves it to the sorted page to update the bar. If the
   user cancels before that page is there, the page is dropped,
   finishSortRecovery() does not touch the bar, and the COUNT that arrives
   afterwards is ignored because the sort's total has precedence (line 1027).
   The bar shows "page / ..." with Last disabled until the next page turn,
   though nothing is counted any more. `docs/SPEC.md`:127 and :58 say otherwise.
2. **An untouched file is reported as modified** (run `vanish`). hasMore is true
   while the index has not ended. If the last slice holds no record (the line
   feed of a CRLF cut at the slice boundary) and the record count is a multiple of
   the page size, a page turn made before that slice comes back empty, and the
   status bar says "data modified externally". The comment at `viewer`:895 knows no
   other cause.
3. **refetchRows() does not always complete** (run `copy_completes`). The comments at
   `worker`:470-472 and 488-491 say that a stale view must still complete the
   pending copy. When the view turns stale after the last row, lines 539-541
   return without a signal. No harm follows in this viewer: whoever changes the
   view clears the renderer, pending copy included, which `CopyEnds` and
   `PendingIsCurrent` check.

4. **The destructor may use a worker that is gone** (run `lifecycle_touch`).
   joinBackgroundWorkers() asks `handle.worker.isNull()` (`viewer`:464) and then
   disconnects and interrupts the worker. cancelPending() has just told that
   worker to shut down, and its thread still runs, so it may delete itself in
   between. The test at `tests/test_viewer_paging.cpp`:1663 expects destruction to
   be clean "while background workers are actively running or starting".

Observations, not counted as findings:

* When the first page fails, the viewer says so but nothing hides the progress
  bar that showLoading() turned on (`viewer`:871-879); a failed open hides it.
* The warning "Row count failed" is gone at the next page turn: the summary is
  rebuilt without it and, unlike the indexing error, it is not kept.
* The retry of an interrupted query can only be reached by an interrupt that did
  not go through the handle: every other one moves the sequence and the generation.
* detectDelimiter() starts each line of its sample outside quotes, so delimiters
  inside a quoted field that spans lines are counted, against its own comment.
* When indexing ends in failure, a parked request is rejected, while one that
  arrives later is served the records there are, with hasMore set.
* If rows are deleted between pages the recount can leave rows unreachable
  until a reload (`docs/SPEC.md`:156, known limitation 5).
* A reopening during recovery may find the table changed; the total of the
  re-sort is ignored then.
* readiness() of a file that failed to open is Pending, so a page request would
  wait for ever; the viewer never sends one.
* appendSpan() counts a record before the flush that may fail; the index has
  failed then, and serves nothing.
* SqliteTableSource::refetch fetches all columns and the worker counts them all
  against the copy budget; CsvFileSource::refetch only those selected.

## 6. Not modelled, and the plan

| Next | What | Properties |
|---|---|---|
| 1. theorems | the selected cell while tables can be sorted, told apart by more than the rows; a refinement like that of `PagedTable` for a table others delete from | `CellTextKept` for every source |
| 2. `TypeInferrer`, `ActionRegistry` | pure scans | against a reference |

Left out for good: sampling, decoding, cell caps and column metadata (data
without control); the filter's prefix on the status line and its texts for tables
parsed as a whole; header layout, menus, tooltips, icons (widgets); table
model, filter proxy, search bar and picker (synchronous Qt plumbing); the parsers
proper (sequential, no state); detectDelimiter (one look at a sample);
`MaterializedTableSource` (nothing creates it); moving a `CsvRecordIndex` into
another (nothing does after it is in use).
