---------------------------- MODULE SourceWorker ----------------------------
(***************************************************************************)
(* The worker thread that owns a table source (src/workers/source_worker). *)
(* The GUI thread posts calls to it and reads the signals it posts back;   *)
(* both queues are FIFO.  Two atomics shared with the GUI thread say which *)
(* calls still matter: viewGen moves on when the file or the table is left,*)
(* opGen when a newer page turn or sort replaces an older one.             *)
(*                                                                         *)
(* open() and sort() take two steps, because they change the source and    *)
(* the GUI thread may move the generations on before they look at them     *)
(* again.  The other calls change nothing a later call can see unless they *)
(* are still wanted when they end, so one step is enough for them.         *)
(***************************************************************************)
EXTENDS TablePages

CONSTANT MaxSlices      \* bound: index slices a file is long

ASSUME MaxSlicesAssumption == MaxSlices \in Nat

VARIABLES
    rows,       \* the rows of the table or file, which others may change
    viewGen,    \* *m_viewGen
    opGen,      \* *m_opGen
    inbox,      \* calls queued on the worker thread
    task,       \* the open() or sort() in progress
    src,        \* m_source
    parked,     \* m_pendingPageRequest
    events      \* signals queued on the GUI thread

workerVars == <<rows, viewGen, opGen, inbox, task, src, parked, events>>

-----------------------------------------------------------------------------
Ops == PageOps \union {"open", "sort", "slice", "shutdown"}

\* A queued call.
Call == [op : Ops, view : Nat, gen : Nat, kind : Kind, token : Token,
         total : Total, sort : Order]

NewCall(op, view, gen, kind) ==
    [op |-> op, view |-> view, gen |-> gen, kind |-> kind, token |-> NoToken,
     total |-> NoTotal, sort |-> Unsorted]

NoCall == NewCall("shutdown", 0, 0, "csv")

\* The source object.  For a file: how many records are indexed, how many
\* slices are left to scan, and the two reasons that end indexing early.  For
\* a database: the ordinal table and the order it holds.  asOpened is the
\* identity of what was opened, view the load it was opened for.
Source == [kind : Kind \union {"none"}, open : BOOLEAN, view : Nat,
           asOpened : SUBSET Row, indexed : Nat, left : Nat, complete : BOOLEAN,
           failed : BOOLEAN, changed : BOOLEAN, order : Order,
           ordinals : Seq(Row)]

EmptySource(kind, view) ==
    [kind |-> kind, open |-> FALSE, view |-> view, asOpened |-> {}, indexed |-> 0,
     left |-> 0, complete |-> FALSE, failed |-> FALSE, changed |-> FALSE,
     order |-> Unsorted, ordinals |-> <<>>]

NoSource == EmptySource("none", 0)

CanSort(s) == s.kind = "rowid" /\ s.open

Event == [sig : {"openCompleted", "pageReady", "sortCompleted", "indexProgress"},
          view : Nat, gen : Nat, ok : BOOLEAN, total : Total, canSort : BOOLEAN, complete : BOOLEAN,
          rows : Seq(Nat), token : Token, hasMore : BOOLEAN]

NewEvent(sig, view, gen, ok) ==
    [sig |-> sig, view |-> view, gen |-> gen, ok |-> ok, total |-> NoTotal,
     canSort |-> FALSE, complete |-> FALSE, rows |-> <<>>, token |-> NoToken, hasMore |-> FALSE]

PageReady(c, result) ==
    [NewEvent("pageReady", c.view, c.gen, result.ok) EXCEPT
        !.rows = result.rows, !.token = result.token,
        !.hasMore = result.hasMore]

-----------------------------------------------------------------------------
IsStale(c) == c.view # viewGen \/ c.gen # opGen
IsViewStale(c) == c.view # viewGen

\* Nothing more will be indexed, because of an error or at the end of the file.
Broken(s) == ~s.open \/ s.failed \/ s.changed
IndexEnded(s) == s.complete \/ Broken(s)

\* verifyUnchanged: a difference between the file and what was opened is
\* latched, and every page and slice fails from then on.
Verified(s) ==
    [s EXCEPT !.changed = s.changed \/ (s.kind = "csv" /\ rows # s.asOpened)]

\* The progress signal: an error, the end of the index, or how far it is.
Progress(view, s) ==
    [NewEvent("indexProgress", view, 0, ~Broken(s)) EXCEPT
        !.total = IF Broken(s) THEN NoTotal ELSE s.indexed, !.complete = s.complete]

\* The signals after a slice that left s.  Those that end nothing are sent at
\* most every 100 ms, so a slice may send one or not.
Reports(view, s) ==
    {Append(events, Progress(view, s))} \union (IF IndexEnded(s) THEN {} ELSE {events})

\* Mutant: m_pendingPageRequest is not reset once it is answered.
UnparkForgotten == UNCHANGED parked

Unpark == parked' = NoCall

\* What a page query may come back with; reading the file or the database may
\* always fail.
Pages(c, s) ==
    {FailedPage} \union
    IF s.open THEN {Fetch(Verified(s), rows, c.op, c.token, c.total)} ELSE {}

-----------------------------------------------------------------------------
(* The handlers.  Each checks and changes things in the order of the code. *)

TakeCall(ops) ==
    /\ task = NoCall
    /\ inbox # <<>>
    /\ Head(inbox).op \in ops
    /\ inbox' = Tail(inbox)
    /\ UNCHANGED <<rows, viewGen, opGen>>

\* open() and sort() return at once when stale; sort() needs a source.
BeginTask ==
    /\ TakeCall({"open", "sort"})
    /\ LET c == Head(inbox)
       IN  IF IsStale(c) \/ (c.op = "sort" /\ src.kind = "none")
           THEN UNCHANGED <<task, parked>>
           ELSE /\ task' = c
                /\ parked' = IF c.op = "open" THEN NoCall ELSE parked
    /\ UNCHANGED <<src, events>>

\* Bytes that are still to be scanned hold a record, except for a last one that
\* is the line feed of a CRLF cut in two.
Scannable(s) == s.left > 1 => s.indexed < Cardinality(rows)

\* A file of which the sample is indexed.
Sampled(s) ==
    {[s EXCEPT !.indexed = n, !.left = left] :
        n \in 0..Cardinality(rows), left \in 1..MaxSlices}

\* What open() can leave behind: nothing usable; a database; a file with its
\* sample indexed, or all of it when it is short.
OpenOutcomes(c) ==
    LET empty == EmptySource(c.kind, c.view)
        fresh == [empty EXCEPT !.open = TRUE, !.asOpened = rows]
    IN  {empty} \union
        IF c.kind # "csv" THEN {fresh}
        ELSE {s \in Sampled(fresh) : Scannable(s)}
             \union {[fresh EXCEPT !.indexed = Cardinality(rows), !.complete = TRUE]}

\* Mutant: the index is not started after open().
OpenCompletedUnindexed(c, s) ==
    /\ events' = Append(events, [NewEvent("openCompleted", c.view, c.gen, s.open)
                                   EXCEPT !.canSort = CanSort(s)])
    /\ UNCHANGED inbox

\* openCompleted, then the index: either its total, or its first slice.
OpenCompleted(c, s) ==
    LET done == [NewEvent("openCompleted", c.view, c.gen, s.open)
                   EXCEPT !.canSort = CanSort(s)]
        isFile == s.open /\ c.kind = "csv"
    IN  /\ events' = IF isFile /\ s.complete
                     THEN events \o <<done, Progress(c.view, s)>>
                     ELSE Append(events, done)
        /\ inbox' = IF isFile /\ ~s.complete
                    THEN Append(inbox, NewCall("slice", c.view, 0, "csv"))
                    ELSE inbox

FinishOpen ==
    /\ task.op = "open"
    /\ task' = NoCall
    /\ \E s \in OpenOutcomes(task) :
         /\ src' = s
         /\ IF IsStale(task) THEN UNCHANGED <<events, inbox>>
                             ELSE OpenCompleted(task, s)
    /\ UNCHANGED <<rows, viewGen, opGen, parked>>

\* sort() fills a new ordinal table and then promotes it.  A sort replaced
\* while it runs may have got that far or not; nobody is told which.  Nobody
\* looks at the total of a sort that failed.
FinishSort ==
    /\ task.op = "sort"
    /\ task' = NoCall
    /\ \E done \in BOOLEAN :
         /\ done => CanSort(src)
         /\ src' = IF done THEN [src EXCEPT !.order = task.sort,
                                            !.ordinals = Ranked(rows, task.sort)]
                           ELSE src
         /\ events' = IF IsStale(task) THEN events
                      ELSE Append(events, [NewEvent("sortCompleted", task.view, task.gen, done)
                                 EXCEPT !.total = IF done THEN Cardinality(rows) ELSE 0])
    /\ UNCHANGED <<rows, viewGen, opGen, inbox, parked>>

\* first(), next(), prev() and last(): parked while the index has not reached
\* the page, answered otherwise.
FetchPage ==
    /\ TakeCall(PageOps)
    /\ LET c == Head(inbox)
           start == StartOrdinal(c.op, c.token, c.total)
       IN  IF IsStale(c) \/ src.kind = "none"
           THEN UNCHANGED <<parked, src, events>>
           ELSE IF src.kind = "csv" /\ Readiness(src, start) = "Pending"
           THEN parked' = c /\ UNCHANGED <<src, events>>
           ELSE /\ Unpark
                /\ src' = Verified(src)
                /\ \E page \in Pages(c, src) :
                     events' = Append(events, PageReady(c, page))
    /\ UNCHANGED task

\* What one slice of indexing makes of the source.  The scan, or writing the
\* index down, may fail half way.
SliceOutcomes(s) ==
    LET reached == s.indexed..Cardinality(rows)
    IN  IF IndexEnded(s) THEN {s}
        ELSE IF rows # s.asOpened THEN {Verified(s)}
        ELSE {[s EXCEPT !.indexed = n, !.failed = TRUE] : n \in reached} \union
             {t \in {[s EXCEPT !.indexed = n, !.left = @ - 1, !.complete = (s.left = 1)] :
                         n \in reached} :
                  Scannable(t) /\ (t.complete => t.indexed = Cardinality(rows))}

\* The parked request after a slice that left s: dropped when stale, refused
\* when the index failed, answered when its page is ready, kept otherwise.
AnswerParked(s, sofar) ==
    LET start == StartOrdinal(parked.op, parked.token, parked.total)
        wanted == parked # NoCall /\ ~IsStale(parked)
        ready == Readiness(s, start) # "Pending"
    IN  \/ /\ ~wanted
           /\ src' = s
           /\ Unpark
           /\ events' = sofar
        \/ /\ wanted
           /\ Broken(s)
           /\ src' = s
           /\ Unpark
           /\ events' = Append(sofar, PageReady(parked, FailedPage))
        \/ /\ wanted
           /\ ~Broken(s)
           /\ ready
           /\ src' = Verified(s)
           /\ Unpark
           /\ \E page \in Pages(parked, s) :
                events' = Append(sofar, PageReady(parked, page))
        \/ /\ wanted
           /\ ~Broken(s)
           /\ ~ready
           /\ src' = s
           /\ events' = sofar
           /\ UNCHANGED parked

IndexSlice ==
    /\ task = NoCall
    /\ inbox # <<>>
    /\ Head(inbox).op = "slice"
    /\ LET c == Head(inbox)
       IN  IF IsViewStale(c) \/ src.kind # "csv"
           THEN inbox' = Tail(inbox) /\ UNCHANGED <<parked, src, events>>
           ELSE \E s \in SliceOutcomes(src) :
                  /\ \E sofar \in Reports(c.view, s) : AnswerParked(s, sofar)
                  /\ inbox' = IF IndexEnded(s) THEN Tail(inbox) ELSE Append(Tail(inbox), c)
    /\ UNCHANGED <<rows, viewGen, opGen, task>>

Shutdown ==
    /\ TakeCall({"shutdown"})
    /\ src' = NoSource
    /\ Unpark
    /\ UNCHANGED <<task, events>>

WorkerNext ==
    \/ BeginTask
    \/ FinishOpen
    \/ FinishSort
    \/ FetchPage
    \/ IndexSlice
    \/ Shutdown

\* A fresh worker, asked to open a table.
NewWorker(view, gen, kind) ==
    /\ viewGen' = view
    /\ opGen' = gen
    /\ inbox' = <<NewCall("open", view, gen, kind)>>
    /\ task' = NoCall
    /\ src' = NoSource
    /\ parked' = NoCall

WorkerInit ==
    /\ rows = Row
    /\ viewGen = 0
    /\ opGen = 0
    /\ inbox = <<>>
    /\ task = NoCall
    /\ src = NoSource
    /\ parked = NoCall
    /\ events = <<>>

\* Someone outside deletes a row of the table, or rewrites the file without it.
DeleteRow ==
    /\ \E r \in rows : rows' = rows \ {r}
    /\ UNCHANGED <<viewGen, opGen, inbox, task, src, parked, events>>

\* The worker's part of the state: queues, source and parked request.
WorkerTypeOK ==
    /\ rows \in SUBSET Row
    /\ viewGen \in Nat
    /\ opGen \in Nat
    /\ inbox \in Seq(Call)
    /\ task \in Call
    /\ src \in Source /\ (src.kind = "csv" /\ ~IndexEnded(src) => src.left > 0)
    /\ parked \in Call /\ (parked = NoCall \/ parked.op \in PageOps)
    /\ events \in Seq(Event)

=============================================================================
