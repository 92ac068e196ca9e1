---------------------------- MODULE WorkerClient ----------------------------
(***************************************************************************)
(* The source worker alone, driven by the least disciplined GUI thread it  *)
(* can meet: once the source is open it may ask for any page at any time,  *)
(* before the last answer is there, and leave for another file at any      *)
(* moment.  What the viewer really asks is in DataTableViewer.             *)
(***************************************************************************)
EXTENDS SourceWorker

CONSTANTS
    Kinds,      \* what may be loaded
    MaxView,    \* bound: files loaded
    MaxOp,      \* bound: requests for one file, the open included
    MaxBacklog  \* bound: signals the client leaves unread when it asks on

ASSUME ClientAssumption ==
    Kinds \subseteq Kind /\ MaxView \in Nat /\ MaxOp \in Nat /\ MaxBacklog \in Nat

\* The client waits for its source before it asks for pages: it has seen
\* openCompleted for the file it is in.
SourceSettled ==
    /\ src.open
    /\ src.view = viewGen
    /\ task.op # "open"
    /\ \A i \in DOMAIN inbox : inbox[i].op # "open"

\* A load retires the worker it had and creates another.
Load ==
    /\ viewGen < MaxView
    /\ \E kind \in Kinds : NewWorker(viewGen + 1, 1, kind)
    /\ UNCHANGED <<rows, events>>

\* Tokens of the pages of a file; a database is asked by the viewer only.
FileTokens ==
    {[NoToken EXCEPT !.valid = TRUE, !.offset = n * PageSize] :
        n \in 0..Cardinality(rows)}

\* The calls of the next operation.
Requests ==
    LET call(op) == NewCall(op, viewGen, opGen + 1, "csv")
    IN  {call("first"), [call("last") EXCEPT !.total = Cardinality(rows)]}
        \union {[call(op) EXCEPT !.token = token] : op \in {"next", "prev"}, token \in FileTokens}
        \union {[call("sort") EXCEPT !.sort = order] : order \in SortState}

Request ==
    /\ SourceSettled
    /\ opGen < MaxOp
    /\ Len(events) <= MaxBacklog
    /\ \E c \in Requests : inbox' = Append(inbox, c)
    /\ opGen' = opGen + 1
    /\ UNCHANGED <<rows, viewGen, task, src, parked, events>>

\* Leaving without loading anything else.
Leave ==
    /\ viewGen < MaxView
    /\ src.kind # "none"
    /\ viewGen' = viewGen + 1
    /\ opGen' = opGen + 1
    /\ inbox' = Append(inbox, NewCall("shutdown", viewGen, opGen, "csv"))
    /\ UNCHANGED <<rows, task, src, parked, events>>

Receive ==
    /\ events # <<>>
    /\ events' = Tail(events)
    /\ UNCHANGED <<rows, viewGen, opGen, inbox, task, src, parked>>

Next ==
    \/ WorkerNext
    \/ Load
    \/ Request
    \/ Leave
    \/ Receive
    \/ DeleteRow

\* The worker thread and the GUI thread both run their event loops; nothing
\* makes the user ask, or anyone change the file.
Spec ==
    /\ WorkerInit
    /\ [][Next]_workerVars
    /\ WF_workerVars(WorkerNext)
    /\ WF_workerVars(Receive)

-----------------------------------------------------------------------------
TypeOK == WorkerTypeOK

\* A page request that waits for the index (SourceWorker::first .. last) is
\* never left without the slice that will wake it: as long as it is wanted,
\* indexing of the same file is queued behind it.
SliceQueued(view) ==
    \E i \in DOMAIN inbox : inbox[i].op = "slice" /\ inbox[i].view = view

ParkedIsScheduled ==
    parked # NoCall /\ ~IsStale(parked) => SliceQueued(viewGen)

\* Why the slice is there: it is queued when the file is opened, queues itself
\* again until the index ends, and a request only waits on an index that has
\* not ended.  The rest says what the client's discipline guarantees.
Opened == src.open /\ src.view = viewGen /\ task.op # "open"

ParkedWaits ==
    parked # NoCall /\ parked.view = viewGen
        => src.kind = "csv" /\ Opened /\ ~IndexEnded(src)

FileScheduled ==
    Opened /\ src.kind = "csv" /\ ~IndexEnded(src) => SliceQueued(viewGen)

CallsFollowOpen ==
    \A i \in DOMAIN inbox :
        inbox[i].op \in PageOps /\ inbox[i].view = viewGen
            => Opened /\ \A j \in DOMAIN inbox : inbox[j].op # "open"

OpenIsCurrent ==
    /\ \A i \in DOMAIN inbox :
         inbox[i].op = "open" /\ inbox[i].view = viewGen => inbox[i].gen = opGen
    /\ task.op = "open" /\ task.view = viewGen => task.gen = opGen

NothingFromLater ==
    /\ \A i \in DOMAIN inbox : inbox[i].view <= viewGen
    /\ task.view <= viewGen
    /\ src.view <= viewGen
    /\ parked.view <= viewGen

RetiredIsPast ==
    (\E i \in DOMAIN inbox : inbox[i].op = "shutdown") =>
        /\ \A i \in DOMAIN inbox : inbox[i].view < viewGen
        /\ task.view < viewGen /\ src.view < viewGen /\ parked.view < viewGen

\* A request is answered once: the answer is not given again by a later slice,
\* and a request still on its way has no answer yet.
PageEvents == {i \in DOMAIN events : events[i].sig = "pageReady"}

AnsweredOnce ==
    \A i \in PageEvents :
        /\ \A j \in PageEvents :
             events[i].view = events[j].view /\ events[i].gen = events[j].gen => i = j
        /\ parked # NoCall => <<parked.view, parked.gen>> # <<events[i].view, events[i].gen>>

\* Why: a page request is in one place at a time, on the queue, parked or in
\* the signal that answers it, and the next one has a number none of them has.
Asked == {i \in DOMAIN inbox : inbox[i].op \in PageOps}

SameRequest(a, b) == a.view = b.view /\ a.gen = b.gen

AskedOnce ==
    /\ \A i, j \in Asked : SameRequest(inbox[i], inbox[j]) => i = j
    /\ \A i \in Asked : \A j \in PageEvents : ~SameRequest(inbox[i], events[j])
    /\ parked # NoCall => \A i \in Asked : ~SameRequest(inbox[i], parked)

NotFromLater(x) == x.view < viewGen \/ (x.view = viewGen /\ x.gen <= opGen)

NumbersAreNew ==
    /\ \A i \in Asked : NotFromLater(inbox[i])
    /\ \A i \in PageEvents : NotFromLater(events[i])
    /\ parked # NoCall => NotFromLater(parked)

OnceInv == AnsweredOnce /\ AskedOnce /\ NumbersAreNew

ServiceInv ==
    /\ WorkerTypeOK
    /\ ParkedWaits
    /\ FileScheduled
    /\ CallsFollowOpen
    /\ OpenIsCurrent
    /\ NothingFromLater
    /\ RetiredIsPast

\* Everything the two promises rest on.
Inv == ServiceInv /\ OnceInv

\* A request that is not replaced by a newer one is answered, however far the
\* index was and whether or not it fails.
Wanted(gen) ==
    \/ \E i \in DOMAIN inbox : /\ inbox[i].op \in PageOps \union {"sort"}
                               /\ inbox[i].gen = gen /\ ~IsStale(inbox[i])
    \/ task.op = "sort" /\ task.gen = gen /\ ~IsStale(task)
    \/ parked # NoCall /\ parked.gen = gen /\ ~IsStale(parked)

Answered(gen) ==
    \E i \in DOMAIN events : /\ events[i].sig \in {"pageReady", "sortCompleted"}
                             /\ events[i].gen = gen /\ events[i].view = viewGen

EveryRequestAnswered ==
    \A gen \in 2..MaxOp, view \in 1..MaxView :
        (Wanted(gen) /\ viewGen = view)
            ~> (Answered(gen) \/ opGen # gen \/ viewGen # view)

=============================================================================
