--------------------------- MODULE WorkerLifecycle ---------------------------
(***************************************************************************)
(* How the viewer makes, retires and joins its background threads          *)
(* (trackWorker, cancelPending, joinBackgroundWorkers and the destructor   *)
(* in src/ui/data_table_viewer.cpp), and how a query that may run for ever *)
(* is told to stop (InterruptHandle in src/parsers/sqlite_common.h).       *)
(*                                                                         *)
(* A pair is a thread and the worker that lives on it.  A worker deletes   *)
(* itself on its own thread; that makes the GUI thread delete the thread,  *)
(* which waits for it.  The viewer lives in a library the host may unload, *)
(* so nothing may be left when its destructor returns.                     *)
(***************************************************************************)
EXTENDS Integers, Sequences, SequencesExt

CONSTANTS
    MaxPairs,   \* bound: pairs made
    MaxStrays   \* bound: interrupts nobody asked for

ASSUME LifecycleAssumption == MaxPairs \in Nat /\ MaxStrays \in Nat

VARIABLES
    pairs,      \* the pairs made so far
    gui,        \* the viewer's fields and where the GUI thread is, a record
    ledger,     \* m_workers: numbers of pairs, which also give its order
    queue,      \* events queued on the GUI thread
    strays      \* not in the code: stray interrupts so far

vars == <<pairs, gui, ledger, queue, strays>>

-----------------------------------------------------------------------------
Calls == {"parse", "open", "page", "count", "shutdown"}
Step == {"mark", "clear", "close", "attach", "run"}
Outcome == {"none", "ok", "failed", "interrupted"}

\* worker is freed once its destructor has run; linked says that its signals
\* still reach the viewer, and destroyed the thread's deleteLater().  asked and quit are the
\* thread's interruption request and its quit().  open is the connection,
\* handle the InterruptHandle's copy of it, seq its sequence, start the
\* sequence the call under way began with; cut is SQLite's own flag for the
\* statement that is running.  todo is what the call still has to do.
Pair == [kind : {"table", "source", "count"}, load : Nat,
         thread : {"running", "finished", "freed"}, worker : {"alive", "freed"},
         inbox : Seq(Calls \union {"delete"}), asked : BOOLEAN, quit : BOOLEAN,
         linked : BOOLEAN, open : BOOLEAN, handle : BOOLEAN, seq : Nat, start : Nat,
         call : Calls \union {"none"}, todo : Seq(Step), running : BOOLEAN,
         cut : BOOLEAN, retried : BOOLEAN, outcome : Outcome]

NewPair(kind, load, inbox) ==
    [kind |-> kind, load |-> load, thread |-> "running", worker |-> "alive",
     inbox |-> inbox, asked |-> FALSE, quit |-> FALSE, linked |-> TRUE,
     open |-> FALSE, handle |-> FALSE, seq |-> 0, start |-> 0,
     call |-> "none", todo |-> <<>>, running |-> FALSE,
     cut |-> FALSE, retried |-> FALSE, outcome |-> "none"]

\* pc is where the GUI thread is: in its event loop, in cancelPending() or in
\* ~BackgroundThread(), in one of the phases of joinBackgroundWorkers(), or at
\* the end.  at is the pair it is about; after is what called cancelPending().
\* source and count are 0 when the code's pointers are null.
Gui == [pc : {"idle", "cancel", "thread", "check", "touch", "gone", "crashed"},
        at : Nat, after : {"none", "table", "sqlite", "destroy"},
        gen : Nat, source : Nat, count : Nat, countRequested : BOOLEAN]

\* What is queued on the GUI thread: signals of the load numbered n, or the
\* deletion of the thread of pair n (in Qt two events, one posting the other).
GuiEvent == [what : {"parse", "open", "page", "count", "delete"}, n : Nat,
             outcome : Outcome]

Note(what, n, outcome) == [what |-> what, n |-> n, outcome |-> outcome]

Init ==
    /\ pairs = <<>>
    /\ gui = [pc |-> "idle", at |-> 0, after |-> "none", gen |-> 0,
              source |-> 0, count |-> 0, countRequested |-> FALSE]
    /\ ledger = {}
    /\ queue = <<>>
    /\ strays = 0

IsViewStale(p) == p.load # gui.gen

-----------------------------------------------------------------------------
(* A background thread.                                                    *)

\* Mutant: the connection is closed before the handle forgets it.
StepsClosingFirst(call) ==
    CASE call = "open" -> <<"attach">>
      [] call = "count" -> <<"attach", "mark", "run">>
      [] call = "page" -> <<"mark", "run">>
      [] call = "shutdown" -> <<"close", "clear">>
      [] OTHER -> <<>>

\* What a call does with the connection, in order.  The short queries of open()
\* are part of attaching: when one is interrupted or fails, open() does.  The
\* connection that open() and count() would replace is closed by shutdown()'s
\* code.
Steps(call) ==
    CASE call = "open" -> <<"attach">>
      [] call = "count" -> <<"attach", "mark", "run">>
      [] call = "page" -> <<"mark", "run">>
      [] call = "shutdown" -> <<"clear", "close">>
      [] OTHER -> <<>>

\* After a crash nothing runs.
Runs(i) ==
    pairs[i].thread = "running" /\ pairs[i].worker = "alive" /\ gui.pc # "crashed"

\* Mutant: doParse() returns without deleting its worker when it was told to
\* stop before it began.
NotParsedForgotten(p) == [p EXCEPT !.inbox = Tail(@)]

NotParsed(p) == [p EXCEPT !.inbox = Append(Tail(@), "delete")]

\* A call is taken from the queue; stale ones return at once.
TakeCall(i) ==
    /\ Runs(i)
    /\ LET p == pairs[i]
           c == Head(p.inbox)
       IN  /\ p.call = "none"
           /\ p.inbox # <<>>
           /\ c # "delete"
           /\ pairs' = [pairs EXCEPT ![i] =
                IF c = "parse" /\ p.asked THEN NotParsed(p)
                ELSE IF c \notin {"parse", "shutdown"} /\ IsViewStale(p)
                THEN [p EXCEPT !.inbox = Tail(@)]
                ELSE [p EXCEPT !.inbox = Tail(@), !.call = c, !.todo = Steps(c),
                               !.outcome = "ok"]]
    /\ UNCHANGED <<gui, ledger, queue, strays>>

\* A step other than running the statement; the database may not open.
Advance(i) ==
    /\ Runs(i)
    /\ LET p == pairs[i]
           q == [p EXCEPT !.todo = Tail(@)]
       IN  /\ p.todo # <<>>
           /\ ~p.running
           /\ \/ /\ Head(p.todo) = "mark"
                 /\ pairs' = [pairs EXCEPT ![i] = [q EXCEPT !.start = p.seq]]
              \/ /\ Head(p.todo) = "clear"
                 /\ pairs' = [pairs EXCEPT ![i] = [q EXCEPT !.handle = FALSE]]
              \/ /\ Head(p.todo) = "close"
                 /\ pairs' = [pairs EXCEPT ![i] = [q EXCEPT !.open = FALSE]]
              \/ /\ Head(p.todo) = "attach"
                 /\ \/ pairs' = [pairs EXCEPT ![i] = [q EXCEPT !.open = TRUE, !.handle = TRUE]]
                    \/ pairs' = [pairs EXCEPT ![i] =
                                    [p EXCEPT !.todo = <<>>, !.outcome = "failed"]]
              \/ /\ Head(p.todo) = "run"
                 /\ pairs' = [pairs EXCEPT ![i] = [p EXCEPT !.running = TRUE, !.cut = FALSE]]
    /\ UNCHANGED <<gui, ledger, queue, strays>>

\* Mutant: the progress handler does not look at the generation.
ToldToStopBySequence(p) == p.cut \/ p.seq > p.start

\* An interrupt that found the statement running, or the progress handler.
ToldToStop(p) == p.cut \/ IsViewStale(p) \/ p.seq > p.start

\* Mutant: whoever was interrupted gives up.
MayRetryNever(p) == FALSE

\* Nobody asked for the interrupt: once more.
MayRetry(p) == ~p.retried /\ ~IsViewStale(p) /\ p.seq = p.start

\* The statement ends early.
StopStatement(i) ==
    /\ Runs(i)
    /\ pairs[i].running
    /\ ToldToStop(pairs[i])
    /\ pairs' = [pairs EXCEPT ![i] =
         IF MayRetry(@) THEN [@ EXCEPT !.retried = TRUE, !.cut = FALSE]
         ELSE [@ EXCEPT !.running = FALSE, !.cut = FALSE, !.outcome = "interrupted",
                        !.todo = <<>>]]
    /\ UNCHANGED <<gui, ledger, queue, strays>>

\* The statement ends by itself, which may take for ever.
FinishStatement(i) ==
    /\ Runs(i)
    /\ pairs[i].running
    /\ pairs' = [pairs EXCEPT ![i].running = FALSE, ![i].cut = FALSE, ![i].todo = <<>>]
    /\ UNCHANGED <<gui, ledger, queue, strays>>

\* The call returns: it says so unless it is disconnected or stale or, for a
\* parse, the thread was asked to stop; a parse and a shutdown delete the worker.
Return(i) ==
    /\ Runs(i)
    /\ LET p == pairs[i]
           silent == \/ p.call = "shutdown" \/ ~p.linked
                     \/ p.call = "parse" /\ p.asked
                     \/ p.call # "parse" /\ IsViewStale(p)
       IN  /\ p.call # "none"
           /\ p.todo = <<>>
           /\ ~p.running
           /\ queue' = IF silent THEN queue ELSE Append(queue, Note(p.call, p.load, p.outcome))
           /\ pairs' = [pairs EXCEPT ![i] =
                [p EXCEPT !.call = "none", !.outcome = "none", !.start = 0, !.retried = FALSE,
                          !.inbox = IF p.call \in {"parse", "shutdown"}
                                    THEN Append(@, "delete") ELSE @]]
    /\ UNCHANGED <<gui, ledger, strays>>

\* The worker's destructor, after which its destroyed signal may be on its way.
Freed(p) ==
    [p EXCEPT !.worker = "freed", !.handle = FALSE, !.open = FALSE, !.seq = 0,
              !.inbox = <<>>]

Destroyed(i) ==
    IF pairs[i].linked THEN Append(queue, Note("delete", i, "none")) ELSE queue

DeleteWorker(i) ==
    /\ Runs(i)
    /\ pairs[i].call = "none"
    /\ pairs[i].inbox # <<>>
    /\ Head(pairs[i].inbox) = "delete"
    /\ pairs' = [pairs EXCEPT ![i] = Freed(@)]
    /\ queue' = Destroyed(i)
    /\ UNCHANGED <<gui, ledger, strays>>

\* The event loop is left between two calls, whatever is still queued, but
\* never before doParse(), which runs before the loop.  A worker that is to be
\* deleted is deleted then.
Finish(i) ==
    /\ pairs[i].thread = "running" /\ gui.pc # "crashed"
    /\ pairs[i].quit
    /\ LET p == pairs[i]
           dying == Contains(p.inbox, "delete")
       IN  /\ p.call = "none"
           /\ ~Contains(p.inbox, "parse")
           /\ pairs' = [pairs EXCEPT ![i] =
                        [(IF dying THEN Freed(p) ELSE p) EXCEPT !.thread = "finished"]]
           /\ queue' = IF dying THEN Destroyed(i) ELSE queue
    /\ UNCHANGED <<gui, ledger, strays>>

ThreadStep(i) ==
    \/ TakeCall(i)
    \/ Advance(i)
    \/ StopStatement(i)
    \/ Return(i)
    \/ DeleteWorker(i)
    \/ Finish(i)

\* An interrupt that did not come through the handle.
StrayInterrupt(i) ==
    /\ strays < MaxStrays
    /\ Runs(i)
    /\ pairs[i].running
    /\ ~ToldToStop(pairs[i])
    /\ pairs' = [pairs EXCEPT ![i].cut = TRUE]
    /\ strays' = strays + 1
    /\ UNCHANGED <<gui, ledger, queue>>

-----------------------------------------------------------------------------
(* The GUI thread.                                                         *)

Tracked(i) == i \in ledger /\ pairs[i].thread # "freed"

\* cancelPending() begins: interruption requested, generation moved on.
BeginCancel(after) ==
    /\ gui' = [gui EXCEPT !.pc = "cancel", !.after = after, !.gen = @ + 1]
    /\ pairs' = [i \in DOMAIN pairs |->
                    IF Tracked(i) THEN [pairs[i] EXCEPT !.asked = TRUE] ELSE pairs[i]]

Room(after) == Len(pairs) + (IF after = "sqlite" THEN 2 ELSE 1) <= MaxPairs

\* A table or a list of tables.  A file makes a source without a COUNT: what its
\* pair does, that of a table does too.
Load ==
    /\ gui.pc = "idle"
    /\ \E after \in {"table", "sqlite"} : Room(after) /\ BeginCancel(after)
    /\ UNCHANGED <<ledger, queue, strays>>

Destroy ==
    /\ gui.pc = "idle"
    /\ BeginCancel("destroy")
    /\ UNCHANGED <<ledger, queue, strays>>

\* InterruptHandle::interrupt(), all of it under the mutex that setDb() and
\* clear() take: the statement running on the connection, if any, is cut.
Interrupted(p) ==
    [p EXCEPT !.seq = @ + 1, !.cut = @ \/ (p.handle /\ p.running)]

Retired(i) ==
    IF i \in {gui.source, gui.count}
    THEN [Interrupted(pairs[i]) EXCEPT !.inbox = Append(@, "shutdown")]
    ELSE pairs[i]

\* Mutant: a pair is dropped as soon as its worker is gone.
ReapedEarly == {i \in ledger : pairs[i].worker # "freed"}

\* reapWorkers().
Reaped == {i \in ledger : ~(pairs[i].worker = "freed" /\ pairs[i].thread = "freed")}

\* The rest of cancelPending(): the workers of this load are interrupted and told
\* to shut down.  Then its caller goes on.
EndCancel ==
    /\ gui.pc = "cancel"
    /\ LET n == Len(pairs)
           retired == [i \in DOMAIN pairs |-> Retired(i)]
           idle == [gui EXCEPT !.pc = "idle", !.after = "none", !.countRequested = FALSE,
                               !.source = 0, !.count = 0]
       IN  \/ /\ gui.after = "none"
              /\ gui' = idle
              /\ pairs' = retired
              /\ ledger' = Reaped
           \/ /\ gui.after = "table"
              /\ gui' = idle
              /\ pairs' = Append(retired, NewPair("table", gui.gen, <<"parse">>))
              /\ ledger' = Reaped \union {n + 1}
           \/ /\ gui.after = "sqlite"
              /\ gui' = [idle EXCEPT !.source = n + 1, !.count = n + 2]
              /\ pairs' = retired \o <<NewPair("source", gui.gen, <<"open">>),
                                       NewPair("count", gui.gen, <<>>)>>
              /\ ledger' = Reaped \union {n + 1, n + 2}
           \/ /\ gui.after = "destroy"
              /\ gui' = [idle EXCEPT !.pc = "check", !.after = "destroy"]
              /\ pairs' = retired
              /\ ledger' = Reaped
    /\ UNCHANGED <<queue, strays>>

PostTo(i, call) == pairs' = [pairs EXCEPT ![i].inbox = Append(@, call)]

\* A signal of a worker, ignored when it is not of this load.
OnSignal ==
    /\ gui.pc = "idle"
    /\ queue # <<>>
    /\ Head(queue).what # "delete"
    /\ queue' = Tail(queue)
    /\ LET e == Head(queue)
       IN  \/ /\ \/ e.n # gui.gen
                 \/ e.what = "count"
                 \/ e.what = "page" /\ gui.countRequested
                 \/ e.what = "page" /\ e.outcome # "ok"
                 \/ e.what = "parse"
              /\ UNCHANGED <<gui, pairs>>
           \/ /\ e.n = gui.gen /\ e.what = "parse"
              /\ Room("sqlite")
              /\ BeginCancel("sqlite")
           \/ /\ e.n = gui.gen /\ e.what = "open" /\ e.outcome # "ok"
              /\ BeginCancel("none")
           \/ /\ e.n = gui.gen /\ e.what = "open" /\ e.outcome = "ok"
              /\ PostTo(gui.source, "page")
              /\ UNCHANGED gui
           \/ /\ e.n = gui.gen /\ e.what = "page" /\ e.outcome = "ok"
              /\ ~gui.countRequested
              /\ PostTo(gui.count, "count")
              /\ gui' = [gui EXCEPT !.countRequested = TRUE]
    /\ UNCHANGED <<ledger, strays>>

\* The thread's deleteLater(), called when its worker was destroyed, makes the
\* GUI thread stand still in ~BackgroundThread() until the thread ends.
DeleteThread ==
    /\ gui.pc = "idle"
    /\ queue # <<>>
    /\ Head(queue).what = "delete"
    /\ queue' = Tail(queue)
    /\ gui' = [gui EXCEPT !.pc = "thread", !.at = Head(queue).n]
    /\ pairs' = [pairs EXCEPT ![Head(queue).n].quit = TRUE]
    /\ UNCHANGED <<ledger, strays>>

ThreadDeleted ==
    /\ gui.pc = "thread"
    /\ pairs[gui.at].thread = "finished"
    /\ pairs' = [pairs EXCEPT ![gui.at].thread = "freed"]
    /\ gui' = [gui EXCEPT !.pc = "idle", !.at = 0]
    /\ UNCHANGED <<ledger, queue, strays>>

-----------------------------------------------------------------------------
(* joinBackgroundWorkers(), called by the destructor.                      *)

\* The loop over the ledger has come to i.
IsNext(i) ==
    /\ i \in ledger /\ i > gui.at
    /\ \A j \in ledger : j > gui.at => i <= j

StopThread(p) ==
    IF p.thread = "freed" THEN p ELSE [p EXCEPT !.asked = TRUE, !.quit = TRUE]

\* Phase 1: is there a worker?  If not, only its thread is told to quit; if
\* so, its own thread may delete it right after.
CheckWorker ==
    /\ gui.pc = "check"
    /\ \E i \in ledger :
         /\ IsNext(i)
         /\ \/ /\ pairs[i].worker = "alive"
               /\ gui' = [gui EXCEPT !.pc = "touch", !.at = i]
               /\ UNCHANGED pairs
            \/ /\ pairs[i].worker = "freed"
               /\ gui' = [gui EXCEPT !.at = i]
               /\ pairs' = [pairs EXCEPT ![i] = StopThread(@)]
    /\ UNCHANGED <<ledger, queue, strays>>

\* It is disconnected and interrupted, which is undefined when it is gone, and
\* its thread told to quit.
TouchWorker ==
    /\ gui.pc = "touch"
    /\ \/ /\ pairs[gui.at].worker = "alive"
          /\ pairs' = [pairs EXCEPT ![gui.at] =
                StopThread([(IF @.kind = "table" THEN @ ELSE Interrupted(@))
                               EXCEPT !.linked = FALSE])]
          /\ gui' = [gui EXCEPT !.pc = "check"]
       \/ /\ pairs[gui.at].worker = "freed"
          /\ gui' = [gui EXCEPT !.pc = "crashed"]
          /\ UNCHANGED pairs
    /\ UNCHANGED <<ledger, queue, strays>>

\* Phase 2 waits for one thread after the other, that is for all of them.  Then
\* nothing else runs, and phase 3 deletes what is left of each pair with what is
\* queued for it.  The viewer's own signals go with the viewer; a deletion that
\* nobody has waited for would stay.
Reclaim ==
    /\ gui.pc = "check"
    /\ \A i \in ledger : i <= gui.at /\ pairs[i].thread # "running"
    /\ pairs' = [i \in DOMAIN pairs |->
                    IF i \in ledger THEN [Freed(pairs[i]) EXCEPT !.thread = "freed"]
                                    ELSE pairs[i]]
    /\ queue' = IF \E k \in DOMAIN queue : queue[k].what = "delete" /\ queue[k].n \notin ledger
                THEN queue ELSE <<>>
    /\ ledger' = {}
    /\ gui' = [gui EXCEPT !.pc = "gone"]
    /\ UNCHANGED strays

GuiStep ==
    \/ EndCancel
    \/ OnSignal
    \/ DeleteThread
    \/ ThreadDeleted
    \/ CheckWorker
    \/ TouchWorker
    \/ Reclaim

Next ==
    \/ \E i \in DOMAIN pairs : ThreadStep(i) \/ FinishStatement(i) \/ StrayInterrupt(i)
    \/ GuiStep
    \/ Load
    \/ Destroy

\* Every thread goes on when it can and SQLite calls the progress handler of a
\* statement that goes on.  A statement may run for ever, and nothing makes the
\* user load or close anything.
Fairness ==
    /\ \A i \in 1..MaxPairs : WF_vars(i \in DOMAIN pairs /\ ThreadStep(i))
    /\ WF_vars(GuiStep)

Spec == Init /\ [][Next]_vars /\ Fairness

-----------------------------------------------------------------------------
\* The fields keep their types.
TypeOK ==
    /\ pairs \in Seq(Pair)
    /\ gui \in Gui
    /\ ledger \subseteq DOMAIN pairs
    /\ queue \in Seq(GuiEvent)
    /\ strays \in Nat

\* interrupt() never reaches a connection that is closed: the handle holds one
\* only while it is open, through every open, failure, shutdown and deletion.
HandleIsOpen == \A i \in DOMAIN pairs : pairs[i].handle => pairs[i].open

ConnectionInv == TypeOK /\ HandleIsOpen

\* When the destructor returns no thread, worker or connection is left that was
\* ever made (the comment in ~DataTableViewer): what the ledger has dropped by
\* then is gone as well, and nothing is queued for an object that is not there.
NothingOutlives ==
    gui.pc = "gone" =>
        /\ \A i \in DOMAIN pairs :
             pairs[i].thread = "freed" /\ pairs[i].worker = "freed" /\ ~pairs[i].open
        /\ queue = <<>>

\* One interrupt nobody asked for costs the load on display neither a page nor
\* its count (executeWithInterruptRetry, and the retry in CountWorker::count).
StrayIsHarmless ==
    \A k \in DOMAIN queue :
        queue[k].what \in {"page", "count"} => queue[k].outcome # "interrupted"

\* Destruction ends, whatever the threads are at when it begins: no query is
\* waited for that nobody has told to stop.
Destroying == gui.after = "destroy"

DestructorEnds == Destroying ~> gui.pc \in {"gone", "crashed"}

\* Pairs that are retired, by another load or by the destructor, are freed in the
\* end: there is always a moment ahead when none is left, and old threads do not
\* pile up while the user goes from file to file.
RetiredIsFreed ==
    []<>(\/ gui.pc = "crashed"
         \/ \A i \in DOMAIN pairs : IsViewStale(pairs[i]) => pairs[i].thread = "freed")

\* Destroying a viewer while its workers run or start is clean (the test quoted
\* in the findings): the worker the destructor disconnects still exists.
TouchedWorkerExists ==
    gui.pc = "touch" => pairs[gui.at].worker = "alive"

=============================================================================
