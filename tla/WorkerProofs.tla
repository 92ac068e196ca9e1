---------------------------- MODULE WorkerProofs ----------------------------
(***************************************************************************)
(* The source worker for every table, page size and number of requests:    *)
(* its types, that a page request waiting for the index is never forgotten *)
(* (ParkedIsScheduled), and that none is answered twice (AnsweredOnce),    *)
(* through the inductive invariant Inv.                                    *)
(***************************************************************************)
EXTENDS WorkerClient, SourceProofs

-----------------------------------------------------------------------------
(* TypeOK is inductive by itself.                                          *)

\* The client loads a file.
LEMMA LoadType == WorkerTypeOK /\ Load => WorkerTypeOK'
<1> SUFFICES ASSUME WorkerTypeOK, Load PROVE WorkerTypeOK'
  OBVIOUS
<1>1. PICK kind \in Kinds : NewWorker(viewGen + 1, 1, kind)
  BY DEF Load
<1>2. /\ viewGen + 1 \in Nat /\ kind \in Kind
      /\ rows' \in SUBSET Row /\ UNCHANGED events
  BY ClientAssumption DEF Load, WorkerTypeOK
<1> QED
  BY <1>1, <1>2, NewWorkerType

\* The client's calls are page calls or sorts of the next operation.
LEMMA RequestsType ==
    ASSUME WorkerTypeOK, NEW c \in Requests
    PROVE  /\ c \in Call /\ c.view = viewGen /\ c.gen = opGen + 1
           /\ c.op \in PageOps \union {"sort"}
<1> DEFINE call(op) == NewCall(op, viewGen, opGen + 1, "csv")
<1>1. viewGen \in Nat /\ opGen + 1 \in Nat
  BY DEF WorkerTypeOK
<1>2. ASSUME NEW op \in PageOps \union {"sort"}
      PROVE  /\ call(op) \in Call /\ call(op).view = viewGen
             /\ call(op).gen = opGen + 1 /\ call(op).op = op
  <2>1. op \in Ops /\ "csv" \in Kind
    BY DEF Ops, Kind
  <2>2. call(op) \in Call
    BY <1>1, <2>1, NewCallType
  <2> QED
    BY <2>2 DEF NewCall
<1>3. Cardinality(rows) \in Total
  BY RowsFinite DEF Total
<1>4. FileTokens \subseteq Token
  <2>1. \A n \in 0..Cardinality(rows) : n * PageSize \in Nat
    BY RowsFinite, PageSizeAssumption
  <2> QED
    BY <2>1, FreshToken DEF FileTokens, Token, NoToken
<1> HIDE DEF call
<1>5. "first" \in PageOps /\ "last" \in PageOps /\ "next" \in PageOps /\ "prev" \in PageOps
  BY DEF PageOps
<1>6. CASE c = call("first")
  BY <1>2, <1>5, <1>6
<1>7. CASE c = [call("last") EXCEPT !.total = Cardinality(rows)]
  BY <1>2, <1>3, <1>5, <1>7 DEF Call
<1>8. CASE \E op \in {"next", "prev"}, token \in FileTokens : c = [call(op) EXCEPT !.token = token]
  BY <1>2, <1>4, <1>5, <1>8 DEF Call
<1>9. CASE \E order \in SortState : c = [call("sort") EXCEPT !.sort = order]
  BY <1>2, <1>9 DEF Call, Order
<1> QED
  <2> DEFINE turn(op, token) == [call(op) EXCEPT !.token = token]
  <2>1. Requests = ({call("first"), [call("last") EXCEPT !.total = Cardinality(rows)]}
          \union {turn(op, token) : op \in {"next", "prev"}, token \in FileTokens})
          \union {[call("sort") EXCEPT !.sort = order] : order \in SortState}
    BY DEF Requests, call
  <2> HIDE DEF turn
  <2>2. \/ c = call("first") \/ c = [call("last") EXCEPT !.total = Cardinality(rows)]
        \/ \E op \in {"next", "prev"}, token \in FileTokens : c = turn(op, token)
        \/ \E order \in SortState : c = [call("sort") EXCEPT !.sort = order]
    BY <2>1
  <2> QED
    BY <2>2, <1>6, <1>7, <1>8, <1>9 DEF turn

\* The client asks for a page or a sort.
LEMMA RequestType == WorkerTypeOK /\ Request => WorkerTypeOK'
<1> SUFFICES ASSUME WorkerTypeOK, Request PROVE WorkerTypeOK'
  OBVIOUS
<1>1. PICK c \in Requests : inbox' = Append(inbox, c)
  BY DEF Request
<1>2. c \in Call
  BY <1>1, RequestsType
<1>3. inbox' \in Seq(Call) /\ opGen' \in Nat
  BY <1>1, <1>2, QueueAppend DEF WorkerTypeOK, Request
<1> QED
  BY <1>3 DEF WorkerTypeOK, Request, IndexEnded, Broken

\* The client leaves.
LEMMA LeaveType == WorkerTypeOK /\ Leave => WorkerTypeOK'
<1> SUFFICES ASSUME WorkerTypeOK, Leave PROVE WorkerTypeOK'
  OBVIOUS
<1>1. NewCall("shutdown", viewGen, opGen, "csv") \in Call
  BY NewCallType DEF WorkerTypeOK, Ops, Kind
<1>2. inbox' \in Seq(Call) /\ viewGen' \in Nat /\ opGen' \in Nat
  BY <1>1, QueueAppend DEF WorkerTypeOK, Leave
<1> QED
  BY <1>2 DEF WorkerTypeOK, Leave, IndexEnded, Broken

\* The client reads a signal.
LEMMA ReceiveType == WorkerTypeOK /\ Receive => WorkerTypeOK'
<1> SUFFICES ASSUME WorkerTypeOK, Receive PROVE WorkerTypeOK'
  OBVIOUS
<1>1. events' \in Seq(Event)
  BY QueueTail DEF WorkerTypeOK, Receive
<1> QED
  BY <1>1 DEF WorkerTypeOK, Receive, IndexEnded, Broken

\* WorkerTypeOK is inductive.
LEMMA TypesHold == Spec => []WorkerTypeOK
<1>1. WorkerInit => WorkerTypeOK
  BY InitType
<1>2. WorkerTypeOK /\ [Next]_workerVars => WorkerTypeOK'
  <2>1. WorkerTypeOK /\ UNCHANGED workerVars => WorkerTypeOK'
    BY DEF WorkerTypeOK, workerVars, IndexEnded, Broken
  <2> QED
    BY <2>1, WorkerType, LoadType, RequestType, LeaveType, ReceiveType, DeleteRowType DEF Next
<1> QED
  BY <1>1, <1>2, PTL DEF Spec

\* The worker's queues, source and parked request keep their types whatever the
\* client asks and whatever happens to the file.
THEOREM TypeCorrect == Spec => []TypeOK
<1>1. WorkerTypeOK => TypeOK
  BY DEF TypeOK
<1> QED
  BY <1>1, TypesHold, PTL

-----------------------------------------------------------------------------
(* ServiceInv is inductive: a waiting request, the slice that will wake it. *)

\* The generations a step compares are numbers.
LEMMA Generations ==
    ASSUME WorkerTypeOK
    PROVE  /\ inbox \in Seq(Call)
           /\ \A i \in DOMAIN inbox : inbox[i] \in Call /\ inbox[i].view \in Nat
           /\ viewGen \in Nat /\ opGen \in Nat
           /\ task.view \in Nat /\ src.view \in Nat /\ parked.view \in Nat
<1>1. inbox \in Seq(Call) /\ \A i \in DOMAIN inbox : inbox[i] \in Call
  BY DEF WorkerTypeOK
<1>2. \A i \in DOMAIN inbox : inbox[i].view \in Nat
  BY <1>1 DEF Call
<1> QED
  BY <1>1, <1>2 DEF WorkerTypeOK, Call, Source

\* A request waits only on an index that has not ended.
LEMMA PendingNotEnded ==
    ASSUME NEW s, NEW start, Readiness(s, start) = "Pending", s.open
    PROVE  ~IndexEnded(s)
BY DEF Readiness, IndexEnded, Broken

\* Nothing is loaded, nothing waits.
LEMMA InitInv == WorkerInit => ServiceInv
<1> SUFFICES ASSUME WorkerInit PROVE ServiceInv
  OBVIOUS
<1>1. WorkerTypeOK
  BY InitType
<1>2. NoSource.view = 0 /\ ~NoSource.open
  BY DEF NoSource, EmptySource
<1>3. DOMAIN inbox = {}
  BY DEF WorkerInit
<1> QED
  BY <1>1, <1>2, <1>3, NoCallType
  DEF WorkerInit, ServiceInv, ParkedWaits, FileScheduled, Opened, CallsFollowOpen, OpenIsCurrent,
      NothingFromLater, RetiredIsPast

\* open() drops what waited for the file before, and is alone with its file.
LEMMA BeginTaskInv == ServiceInv /\ BeginTask => ServiceInv'
<1> SUFFICES ASSUME ServiceInv, BeginTask PROVE ServiceInv'
  OBVIOUS
<1> DEFINE c == Head(inbox)
<1>1. WorkerTypeOK /\ WorkerTypeOK'
  BY BeginTaskType DEF ServiceInv
<1>2. /\ inbox \in Seq(Call) /\ inbox # <<>> /\ inbox' = Tail(inbox) /\ task = NoCall
      /\ c.op \in {"open", "sort"}
      /\ UNCHANGED <<rows, viewGen, opGen, src, events>>
      /\ \/ UNCHANGED <<task, parked>>
         \/ /\ ~IsStale(c) /\ task' = c
            /\ parked' = IF c.op = "open" THEN NoCall ELSE parked
  BY <1>1 DEF BeginTask, TakeCall, WorkerTypeOK
<1>3. /\ c = inbox[1] /\ 1 \in DOMAIN inbox
      /\ \A i \in DOMAIN inbox' : i + 1 \in DOMAIN inbox /\ inbox'[i] = inbox[i + 1]
      /\ \A i \in DOMAIN inbox : i = 1 \/ (i - 1 \in DOMAIN inbox' /\ inbox'[i - 1] = inbox[i])
  BY <1>2, QueueTail
<1>4. Opened' => Opened
  BY <1>2, NoCallType DEF Opened
<1>5. Opened /\ c.op # "open" => Opened'
  BY <1>2 DEF Opened
<1>6. SliceQueued(viewGen) => SliceQueued(viewGen)'
  BY <1>2, <1>3 DEF SliceQueued
<1>7. ParkedWaits'
  <2>1. CASE UNCHANGED <<task, parked>>
    BY <1>2, <2>1 DEF ServiceInv, ParkedWaits, Opened, IndexEnded, Broken
  <2>2. CASE c.op = "open" /\ parked' = NoCall
    BY <2>2 DEF ParkedWaits
  <2>3. CASE c.op = "sort" /\ parked' = parked
    BY <1>2, <1>5, <2>3 DEF ServiceInv, ParkedWaits, IndexEnded, Broken
  <2> QED
    BY <1>2, <2>1, <2>2, <2>3
<1>8. FileScheduled'
  BY <1>2, <1>4, <1>6 DEF ServiceInv, FileScheduled, IndexEnded, Broken
<1>9. CallsFollowOpen'
  <2> SUFFICES ASSUME NEW i \in DOMAIN inbox', inbox'[i].op \in PageOps, inbox'[i].view = viewGen
               PROVE  Opened' /\ \A j \in DOMAIN inbox' : inbox'[j].op # "open"
    BY <1>2 DEF CallsFollowOpen
  <2>1. Opened /\ \A j \in DOMAIN inbox : inbox[j].op # "open"
    BY <1>3 DEF ServiceInv, CallsFollowOpen
  <2> QED
    BY <1>3, <1>5, <2>1
<1>10. OpenIsCurrent'
  <2>1. \A i \in DOMAIN inbox' :
          inbox'[i].op = "open" /\ inbox'[i].view = viewGen => inbox'[i].gen = opGen
    BY <1>3 DEF ServiceInv, OpenIsCurrent
  <2>2. task'.op = "open" /\ task'.view = viewGen => task'.gen = opGen
    BY <1>2, <1>3 DEF ServiceInv, OpenIsCurrent
  <2> QED
    BY <1>2, <2>1, <2>2 DEF OpenIsCurrent
<1>11. NothingFromLater'
  <2>1. task'.view <= viewGen /\ parked'.view <= viewGen
    BY <1>1, <1>2, <1>3, NoCallType, Generations DEF ServiceInv, NothingFromLater
  <2> QED
    BY <1>2, <1>3, <2>1 DEF ServiceInv, NothingFromLater
<1>12. RetiredIsPast'
  <2> SUFFICES ASSUME NEW i \in DOMAIN inbox', inbox'[i].op = "shutdown"
               PROVE  /\ \A j \in DOMAIN inbox' : inbox'[j].view < viewGen
                      /\ task'.view < viewGen /\ src.view < viewGen /\ parked'.view < viewGen
    BY <1>2 DEF RetiredIsPast
  <2>1. /\ \A j \in DOMAIN inbox : inbox[j].view < viewGen
        /\ task.view < viewGen /\ src.view < viewGen /\ parked.view < viewGen
    BY <1>3 DEF ServiceInv, RetiredIsPast
  <2>2. task'.view < viewGen /\ parked'.view < viewGen
    BY <1>2, <1>3, <2>1
  <2> QED
    BY <1>3, <2>1, <2>2
<1> QED
  BY <1>1, <1>7, <1>8, <1>9, <1>10, <1>11, <1>12 DEF ServiceInv

\* The file just opened gets its first slice, unless it is indexed already.
LEMMA FinishOpenInv == ServiceInv /\ FinishOpen => ServiceInv'
<1> SUFFICES ASSUME ServiceInv, FinishOpen PROVE ServiceInv'
  OBVIOUS
<1> DEFINE slice == NewCall("slice", task.view, 0, "csv")
<1>1. WorkerTypeOK /\ WorkerTypeOK'
  BY FinishOpenType DEF ServiceInv
<1>2. PICK s \in OpenOutcomes(task) :
         /\ src' = s
         /\ IF IsStale(task) THEN UNCHANGED <<events, inbox>> ELSE OpenCompleted(task, s)
  BY DEF FinishOpen
<1>3. /\ task.op = "open" /\ task' = NoCall
      /\ UNCHANGED <<rows, viewGen, opGen, parked>>
  BY DEF FinishOpen
<1>4. s.kind = task.kind /\ s.view = task.view
  BY <1>1, <1>2, OpenOutcomesType DEF WorkerTypeOK
<1>5. slice \in Call /\ slice.op = "slice" /\ slice.view = task.view
  <2>1. slice \in Call
    BY <1>1, Generations, NewCallType DEF Ops, Kind
  <2> QED
    BY <2>1 DEF NewCall
<1>6. /\ inbox \in Seq(Call)
      /\ inbox' = inbox \/ inbox' = Append(inbox, slice)
  BY <1>1, <1>2 DEF WorkerTypeOK, OpenCompleted
<1> HIDE DEF slice
<1>7. /\ \A i \in DOMAIN inbox : i \in DOMAIN inbox' /\ inbox'[i] = inbox[i]
      /\ \A i \in DOMAIN inbox' : (i \in DOMAIN inbox /\ inbox'[i] = inbox[i]) \/ inbox'[i] = slice
  BY <1>5, <1>6, QueueAppend
<1>8. ~Opened
  BY <1>3 DEF Opened
<1>9. ParkedWaits'
  BY <1>3, <1>8 DEF ServiceInv, ParkedWaits
<1>10. FileScheduled'
  <2> SUFFICES ASSUME s.open, s.view = viewGen, s.kind = "csv", ~IndexEnded(s)
               PROVE  \E i \in DOMAIN inbox' : inbox'[i].op = "slice" /\ inbox'[i].view = viewGen
    BY <1>2, <1>3 DEF FileScheduled, Opened, SliceQueued
  <2>1. ~IsStale(task)
    BY <1>3, <1>4 DEF ServiceInv, OpenIsCurrent, IsStale
  <2>2. inbox' = Append(inbox, slice)
    BY <1>2, <1>4, <2>1 DEF OpenCompleted, IndexEnded, slice
  <2>3. \E i \in DOMAIN inbox' : inbox'[i] = slice
    BY <1>5, <1>6, <2>2, QueueAppend
  <2> QED
    BY <1>4, <1>5, <2>3
<1>11. CallsFollowOpen'
  <2>1. \A i \in DOMAIN inbox : inbox[i].op \in PageOps => inbox[i].view # viewGen
    BY <1>8 DEF ServiceInv, CallsFollowOpen
  <2>2. "slice" \notin PageOps
    BY DEF PageOps
  <2> QED
    BY <1>3, <1>5, <1>7, <2>1, <2>2 DEF CallsFollowOpen
<1>12. OpenIsCurrent'
  BY <1>3, <1>5, <1>7, NoCallType DEF ServiceInv, OpenIsCurrent
<1>13. NothingFromLater'
  BY <1>1, <1>2, <1>3, <1>4, <1>5, <1>7, NoCallType, Generations DEF ServiceInv, NothingFromLater
<1>14. RetiredIsPast'
  <2> SUFFICES ASSUME NEW i \in DOMAIN inbox', inbox'[i].op = "shutdown"
               PROVE  /\ \A j \in DOMAIN inbox' : inbox'[j].view < viewGen
                      /\ task'.view < viewGen /\ src'.view < viewGen /\ parked'.view < viewGen
    BY <1>3 DEF RetiredIsPast
  <2>1. /\ \A j \in DOMAIN inbox : inbox[j].view < viewGen
        /\ task.view < viewGen /\ src.view < viewGen /\ parked.view < viewGen
    BY <1>5, <1>7 DEF ServiceInv, RetiredIsPast
  <2>2. 0 < viewGen
    BY <1>1, <2>1, Generations
  <2> QED
    BY <1>2, <1>3, <1>4, <1>5, <1>7, <2>1, <2>2, NoCallType
<1> QED
  BY <1>1, <1>9, <1>10, <1>11, <1>12, <1>13, <1>14 DEF ServiceInv

\* A sort changes the order of the rows and nothing the invariant speaks of.
LEMMA FinishSortInv == ServiceInv /\ FinishSort => ServiceInv'
<1> SUFFICES ASSUME ServiceInv, FinishSort PROVE ServiceInv'
  OBVIOUS
<1>1. WorkerTypeOK /\ WorkerTypeOK'
  BY FinishSortType DEF ServiceInv
<1>2. /\ task.op = "sort" /\ task' = NoCall
      /\ UNCHANGED <<rows, viewGen, opGen, inbox, parked>>
  BY DEF FinishSort
<1>3. /\ src'.kind = src.kind /\ src'.view = src.view /\ src'.open = src.open
      /\ src'.failed = src.failed /\ src'.changed = src.changed
      /\ src'.complete = src.complete
  BY <1>1 DEF FinishSort, WorkerTypeOK, Source
<1>4. IndexEnded(src') = IndexEnded(src) /\ Opened' = Opened
  BY <1>2, <1>3, NoCallType DEF IndexEnded, Broken, Opened
<1>5. ParkedWaits' /\ FileScheduled' /\ CallsFollowOpen'
  BY <1>2, <1>3, <1>4 DEF ServiceInv, ParkedWaits, FileScheduled, CallsFollowOpen, SliceQueued
<1>6. OpenIsCurrent' /\ NothingFromLater'
  BY <1>1, <1>2, <1>3, NoCallType, Generations DEF ServiceInv, OpenIsCurrent, NothingFromLater
<1>7. RetiredIsPast'
  <2>1. src.view < viewGen => 0 < viewGen
    BY <1>1, Generations
  <2> QED
    BY <1>2, <1>3, <2>1, NoCallType DEF ServiceInv, RetiredIsPast
<1> QED
  BY <1>1, <1>5, <1>6, <1>7 DEF ServiceInv

\* A request parks only on a file that is open and whose index goes on.
LEMMA FetchPageInv == ServiceInv /\ FetchPage => ServiceInv'
<1> SUFFICES ASSUME ServiceInv, FetchPage PROVE ServiceInv'
  OBVIOUS
<1> DEFINE c == Head(inbox)
<1>1. WorkerTypeOK /\ WorkerTypeOK'
  BY FetchPageType DEF ServiceInv
<1>2. /\ inbox \in Seq(Call) /\ inbox # <<>> /\ inbox' = Tail(inbox) /\ task = NoCall
      /\ c.op \in PageOps
      /\ UNCHANGED <<rows, viewGen, opGen, task>>
  BY <1>1 DEF FetchPage, TakeCall, WorkerTypeOK
<1>3. /\ c = inbox[1] /\ 1 \in DOMAIN inbox
      /\ \A i \in DOMAIN inbox' : i + 1 \in DOMAIN inbox /\ inbox'[i] = inbox[i + 1]
      /\ \A i \in DOMAIN inbox : i = 1 \/ (i - 1 \in DOMAIN inbox' /\ inbox'[i - 1] = inbox[i])
  BY <1>2, QueueTail
<1>4. \/ UNCHANGED <<parked, src>>
      \/ /\ ~IsStale(c) /\ src.kind = "csv"
         /\ Readiness(src, StartOrdinal(c.op, c.token, c.total)) = "Pending"
         /\ parked' = c /\ src' = src
      \/ parked' = NoCall /\ src' = Verified(src)
  BY DEF FetchPage, Unpark
<1>5. /\ src'.kind = src.kind /\ src'.view = src.view /\ src'.open = src.open
      /\ IndexEnded(src) => IndexEnded(src')
  <2>1. CASE src' = src
    BY <2>1
  <2>2. CASE src' = Verified(src)
    BY <1>1, <2>2 DEF Verified, IndexEnded, Broken, WorkerTypeOK, Source
  <2> QED
    BY <1>4, <2>1, <2>2
<1>6. Opened' = Opened
  BY <1>2, <1>5 DEF Opened
<1>7. ParkedWaits'
  <2>1. CASE UNCHANGED <<parked, src>>
    BY <1>2, <1>6, <2>1 DEF ServiceInv, ParkedWaits
  <2>2. CASE parked' = NoCall
    BY <2>2 DEF ParkedWaits
  <2>3. CASE /\ ~IsStale(c) /\ src.kind = "csv"
             /\ Readiness(src, StartOrdinal(c.op, c.token, c.total)) = "Pending"
             /\ parked' = c /\ src' = src
    <3>1. Opened
      BY <1>2, <1>3, <2>3 DEF ServiceInv, CallsFollowOpen, IsStale
    <3>2. ~IndexEnded(src)
      BY <2>3, <3>1, PendingNotEnded DEF Opened
    <3> QED
      BY <1>6, <2>3, <3>1, <3>2 DEF ParkedWaits
  <2> QED
    BY <1>4, <2>1, <2>2, <2>3
<1>8. FileScheduled'
  <2>1. SliceQueued(viewGen) => SliceQueued(viewGen)'
    BY <1>2, <1>3 DEF SliceQueued, PageOps
  <2> QED
    BY <1>2, <1>5, <1>6, <2>1 DEF ServiceInv, FileScheduled
<1>9. CallsFollowOpen'
  BY <1>2, <1>3, <1>6 DEF ServiceInv, CallsFollowOpen
<1>10. OpenIsCurrent'
  BY <1>2, <1>3 DEF ServiceInv, OpenIsCurrent
<1>11. c.view <= viewGen /\ 0 <= viewGen
  BY <1>1, <1>3, Generations DEF ServiceInv, NothingFromLater
<1>12. NothingFromLater'
  BY <1>2, <1>3, <1>4, <1>5, <1>11, NoCallType DEF ServiceInv, NothingFromLater
<1>13. RetiredIsPast'
  BY <1>2, <1>3, <1>4, <1>5, NoCallType DEF ServiceInv, RetiredIsPast
<1> QED
  BY <1>1, <1>7, <1>8, <1>9, <1>10, <1>12, <1>13 DEF ServiceInv

\* A slice queues itself again until the index ends, and by then nothing waits.
LEMMA IndexSliceInv == ServiceInv /\ IndexSlice => ServiceInv'
<1> SUFFICES ASSUME ServiceInv, IndexSlice PROVE ServiceInv'
  OBVIOUS
<1> DEFINE c == Head(inbox)
<1>1. WorkerTypeOK /\ WorkerTypeOK'
  BY IndexSliceType DEF ServiceInv
<1>2. /\ inbox \in Seq(Call) /\ inbox # <<>> /\ task = NoCall /\ c.op = "slice"
      /\ UNCHANGED <<rows, viewGen, opGen, task>>
  BY <1>1 DEF IndexSlice, WorkerTypeOK
<1>3. /\ c \in Call /\ c = inbox[1] /\ 1 \in DOMAIN inbox /\ Tail(inbox) \in Seq(Call)
      /\ \A i \in DOMAIN Tail(inbox) : i + 1 \in DOMAIN inbox /\ Tail(inbox)[i] = inbox[i + 1]
      /\ \A i \in DOMAIN inbox :
           i = 1 \/ (i - 1 \in DOMAIN Tail(inbox) /\ Tail(inbox)[i - 1] = inbox[i])
  BY <1>2, QueueTail
<1>4. /\ inbox' = Tail(inbox) \/ inbox' = Append(Tail(inbox), c)
      /\ \/ UNCHANGED <<parked, src>> /\ (IsViewStale(c) \/ src.kind # "csv")
         \/ /\ ~IsViewStale(c) /\ src.kind = "csv"
            /\ \E s \in SliceOutcomes(src) : \E sofar :
                 /\ AnswerParked(s, sofar)
                 /\ ~IndexEnded(s) => inbox' = Append(Tail(inbox), c)
  BY DEF IndexSlice
<1>5. \A i \in DOMAIN inbox' : \E j \in DOMAIN inbox : inbox'[i] = inbox[j]
  <2>1. CASE inbox' = Tail(inbox)
    BY <1>3, <2>1
  <2>2. CASE inbox' = Append(Tail(inbox), c)
    <3>1. \A i \in DOMAIN inbox' :
            (i \in DOMAIN Tail(inbox) /\ inbox'[i] = Tail(inbox)[i]) \/ inbox'[i] = c
      BY <1>3, <2>2, QueueAppend
    <3> QED
      BY <1>3, <3>1
  <2> QED
    BY <1>4, <2>1, <2>2
<1>6. /\ src'.kind = src.kind /\ src'.view = src.view /\ src'.open = src.open
      /\ parked' = parked \/ parked' = NoCall
  <2>1. CASE UNCHANGED <<parked, src>>
    BY <2>1
  <2>2. ASSUME src.kind = "csv", NEW s \in SliceOutcomes(src), NEW sofar, AnswerParked(s, sofar)
        PROVE  /\ src'.kind = src.kind /\ src'.view = src.view /\ src'.open = src.open
               /\ parked' = parked \/ parked' = NoCall
    <3>1. /\ s \in Source /\ s.kind = src.kind /\ s.view = src.view /\ s.open = src.open
          /\ s.left > 0 \/ IndexEnded(s)
      BY <1>1, <2>2, SliceOutcomesType DEF WorkerTypeOK
    <3>2. /\ src' = s \/ src' = Verified(s)
          /\ parked' = parked \/ parked' = NoCall
      BY <2>2 DEF AnswerParked, Unpark
    <3> QED
      BY <1>1, <3>1, <3>2, VerifiedKeeps
  <2> QED
    BY <1>4, <2>1, <2>2
<1>7. Opened' = Opened
  BY <1>2, <1>6 DEF Opened
<1>8. ParkedWaits'
  <2>1. CASE UNCHANGED <<parked, src>>
    BY <1>2, <1>7, <2>1 DEF ServiceInv, ParkedWaits
  <2>2. ASSUME src.kind = "csv", NEW s \in SliceOutcomes(src), NEW sofar, AnswerParked(s, sofar)
        PROVE  ParkedWaits'
    <3>1. CASE parked' = NoCall
      BY <3>1 DEF ParkedWaits
    <3>2. CASE parked' # NoCall
      <4>1. /\ src' = s /\ parked' = parked
            /\ Readiness(s, StartOrdinal(parked.op, parked.token, parked.total)) = "Pending"
        BY <2>2, <3>2 DEF AnswerParked, Unpark
      <4>2. parked'.view = viewGen => Opened
        BY <3>2, <4>1 DEF ServiceInv, ParkedWaits
      <4>3. Opened => ~IndexEnded(s)
        BY <1>6, <4>1, PendingNotEnded DEF Opened
      <4> QED
        BY <1>2, <1>6, <1>7, <2>2, <4>1, <4>2, <4>3 DEF ParkedWaits
    <3> QED
      BY <3>1, <3>2
  <2> QED
    BY <1>4, <2>1, <2>2
<1>9. FileScheduled'
  <2> SUFFICES ASSUME Opened, src.kind = "csv", ~IndexEnded(src')
               PROVE  SliceQueued(viewGen)'
    BY <1>2, <1>6, <1>7 DEF FileScheduled
  <2>1. CASE UNCHANGED <<parked, src>> /\ IsViewStale(c)
    <3>1. PICK i \in DOMAIN inbox : inbox[i].op = "slice" /\ inbox[i].view = viewGen
      BY <2>1 DEF ServiceInv, FileScheduled, SliceQueued
    <3>2. i - 1 \in DOMAIN Tail(inbox) /\ Tail(inbox)[i - 1] = inbox[i]
      BY <1>3, <2>1, <3>1 DEF IsViewStale
    <3>3. CASE inbox' = Tail(inbox)
      BY <1>2, <3>1, <3>2, <3>3 DEF SliceQueued
    <3>4. CASE inbox' = Append(Tail(inbox), c)
      <4>1. i - 1 \in DOMAIN inbox' /\ inbox'[i - 1] = Tail(inbox)[i - 1]
        BY <1>3, <3>2, <3>4, QueueAppend
      <4> QED
        BY <1>2, <3>1, <3>2, <4>1 DEF SliceQueued
    <3> QED
      BY <1>4, <3>3, <3>4
  <2>2. ASSUME ~IsViewStale(c), NEW s \in SliceOutcomes(src), NEW sofar, AnswerParked(s, sofar),
               ~IndexEnded(s) => inbox' = Append(Tail(inbox), c)
        PROVE  SliceQueued(viewGen)'
    <3>1. s \in Source
      BY <1>1, SliceOutcomesType DEF WorkerTypeOK
    <3>2. src' = s \/ src' = Verified(s)
      BY <2>2 DEF AnswerParked
    <3>3. ~IndexEnded(s)
      BY <1>1, <3>1, <3>2 DEF Verified, IndexEnded, Broken, Source
    <3>4. \E i \in DOMAIN inbox' : inbox'[i] = c
      BY <1>3, <2>2, <3>3, QueueAppend
    <3>5. c.view = viewGen
      BY <2>2 DEF IsViewStale
    <3> QED
      BY <1>2, <3>4, <3>5 DEF SliceQueued
  <2> QED
    BY <1>4, <2>1, <2>2
<1>10. CallsFollowOpen'
  <2> SUFFICES ASSUME NEW i \in DOMAIN inbox', inbox'[i].op \in PageOps, inbox'[i].view = viewGen
               PROVE  Opened /\ \A j \in DOMAIN inbox' : inbox'[j].op # "open"
    BY <1>2, <1>7 DEF CallsFollowOpen
  <2>1. Opened /\ \A j \in DOMAIN inbox : inbox[j].op # "open"
    BY <1>5 DEF ServiceInv, CallsFollowOpen
  <2> QED
    BY <1>5, <2>1
<1>11. OpenIsCurrent'
  <2>1. \A i \in DOMAIN inbox' :
          inbox'[i].op = "open" /\ inbox'[i].view = viewGen => inbox'[i].gen = opGen
    BY <1>5 DEF ServiceInv, OpenIsCurrent
  <2> QED
    BY <1>2, <2>1 DEF ServiceInv, OpenIsCurrent
<1>12. NothingFromLater'
  <2>1. \A i \in DOMAIN inbox' : inbox'[i].view <= viewGen
    BY <1>5 DEF ServiceInv, NothingFromLater
  <2>2. 0 <= viewGen
    BY <1>1, Generations
  <2> QED
    BY <1>2, <1>6, <2>1, <2>2, NoCallType DEF ServiceInv, NothingFromLater
<1>13. RetiredIsPast'
  <2> SUFFICES ASSUME NEW i \in DOMAIN inbox', inbox'[i].op = "shutdown"
               PROVE  /\ \A j \in DOMAIN inbox' : inbox'[j].view < viewGen
                      /\ task'.view < viewGen /\ src'.view < viewGen /\ parked'.view < viewGen
    BY <1>2 DEF RetiredIsPast
  <2>1. /\ \A j \in DOMAIN inbox : inbox[j].view < viewGen
        /\ task.view < viewGen /\ src.view < viewGen /\ parked.view < viewGen
    BY <1>5 DEF ServiceInv, RetiredIsPast
  <2> QED
    BY <1>2, <1>5, <1>6, <2>1
<1> QED
  BY <1>1, <1>8, <1>9, <1>10, <1>11, <1>12, <1>13 DEF ServiceInv

\* A worker that shuts down belongs to a file left behind.
LEMMA ShutdownInv == ServiceInv /\ Shutdown => ServiceInv'
<1> SUFFICES ASSUME ServiceInv, Shutdown PROVE ServiceInv'
  OBVIOUS
<1>1. WorkerTypeOK /\ WorkerTypeOK'
  BY ShutdownType DEF ServiceInv
<1>2. /\ inbox \in Seq(Call) /\ inbox # <<>> /\ inbox' = Tail(inbox) /\ task = NoCall
      /\ Head(inbox).op = "shutdown"
      /\ UNCHANGED <<rows, viewGen, opGen, task>>
      /\ src' = NoSource /\ parked' = NoCall
  BY <1>1 DEF Shutdown, TakeCall, WorkerTypeOK, Unpark
<1>3. /\ Head(inbox) = inbox[1] /\ 1 \in DOMAIN inbox
      /\ \A i \in DOMAIN inbox' : i + 1 \in DOMAIN inbox /\ inbox'[i] = inbox[i + 1]
  BY <1>2, QueueTail
<1>4. \A i \in DOMAIN inbox : inbox[i].view < viewGen
  BY <1>2, <1>3 DEF ServiceInv, RetiredIsPast
<1>5. NoSource.view = 0 /\ ~NoSource.open /\ viewGen \in Nat /\ 0 < viewGen
  BY <1>1, <1>3, <1>4, Generations DEF NoSource, EmptySource
<1>6. \A i \in DOMAIN inbox' : inbox'[i].view \in Nat /\ inbox'[i].view < viewGen
  BY <1>1, <1>3, <1>4, Generations
<1>7. ParkedWaits' /\ FileScheduled'
  BY <1>2, <1>5 DEF ParkedWaits, FileScheduled, Opened
<1>8. CallsFollowOpen' /\ OpenIsCurrent'
  BY <1>2, <1>5, <1>6, NoCallType DEF CallsFollowOpen, OpenIsCurrent
<1>9. NothingFromLater' /\ RetiredIsPast'
  BY <1>2, <1>5, <1>6, NoCallType DEF NothingFromLater, RetiredIsPast
<1> QED
  BY <1>1, <1>7, <1>8, <1>9 DEF ServiceInv

\* A load starts over, with a worker of its own.
LEMMA LoadInv == ServiceInv /\ Load => ServiceInv'
<1> SUFFICES ASSUME ServiceInv, Load PROVE ServiceInv'
  OBVIOUS
<1>1. WorkerTypeOK /\ WorkerTypeOK'
  BY LoadType DEF ServiceInv
<1>2. PICK kind \in Kinds : NewWorker(viewGen + 1, 1, kind)
  BY DEF Load
<1> DEFINE c == NewCall("open", viewGen + 1, 1, kind)
<1>3. c.op = "open" /\ c.view = viewGen + 1 /\ c.gen = 1
  BY DEF NewCall
<1>4. /\ viewGen' = viewGen + 1 /\ opGen' = 1 /\ task' = NoCall /\ src' = NoSource
      /\ parked' = NoCall /\ inbox' = <<c>>
  BY <1>2 DEF NewWorker
<1> HIDE DEF c
<1>5. \A i \in DOMAIN inbox' : inbox'[i] = c
  BY <1>4
<1>6. NoSource.view = 0 /\ ~NoSource.open /\ viewGen \in Nat
  BY <1>1, Generations DEF NoSource, EmptySource
<1>7. ParkedWaits' /\ FileScheduled'
  BY <1>4, <1>6 DEF ParkedWaits, FileScheduled, Opened
<1>8. CallsFollowOpen'
  BY <1>3, <1>5 DEF CallsFollowOpen, PageOps
<1>9. OpenIsCurrent'
  BY <1>3, <1>4, <1>5, NoCallType DEF OpenIsCurrent
<1>10. NothingFromLater' /\ RetiredIsPast'
  BY <1>3, <1>4, <1>5, <1>6, NoCallType DEF NothingFromLater, RetiredIsPast
<1> QED
  BY <1>1, <1>7, <1>8, <1>9, <1>10 DEF ServiceInv

\* The client asks once its file is open.
LEMMA RequestInv == ServiceInv /\ Request => ServiceInv'
<1> SUFFICES ASSUME ServiceInv, Request PROVE ServiceInv'
  OBVIOUS
<1>1. WorkerTypeOK /\ WorkerTypeOK'
  BY RequestType DEF ServiceInv
<1>2. /\ SourceSettled /\ opGen' = opGen + 1
      /\ UNCHANGED <<rows, viewGen, task, src, parked, events>>
  BY DEF Request
<1>3. PICK c \in Requests : inbox' = Append(inbox, c)
  BY DEF Request
<1>4. c \in Call /\ c.view = viewGen /\ c.op \notin {"open", "slice", "shutdown"}
  BY <1>1, RequestsType DEF PageOps
<1>5. /\ \A i \in DOMAIN inbox : i \in DOMAIN inbox' /\ inbox'[i] = inbox[i]
      /\ \A i \in DOMAIN inbox' : (i \in DOMAIN inbox /\ inbox'[i] = inbox[i]) \/ inbox'[i] = c
  BY <1>1, <1>3, <1>4, QueueAppend DEF WorkerTypeOK
<1>6. Opened' /\ \A i \in DOMAIN inbox' : inbox'[i].op # "open"
  BY <1>2, <1>4, <1>5 DEF SourceSettled, Opened
<1>7. ParkedWaits'
  BY <1>2, <1>6 DEF ServiceInv, ParkedWaits
<1>8. FileScheduled'
  <2>1. SliceQueued(viewGen) => SliceQueued(viewGen)'
    BY <1>2, <1>5 DEF SliceQueued
  <2>2. Opened
    BY <1>2 DEF SourceSettled, Opened
  <2> QED
    BY <1>2, <2>1, <2>2 DEF ServiceInv, FileScheduled
<1>9. CallsFollowOpen'
  BY <1>6 DEF CallsFollowOpen
<1>10. OpenIsCurrent'
  BY <1>2, <1>6 DEF OpenIsCurrent, SourceSettled
<1>11. NothingFromLater'
  <2>1. \A i \in DOMAIN inbox' : inbox'[i].view <= viewGen
    BY <1>1, <1>4, <1>5, Generations DEF ServiceInv, NothingFromLater
  <2> QED
    BY <1>2, <2>1 DEF ServiceInv, NothingFromLater
<1>12. RetiredIsPast'
  <2>1. \A i \in DOMAIN inbox' : inbox'[i].op # "shutdown"
    <3>1. ~(src.view < viewGen)
      BY <1>1, <1>2, Generations DEF SourceSettled
    <3> QED
      BY <1>4, <1>5, <3>1 DEF ServiceInv, RetiredIsPast
  <2> QED
    BY <2>1 DEF RetiredIsPast
<1> QED
  BY <1>1, <1>7, <1>8, <1>9, <1>10, <1>11, <1>12 DEF ServiceInv

\* What was asked for the file left behind is past.
LEMMA LeaveInv == ServiceInv /\ Leave => ServiceInv'
<1> SUFFICES ASSUME ServiceInv, Leave PROVE ServiceInv'
  OBVIOUS
<1>1. WorkerTypeOK /\ WorkerTypeOK'
  BY LeaveType DEF ServiceInv
<1> DEFINE c == NewCall("shutdown", viewGen, opGen, "csv")
<1>2. /\ viewGen' = viewGen + 1 /\ inbox' = Append(inbox, c)
      /\ UNCHANGED <<rows, task, src, parked, events>>
  BY DEF Leave
<1>3. c \in Call /\ c.view = viewGen
  <2>1. c \in Call
    BY <1>1, Generations, NewCallType DEF Ops, Kind
  <2> QED
    BY <2>1 DEF NewCall
<1> HIDE DEF c
<1>4. \A i \in DOMAIN inbox' : (i \in DOMAIN inbox /\ inbox'[i] = inbox[i]) \/ inbox'[i] = c
  <2>1. inbox \in Seq(Call)
    BY <1>1, Generations
  <2> QED
    BY <1>2, <1>3, <2>1, QueueAppend
<1>5. viewGen \in Nat /\ \A i \in DOMAIN inbox : inbox[i].view \in Nat /\ inbox[i].view <= viewGen
  BY <1>1, Generations DEF ServiceInv, NothingFromLater
<1>6. \A i \in DOMAIN inbox' : inbox'[i].view \in Nat /\ inbox'[i].view <= viewGen
  BY <1>3, <1>4, <1>5
<1>7. /\ task.view \in Nat /\ task.view <= viewGen
      /\ src.view \in Nat /\ src.view <= viewGen
      /\ parked.view \in Nat /\ parked.view <= viewGen
  BY <1>1, Generations DEF ServiceInv, NothingFromLater
<1>8. /\ task'.view < viewGen' /\ src'.view < viewGen' /\ parked'.view < viewGen'
      /\ task'.view \in Nat /\ src'.view \in Nat /\ parked'.view \in Nat
  BY <1>2, <1>5, <1>7
<1>9. \A i \in DOMAIN inbox' : inbox'[i].view < viewGen' /\ inbox'[i].view \in Nat
  BY <1>2, <1>5, <1>6
<1>10. viewGen' \in Nat
  BY <1>2, <1>5
<1>11. ParkedWaits' /\ FileScheduled'
  BY <1>8, <1>10 DEF ParkedWaits, FileScheduled, Opened
<1>12. CallsFollowOpen' /\ OpenIsCurrent'
  BY <1>8, <1>9, <1>10 DEF CallsFollowOpen, OpenIsCurrent
<1>13. NothingFromLater' /\ RetiredIsPast'
  BY <1>8, <1>9, <1>10 DEF NothingFromLater, RetiredIsPast
<1> QED
  BY <1>1, <1>11, <1>12, <1>13 DEF ServiceInv

\* Reading signals, and what happens to the file, touch none of it.
LEMMA OutsideInv == ServiceInv /\ (Receive \/ DeleteRow \/ UNCHANGED workerVars) => ServiceInv'
<1> SUFFICES ASSUME ServiceInv, Receive \/ DeleteRow \/ UNCHANGED workerVars PROVE ServiceInv'
  OBVIOUS
<1>1. WorkerTypeOK'
  BY ReceiveType, DeleteRowType DEF ServiceInv, WorkerTypeOK, workerVars, IndexEnded, Broken
<1>2. UNCHANGED <<viewGen, opGen, inbox, task, src, parked>>
  BY DEF Receive, DeleteRow, workerVars
<1> QED
  BY <1>1, <1>2
  DEF ServiceInv, ParkedWaits, FileScheduled, Opened, SliceQueued, CallsFollowOpen, OpenIsCurrent,
      NothingFromLater, RetiredIsPast, IndexEnded, Broken

\* The worker keeps its promise to whoever waits, as an invariant one step
\* preserves: SourceWorker queues a slice when it opens a file and again after
\* each slice, and parks requests on unfinished indexes only.
THEOREM ServiceHolds == Spec => []ServiceInv
<1>1. WorkerInit => ServiceInv
  BY InitInv
<1>2. ServiceInv /\ [Next]_workerVars => ServiceInv'
  BY BeginTaskInv, FinishOpenInv, FinishSortInv, FetchPageInv, IndexSliceInv, ShutdownInv,
     LoadInv, RequestInv, LeaveInv, OutsideInv DEF Next, WorkerNext
<1> QED
  BY <1>1, <1>2, PTL DEF Spec

\* No page request waits for an index nobody goes on with.
THEOREM NoRequestForgotten == Spec => []ParkedIsScheduled
<1>1. ServiceInv => ParkedIsScheduled
  BY DEF ServiceInv, ParkedIsScheduled, ParkedWaits, FileScheduled, IsStale
<1> QED
  BY <1>1, ServiceHolds, PTL

-----------------------------------------------------------------------------
(* OnceInv is inductive: a page request is in one place at a time.         *)

\* The generations only move on.
MovesOn == viewGen' > viewGen \/ (viewGen' = viewGen /\ opGen' >= opGen)

\* A step that answers nothing and asks for nothing: page requests and answers
\* may leave the queues from the front, and the parked one may be dropped.
LEMMA QuietOnce ==
    ASSUME WorkerTypeOK, WorkerTypeOK', OnceInv, MovesOn,
           NEW d \in {0, 1}, NEW f \in {0, 1},
           \A i \in PageEvents' : i + d \in PageEvents /\ events'[i] = events[i + d],
           \A i \in Asked' : i + f \in Asked /\ inbox'[i] = inbox[i + f],
           parked' = parked \/ parked' = NoCall
    PROVE  OnceInv'
<1>1. PageEvents' \subseteq Int /\ Asked' \subseteq Int
  <2>1. DOMAIN events' \subseteq Int /\ DOMAIN inbox' \subseteq Int
    BY Numbers DEF WorkerTypeOK
  <2> QED
    BY <2>1 DEF PageEvents, Asked
<1>2. /\ \A i, j \in PageEvents' : i + d = j + d => i = j
      /\ \A i, j \in Asked' : i + f = j + f => i = j
  BY <1>1
<1>3. AnsweredOnce'
  <2> SUFFICES ASSUME NEW i \in PageEvents'
               PROVE  /\ \A j \in PageEvents' : SameRequest(events'[i], events'[j]) => i = j
                      /\ parked' # NoCall =>
                           <<parked'.view, parked'.gen>> # <<events'[i].view, events'[i].gen>>
    BY DEF AnsweredOnce, SameRequest
  <2>1. i + d \in PageEvents /\ events'[i] = events[i + d]
    OBVIOUS
  <2>2. ASSUME NEW j \in PageEvents', SameRequest(events'[i], events'[j])
        PROVE  i = j
    <3>1. j + d \in PageEvents /\ events'[j] = events[j + d]
      OBVIOUS
    <3>2. i + d = j + d
      BY <2>1, <2>2, <3>1 DEF OnceInv, AnsweredOnce, SameRequest
    <3> QED
      BY <1>2, <3>2
  <2>3. parked' # NoCall =>
          <<parked'.view, parked'.gen>> # <<events'[i].view, events'[i].gen>>
    BY <2>1 DEF OnceInv, AnsweredOnce
  <2> QED
    BY <2>2, <2>3
<1>4. AskedOnce'
  <2> SUFFICES ASSUME NEW i \in Asked'
               PROVE  /\ \A j \in Asked' : SameRequest(inbox'[i], inbox'[j]) => i = j
                      /\ \A j \in PageEvents' : ~SameRequest(inbox'[i], events'[j])
                      /\ parked' # NoCall => ~SameRequest(inbox'[i], parked')
    BY DEF AskedOnce
  <2>1. i + f \in Asked /\ inbox'[i] = inbox[i + f]
    OBVIOUS
  <2>2. ASSUME NEW j \in Asked', SameRequest(inbox'[i], inbox'[j])
        PROVE  i = j
    <3>1. j + f \in Asked /\ inbox'[j] = inbox[j + f]
      OBVIOUS
    <3>2. i + f = j + f
      BY <2>1, <2>2, <3>1 DEF OnceInv, AskedOnce
    <3> QED
      BY <1>2, <3>2
  <2>3. ASSUME NEW j \in PageEvents'
        PROVE  ~SameRequest(inbox'[i], events'[j])
    <3>1. j + d \in PageEvents /\ events'[j] = events[j + d]
      OBVIOUS
    <3> QED
      BY <2>1, <3>1 DEF OnceInv, AskedOnce
  <2>4. parked' # NoCall => ~SameRequest(inbox'[i], parked')
    BY <2>1 DEF OnceInv, AskedOnce
  <2> QED
    BY <2>2, <2>3, <2>4
<1>5. NumbersAreNew'
  <2>1. \A i \in PageEvents : events[i].view \in Nat /\ events[i].gen \in Nat
    BY Numbers DEF PageEvents
  <2>2. \A i \in Asked : inbox[i].view \in Nat /\ inbox[i].gen \in Nat
    BY Numbers DEF Asked
  <2>3. viewGen \in Nat /\ opGen \in Nat /\ viewGen' \in Nat /\ opGen' \in Nat
    BY DEF WorkerTypeOK
  <2>4. \A x : x.view \in Nat /\ x.gen \in Nat /\ NotFromLater(x) =>
               x.view < viewGen' \/ (x.view = viewGen' /\ x.gen <= opGen')
    BY <2>3 DEF NotFromLater, MovesOn
  <2>5. \A i \in PageEvents' :
           \/ events'[i].view < viewGen'
           \/ events'[i].view = viewGen' /\ events'[i].gen <= opGen'
    BY <2>1, <2>4 DEF OnceInv, NumbersAreNew
  <2>6. \A i \in Asked' :
           \/ inbox'[i].view < viewGen'
           \/ inbox'[i].view = viewGen' /\ inbox'[i].gen <= opGen'
    BY <2>2, <2>4 DEF OnceInv, NumbersAreNew
  <2>7. parked' # NoCall =>
           parked'.view < viewGen' \/ (parked'.view = viewGen' /\ parked'.gen <= opGen')
    BY Numbers, <2>4 DEF OnceInv, NumbersAreNew
  <2> QED
    BY <2>5, <2>6, <2>7 DEF NumbersAreNew, NotFromLater
<1> QED
  BY <1>3, <1>4, <1>5 DEF OnceInv

\* A queue that lost its head, if anything.
LEMMA AskedTail ==
    ASSUME WorkerTypeOK, inbox # <<>>, inbox' = Tail(inbox)
    PROVE  \A i \in Asked' : i + 1 \in Asked /\ inbox'[i] = inbox[i + 1]
<1>1. inbox \in Seq(Call)
  BY DEF WorkerTypeOK
<1>2. \A i \in DOMAIN inbox' : i + 1 \in DOMAIN inbox /\ inbox'[i] = inbox[i + 1]
  BY <1>1, QueueTail
<1> QED
  BY <1>2 DEF Asked

\* Starting open() or sort() asks for no page.
LEMMA BeginTaskOnce == WorkerTypeOK /\ OnceInv /\ BeginTask => OnceInv'
<1> SUFFICES ASSUME WorkerTypeOK, OnceInv, BeginTask PROVE OnceInv'
  OBVIOUS
<1>1. WorkerTypeOK'
  BY BeginTaskType
<1>2. /\ inbox # <<>> /\ inbox' = Tail(inbox)
      /\ UNCHANGED <<viewGen, opGen, events>>
      /\ parked' = parked \/ parked' = NoCall
  BY DEF BeginTask, TakeCall
<1>3. MovesOn
  BY <1>2, Numbers DEF MovesOn
<1>4. \A i \in PageEvents' : i + 0 \in PageEvents /\ events'[i] = events[i + 0]
  BY <1>2, Numbers DEF PageEvents
<1>5. \A i \in Asked' : i + 1 \in Asked /\ inbox'[i] = inbox[i + 1]
  BY <1>2, AskedTail
<1> QED
  BY <1>1, <1>2, <1>3, <1>4, <1>5, QuietOnce


\* A signal that answers no page request.
LEMMA EventsKept ==
    ASSUME WorkerTypeOK, NEW e \in Event, e.sig # "pageReady",
           events' = events \/ events' = Append(events, e)
    PROVE  \A i \in PageEvents' : i + 0 \in PageEvents /\ events'[i] = events[i + 0]
<1>1. events \in Seq(Event) /\ DOMAIN events \subseteq Int
  BY DEF WorkerTypeOK
<1>2. CASE events' = events
  BY <1>1, <1>2 DEF PageEvents
<1>3. CASE events' = Append(events, e)
  <2>1. \A i \in DOMAIN events' : (i \in DOMAIN events /\ events'[i] = events[i]) \/ events'[i] = e
    BY <1>1, <1>3, QueueAppend
  <2>2. \A i \in PageEvents' : i \in PageEvents /\ events'[i] = events[i]
    BY <2>1 DEF PageEvents
  <2> QED
    BY <1>1, <2>2 DEF PageEvents
<1> QED
  BY <1>2, <1>3

\* Calls that ask for no page.
LEMMA InboxKept ==
    ASSUME WorkerTypeOK, NEW c \in Call, c.op \notin PageOps,
           inbox' = inbox \/ inbox' = Append(inbox, c)
    PROVE  \A i \in Asked' : i + 0 \in Asked /\ inbox'[i] = inbox[i + 0]
<1>1. inbox \in Seq(Call) /\ DOMAIN inbox \subseteq Int
  BY DEF WorkerTypeOK
<1>2. CASE inbox' = inbox
  BY <1>1, <1>2 DEF Asked
<1>3. CASE inbox' = Append(inbox, c)
  <2>1. \A i \in DOMAIN inbox' : (i \in DOMAIN inbox /\ inbox'[i] = inbox[i]) \/ inbox'[i] = c
    BY <1>1, <1>3, QueueAppend
  <2>2. \A i \in Asked' : i \in Asked /\ inbox'[i] = inbox[i]
    BY <2>1 DEF Asked
  <2> QED
    BY <1>1, <2>2 DEF Asked
<1> QED
  BY <1>2, <1>3

\* Any signal sent by a worker that never sent the answer to a page request.
NoAnswer == NewEvent("openCompleted", 0, 0, FALSE)

\* NoAnswer and NoCall stand for "nothing new" in the lemmas above.
LEMMA NothingNew ==
    /\ NoAnswer \in Event /\ NoAnswer.sig # "pageReady"
    /\ NoCall \in Call /\ NoCall.op \notin PageOps
<1>1. NoAnswer \in Event /\ NoAnswer.sig # "pageReady"
  BY NewEventType DEF NoAnswer, NewEvent
<1> QED
  BY <1>1, NoCallType DEF PageOps

\* sort() is answered, but with no page.
LEMMA FinishSortOnce == WorkerTypeOK /\ OnceInv /\ FinishSort => OnceInv'
<1> SUFFICES ASSUME WorkerTypeOK, OnceInv, FinishSort PROVE OnceInv'
  OBVIOUS
<1>1. WorkerTypeOK'
  BY FinishSortType
<1>2. UNCHANGED <<viewGen, opGen, inbox, parked>>
  BY DEF FinishSort
<1>3. MovesOn
  BY <1>2, Numbers DEF MovesOn
<1>4. PICK done \in BOOLEAN :
        events' = IF IsStale(task) THEN events
                  ELSE Append(events, [NewEvent("sortCompleted", task.view, task.gen, done)
                             EXCEPT !.total = IF done THEN Cardinality(rows) ELSE 0])
  BY DEF FinishSort
<1> DEFINE total == IF done THEN Cardinality(rows) ELSE 0
           e == [NewEvent("sortCompleted", task.view, task.gen, done) EXCEPT !.total = total]
<1>5. e \in Event /\ e.sig # "pageReady"
  <2>1. total \in Total
    BY RowsFinite DEF Total
  <2>2. task.view \in Nat /\ task.gen \in Nat
    BY DEF WorkerTypeOK, Call
  <2>3. NewEvent("sortCompleted", task.view, task.gen, done) \in Event
    BY <2>2, NewEventType
  <2> QED
    BY <2>1, <2>3 DEF Event, NewEvent
<1>6. events' = events \/ events' = Append(events, e)
  BY <1>4
<1> HIDE DEF e
<1>7. \A i \in PageEvents' : i + 0 \in PageEvents /\ events'[i] = events[i + 0]
  BY <1>5, <1>6, EventsKept
<1>8. \A i \in Asked' : i + 0 \in Asked /\ inbox'[i] = inbox[i + 0]
  BY <1>2, NothingNew, InboxKept
<1> QED
  BY <1>1, <1>2, <1>3, <1>7, <1>8, QuietOnce

\* open() is answered with no page, and asks for a slice at most.
LEMMA FinishOpenOnce == WorkerTypeOK /\ OnceInv /\ FinishOpen => OnceInv'
<1> SUFFICES ASSUME WorkerTypeOK, OnceInv, FinishOpen PROVE OnceInv'
  OBVIOUS
<1>1. WorkerTypeOK'
  BY FinishOpenType
<1>2. PICK s \in OpenOutcomes(task) :
         IF IsStale(task) THEN UNCHANGED <<events, inbox>> ELSE OpenCompleted(task, s)
  BY DEF FinishOpen
<1>3. UNCHANGED <<viewGen, opGen, parked>>
  BY DEF FinishOpen
<1>4. MovesOn
  BY <1>3, Numbers DEF MovesOn
<1> DEFINE done == [NewEvent("openCompleted", task.view, task.gen, s.open) EXCEPT !.canSort = CanSort(s)]
           p == Progress(task.view, s)
           slice == NewCall("slice", task.view, 0, "csv")
<1>5. task.view \in Nat /\ task.gen \in Nat /\ task \in Call
  BY DEF WorkerTypeOK, Call
<1>6. s \in Source
  BY <1>5, OpenOutcomesType
<1>7. /\ done \in Event /\ done.sig # "pageReady"
      /\ p \in Event /\ p.sig # "pageReady"
      /\ slice \in Call /\ slice.op \notin PageOps
  <2>1. s.open \in BOOLEAN /\ CanSort(s) \in BOOLEAN
    BY <1>6 DEF Source, CanSort
  <2>2. NewEvent("openCompleted", task.view, task.gen, s.open) \in Event
    BY <1>5, <2>1, NewEventType
  <2>3. done \in Event /\ done.sig # "pageReady"
    BY <2>1, <2>2 DEF Event, NewEvent
  <2>4. p \in Event
    BY <1>5, <1>6, ProgressType
  <2>5. p.sig # "pageReady"
    BY DEF Progress, NewEvent
  <2>6. slice \in Call
    BY <1>5, NewCallType DEF Ops, Kind
  <2>7. slice.op \notin PageOps
    BY DEF NewCall, PageOps
  <2> QED
    BY <2>3, <2>4, <2>5, <2>6, <2>7
<1>8. /\ events' = events \/ events' = Append(events, done) \/ events' = events \o <<done, p>>
      /\ inbox' = inbox \/ inbox' = Append(inbox, slice)
  BY <1>2 DEF OpenCompleted
<1> HIDE DEF done, p, slice
<1>9. \A i \in PageEvents' : i + 0 \in PageEvents /\ events'[i] = events[i + 0]
  <2>1. CASE events' = events \/ events' = Append(events, done)
    BY <1>7, <2>1, EventsKept
  <2>2. CASE events' = events \o <<done, p>>
    <3>1. events \in Seq(Event) /\ Len(events) \in Nat /\ DOMAIN events = 1..Len(events)
      BY DEF WorkerTypeOK
    <3>2. /\ Len(events') = Len(events) + 2
          /\ \A i \in 1..Len(events) : events'[i] = events[i]
          /\ events'[Len(events) + 1] = done /\ events'[Len(events) + 2] = p
      BY <1>7, <2>2, <3>1
    <3>3. DOMAIN events' = 1..(Len(events) + 2)
      BY <1>1, <3>2 DEF WorkerTypeOK
    <3> QED
      BY <1>7, <3>1, <3>2, <3>3 DEF PageEvents
  <2> QED
    BY <1>8, <2>1, <2>2
<1>10. \A i \in Asked' : i + 0 \in Asked /\ inbox'[i] = inbox[i + 0]
  BY <1>7, <1>8, InboxKept
<1> QED
  BY <1>1, <1>3, <1>4, <1>9, <1>10, QuietOnce

\* The worker lets go of what it had parked.
LEMMA ShutdownOnce == WorkerTypeOK /\ OnceInv /\ Shutdown => OnceInv'
<1> SUFFICES ASSUME WorkerTypeOK, OnceInv, Shutdown PROVE OnceInv'
  OBVIOUS
<1>1. WorkerTypeOK'
  BY ShutdownType
<1>2. /\ inbox # <<>> /\ inbox' = Tail(inbox)
      /\ UNCHANGED <<viewGen, opGen, events>>
      /\ parked' = NoCall
  BY DEF Shutdown, TakeCall, Unpark
<1>3. MovesOn
  BY <1>2, Numbers DEF MovesOn
<1>4. \A i \in PageEvents' : i + 0 \in PageEvents /\ events'[i] = events[i + 0]
  BY <1>2, NothingNew, EventsKept
<1>5. \A i \in Asked' : i + 1 \in Asked /\ inbox'[i] = inbox[i + 1]
  BY <1>2, AskedTail
<1> QED
  BY <1>1, <1>2, <1>3, <1>4, <1>5, QuietOnce

\* A new worker has been asked for nothing but open(), in a later generation.
LEMMA LoadOnce == WorkerTypeOK /\ OnceInv /\ Load => OnceInv'
<1> SUFFICES ASSUME WorkerTypeOK, OnceInv, Load PROVE OnceInv'
  OBVIOUS
<1>1. WorkerTypeOK'
  BY LoadType
<1>2. PICK kind \in Kinds : NewWorker(viewGen + 1, 1, kind)
  BY DEF Load
<1>3. /\ viewGen' = viewGen + 1 /\ parked' = NoCall /\ UNCHANGED events
      /\ inbox' = <<NewCall("open", viewGen + 1, 1, kind)>>
  BY <1>2 DEF Load, NewWorker
<1>4. MovesOn
  BY <1>3, Numbers DEF MovesOn
<1>5. \A i \in PageEvents' : i + 0 \in PageEvents /\ events'[i] = events[i + 0]
  BY <1>3, NothingNew, EventsKept
<1>6. Asked' = {}
  <2>1. NewCall("open", viewGen + 1, 1, kind).op \notin PageOps
    BY DEF NewCall, PageOps
  <2> QED
    BY <1>3, <2>1 DEF Asked
<1> QED
  BY <1>1, <1>3, <1>4, <1>5, <1>6, QuietOnce

\* Leaving moves both generations on.
LEMMA LeaveOnce == WorkerTypeOK /\ OnceInv /\ Leave => OnceInv'
<1> SUFFICES ASSUME WorkerTypeOK, OnceInv, Leave PROVE OnceInv'
  OBVIOUS
<1>1. WorkerTypeOK'
  BY LeaveType
<1> DEFINE c == NewCall("shutdown", viewGen, opGen, "csv")
<1>2. /\ viewGen' = viewGen + 1 /\ UNCHANGED <<parked, events>>
      /\ inbox' = Append(inbox, c)
  BY DEF Leave
<1>3. MovesOn
  BY <1>2, Numbers DEF MovesOn
<1>4. c \in Call /\ c.op \notin PageOps
  <2>1. c \in Call
    BY Numbers, NewCallType DEF Ops, Kind
  <2> QED
    BY <2>1 DEF NewCall, PageOps
<1> HIDE DEF c
<1>5. \A i \in PageEvents' : i + 0 \in PageEvents /\ events'[i] = events[i + 0]
  BY <1>2, NothingNew, EventsKept
<1>6. \A i \in Asked' : i + 0 \in Asked /\ inbox'[i] = inbox[i + 0]
  BY <1>2, <1>4, InboxKept
<1> QED
  BY <1>1, <1>2, <1>3, <1>5, <1>6, QuietOnce

\* The client reads a signal, or the file changes, or nothing does.
LEMMA OutsideOnce ==
    WorkerTypeOK /\ OnceInv /\ (Receive \/ DeleteRow \/ UNCHANGED workerVars) => OnceInv'
<1> SUFFICES ASSUME WorkerTypeOK, OnceInv, Receive \/ DeleteRow \/ UNCHANGED workerVars PROVE OnceInv'
  OBVIOUS
<1>1. WorkerTypeOK'
  BY ReceiveType, DeleteRowType DEF WorkerTypeOK, workerVars, IndexEnded, Broken
<1>2. /\ UNCHANGED <<viewGen, opGen, inbox, parked>>
      /\ UNCHANGED events \/ (events # <<>> /\ events' = Tail(events))
  BY DEF Receive, DeleteRow, workerVars
<1>3. MovesOn
  BY <1>2, Numbers DEF MovesOn
<1>4. \A i \in Asked' : i + 0 \in Asked /\ inbox'[i] = inbox[i + 0]
  BY <1>2, NothingNew, InboxKept
<1>5. CASE UNCHANGED events
  <2>1. \A i \in PageEvents' : i + 0 \in PageEvents /\ events'[i] = events[i + 0]
    BY <1>5, NothingNew, EventsKept
  <2> QED
    BY <1>1, <1>2, <1>3, <1>4, <2>1, QuietOnce
<1>6. CASE events # <<>> /\ events' = Tail(events)
  <2>1. \A i \in DOMAIN events' : i + 1 \in DOMAIN events /\ events'[i] = events[i + 1]
    BY <1>6, Numbers, QueueTail
  <2>2. \A i \in PageEvents' : i + 1 \in PageEvents /\ events'[i] = events[i + 1]
    BY <2>1 DEF PageEvents
  <2> QED
    BY <1>1, <1>2, <1>3, <1>4, <2>2, QuietOnce
<1> QED
  BY <1>2, <1>5, <1>6


\* A request that is nowhere else is answered, and gone.
LEMMA AnswerOnce ==
    ASSUME WorkerTypeOK, WorkerTypeOK', OnceInv, UNCHANGED <<viewGen, opGen>>,
           NEW c \in Call, NotFromLater(c),
           \A i \in PageEvents : ~SameRequest(c, events[i]),
           NEW sofar \in Seq(Event),
           \A i \in DOMAIN sofar : sofar[i].sig = "pageReady" => i \in PageEvents /\ sofar[i] = events[i],
           NEW e \in Event, e.view = c.view, e.gen = c.gen,
           events' = Append(sofar, e),
           NEW f \in {0, 1},
           \A i \in Asked' : i + f \in Asked /\ inbox'[i] = inbox[i + f] /\ ~SameRequest(inbox'[i], c),
           parked' = NoCall
    PROVE  OnceInv'
<1> DEFINE n == Len(sofar) + 1
<1>1. \A i \in PageEvents' : (i \in PageEvents /\ events'[i] = events[i]) \/ (i = n /\ events'[i] = e)
  <2>1. DOMAIN events' = DOMAIN sofar \union {n} /\ events'[n] = e
        /\ \A i \in DOMAIN sofar : events'[i] = sofar[i]
    BY QueueLast
  <2> QED
    BY <2>1 DEF PageEvents
<1> HIDE DEF n
<1>2. AnsweredOnce'
  <2>1. ASSUME NEW i \in PageEvents', NEW j \in PageEvents', SameRequest(events'[i], events'[j])
        PROVE  i = j
    <3>1. CASE events'[i] = events[i] /\ i \in PageEvents /\ events'[j] = events[j] /\ j \in PageEvents
      BY <2>1, <3>1 DEF OnceInv, AnsweredOnce, SameRequest
    <3>2. CASE events'[i] = events[i] /\ i \in PageEvents /\ j = n /\ events'[j] = e
      BY <2>1, <3>2 DEF SameRequest
    <3>3. CASE i = n /\ events'[i] = e /\ events'[j] = events[j] /\ j \in PageEvents
      BY <2>1, <3>3 DEF SameRequest
    <3> QED
      BY <1>1, <3>1, <3>2, <3>3
  <2> QED
    BY <2>1 DEF AnsweredOnce, SameRequest
<1>3. AskedOnce'
  <2>1. Asked' \subseteq Int
    BY DEF WorkerTypeOK, Asked
  <2>2. ASSUME NEW i \in Asked', NEW j \in Asked', SameRequest(inbox'[i], inbox'[j])
        PROVE  i = j
    <3>1. i + f = j + f
      BY <2>2 DEF OnceInv, AskedOnce
    <3> QED
      BY <2>1, <3>1
  <2>3. ASSUME NEW i \in Asked', NEW j \in PageEvents'
        PROVE  ~SameRequest(inbox'[i], events'[j])
    <3>1. CASE j \in PageEvents /\ events'[j] = events[j]
      BY <3>1 DEF OnceInv, AskedOnce
    <3>2. CASE events'[j] = e
      BY <3>2 DEF SameRequest
    <3> QED
      BY <1>1, <3>1, <3>2
  <2> QED
    BY <2>2, <2>3 DEF AskedOnce
<1>4. NumbersAreNew'
  <2>1. \A i \in PageEvents' : NotFromLater(events'[i])
    BY <1>1 DEF OnceInv, NumbersAreNew, NotFromLater
  <2>2. \A i \in Asked' : NotFromLater(inbox'[i])
    BY DEF OnceInv, NumbersAreNew
  <2> QED
    BY <2>1, <2>2 DEF NumbersAreNew, NotFromLater
<1> QED
  BY <1>2, <1>3, <1>4 DEF OnceInv

\* A page request is answered or parked, once it has left the queue.
LEMMA FetchPageOnce == WorkerTypeOK /\ OnceInv /\ FetchPage => OnceInv'
<1> SUFFICES ASSUME WorkerTypeOK, OnceInv, FetchPage PROVE OnceInv'
  OBVIOUS
<1> DEFINE c == Head(inbox)
<1>1. WorkerTypeOK'
  BY FetchPageType
<1>2. /\ inbox \in Seq(Call) /\ inbox # <<>> /\ inbox' = Tail(inbox)
      /\ c \in Call /\ c.op \in PageOps
      /\ UNCHANGED <<viewGen, opGen>>
  BY TakeCallType DEF FetchPage, TakeCall, WorkerTypeOK
<1>3. 1 \in Asked /\ c = inbox[1]
  BY <1>2, QueueTail DEF Asked
<1>4. \A i \in Asked' : /\ i + 1 \in Asked /\ inbox'[i] = inbox[i + 1]
                        /\ ~SameRequest(inbox'[i], c)
  <2>1. \A i \in Asked' : i + 1 \in Asked /\ inbox'[i] = inbox[i + 1]
    BY <1>2, AskedTail
  <2>2. \A i \in Asked' : i \in Int /\ i + 1 # 1
    BY <1>1 DEF WorkerTypeOK, Asked
  <2> QED
    BY <1>3, <2>1, <2>2 DEF OnceInv, AskedOnce
<1>5. /\ \A i \in PageEvents : ~SameRequest(c, events[i])
      /\ NotFromLater(c)
  BY <1>3 DEF OnceInv, AskedOnce, NumbersAreNew
<1>6. CASE UNCHANGED <<parked, src, events>>
  <2>1. MovesOn
    BY <1>2, Numbers DEF MovesOn
  <2>2. \A i \in PageEvents' : i + 0 \in PageEvents /\ events'[i] = events[i + 0]
    BY <1>6, NothingNew, EventsKept
  <2> QED
    BY <1>1, <1>4, <1>6, <2>1, <2>2, QuietOnce
<1>7. CASE parked' = c /\ UNCHANGED <<src, events>>
  <2>1. PageEvents' = PageEvents
    BY <1>7 DEF PageEvents
  <2>2. AnsweredOnce'
    BY <1>5, <1>7, <2>1 DEF OnceInv, AnsweredOnce, SameRequest
  <2>3. AskedOnce'
    <3>1. Asked' \subseteq Int
      BY <1>1 DEF WorkerTypeOK, Asked
    <3>2. ASSUME NEW i \in Asked', NEW j \in Asked', SameRequest(inbox'[i], inbox'[j])
          PROVE  i = j
      <4>1. i + 1 = j + 1
        BY <1>4, <3>2 DEF OnceInv, AskedOnce
      <4> QED
        BY <3>1, <4>1
    <3>3. \A i \in Asked' : \A j \in PageEvents' : ~SameRequest(inbox'[i], events'[j])
      BY <1>4, <1>7, <2>1 DEF OnceInv, AskedOnce
    <3> QED
      BY <1>4, <1>7, <3>2, <3>3 DEF AskedOnce
  <2>4. NumbersAreNew'
    <3>1. \A i \in Asked' : NotFromLater(inbox'[i])
      BY <1>4 DEF OnceInv, NumbersAreNew
    <3> QED
      BY <1>2, <1>5, <1>7, <2>1, <3>1 DEF OnceInv, NumbersAreNew, NotFromLater
  <2> QED
    BY <2>2, <2>3, <2>4 DEF OnceInv
<1>8. ASSUME NEW page \in Pages(c, src), parked' = NoCall,
             events' = Append(events, PageReady(c, page))
      PROVE  OnceInv'
  <2>1. events \in Seq(Event)
        /\ \A i \in DOMAIN events : events[i].sig = "pageReady" => i \in PageEvents
    BY DEF WorkerTypeOK, PageEvents
  <2>2. PageReady(c, page) \in Event
    BY <1>2, PagesType, PageReadyType DEF WorkerTypeOK
  <2>3. PageReady(c, page).view = c.view /\ PageReady(c, page).gen = c.gen
    BY DEF PageReady, NewEvent
  <2> QED
    BY <1>1, <1>2, <1>4, <1>5, <1>8, <2>1, <2>2, <2>3, AnswerOnce
<1> QED
  <2>1. \/ UNCHANGED <<parked, src, events>>
        \/ parked' = c /\ UNCHANGED <<src, events>>
        \/ /\ parked' = NoCall
           /\ \E page \in Pages(c, src) : events' = Append(events, PageReady(c, page))
    BY DEF FetchPage, Unpark
  <2> QED
    BY <1>6, <1>7, <1>8, <2>1

\* A slice answers what is parked, which is then parked no more.
LEMMA IndexSliceOnce == WorkerTypeOK /\ OnceInv /\ IndexSlice => OnceInv'
<1> SUFFICES ASSUME WorkerTypeOK, OnceInv, IndexSlice PROVE OnceInv'
  OBVIOUS
<1> DEFINE c == Head(inbox)
<1>1. WorkerTypeOK'
  BY IndexSliceType
<1>2. /\ inbox \in Seq(Call) /\ inbox # <<>> /\ c.op = "slice"
      /\ UNCHANGED <<viewGen, opGen>>
      /\ inbox' = Tail(inbox) \/ inbox' = Append(Tail(inbox), c)
  BY DEF IndexSlice, WorkerTypeOK
<1>3. \A i \in Asked' : i + 1 \in Asked /\ inbox'[i] = inbox[i + 1]
  <2>1. c \in Call /\ Tail(inbox) \in Seq(Call)
        /\ \A i \in DOMAIN Tail(inbox) : i + 1 \in DOMAIN inbox /\ Tail(inbox)[i] = inbox[i + 1]
    BY <1>2, QueueTail
  <2>2. \A i \in DOMAIN Append(Tail(inbox), c) :
           (i \in DOMAIN Tail(inbox) /\ Append(Tail(inbox), c)[i] = Tail(inbox)[i])
             \/ Append(Tail(inbox), c)[i] = c
    BY <2>1, QueueAppend
  <2>3. \A i \in DOMAIN inbox' : (i + 1 \in DOMAIN inbox /\ inbox'[i] = inbox[i + 1]) \/ inbox'[i] = c
    BY <1>2, <2>1, <2>2
  <2>4. c.op \notin PageOps
    BY <1>2 DEF PageOps
  <2> QED
    BY <2>3, <2>4 DEF Asked
<1>4. MovesOn
  BY <1>2, Numbers DEF MovesOn
<1>5. CASE UNCHANGED <<parked, src, events>>
  <2>1. \A i \in PageEvents' : i + 0 \in PageEvents /\ events'[i] = events[i + 0]
    BY <1>5, NothingNew, EventsKept
  <2> QED
    BY <1>1, <1>3, <1>4, <1>5, <2>1, QuietOnce
<1>6. ASSUME ~(IsViewStale(c) \/ src.kind # "csv"),
             NEW s \in SliceOutcomes(src), NEW sofar \in Reports(c.view, s), AnswerParked(s, sofar)
      PROVE  OnceInv'
  <2>1. s \in Source
    BY <1>6, SliceOutcomesType DEF WorkerTypeOK
  <2>2. Progress(c.view, s) \in Event /\ Progress(c.view, s).sig # "pageReady"
    <3>1. c \in Call /\ c.view \in Nat
      <4>1. c \in Call
        BY <1>2, QueueTail
      <4> QED
        BY <4>1 DEF Call
    <3>2. Progress(c.view, s).sig # "pageReady"
      BY DEF Progress, NewEvent
    <3> QED
      BY <2>1, <3>1, <3>2, ProgressType
  <2>3. sofar = events \/ sofar = Append(events, Progress(c.view, s))
    BY <1>6 DEF Reports
  <2>4. /\ sofar \in Seq(Event)
        /\ \A i \in DOMAIN sofar :
             sofar[i].sig = "pageReady" => i \in PageEvents /\ sofar[i] = events[i]
    <3>1. events \in Seq(Event)
      BY DEF WorkerTypeOK
    <3>2. CASE sofar = events
      BY <3>1, <3>2 DEF PageEvents
    <3>3. CASE sofar = Append(events, Progress(c.view, s))
      <4>1. sofar \in Seq(Event) /\ \A i \in DOMAIN sofar :
              (i \in DOMAIN events /\ sofar[i] = events[i]) \/ sofar[i] = Progress(c.view, s)
        BY <2>2, <3>1, <3>3, QueueAppend
      <4> QED
        BY <2>2, <4>1 DEF PageEvents
    <3> QED
      BY <2>3, <3>2, <3>3
  <2>5. CASE events' = sofar /\ (parked' = parked \/ parked' = NoCall)
    <3>1. \A i \in PageEvents' : i + 0 \in PageEvents /\ events'[i] = events[i + 0]
      BY <2>2, <2>3, <2>5, EventsKept
    <3> QED
      BY <1>1, <1>3, <1>4, <2>5, <3>1, QuietOnce
  <2>6. ASSUME parked # NoCall, parked' = NoCall, NEW page \in Pages(parked, s) \union {FailedPage},
               events' = Append(sofar, PageReady(parked, page))
        PROVE  OnceInv'
    <3>1. parked \in Call /\ parked.op \in PageOps
      BY <2>6 DEF WorkerTypeOK
    <3>2. PageReady(parked, page) \in Event
      BY <2>1, <2>6, <3>1, PagesType, FailedPageType, PageReadyType
    <3>3. PageReady(parked, page).view = parked.view /\ PageReady(parked, page).gen = parked.gen
      BY DEF PageReady, NewEvent
    <3>4. /\ NotFromLater(parked)
          /\ \A i \in PageEvents : ~SameRequest(parked, events[i])
          /\ \A i \in Asked : ~SameRequest(inbox[i], parked)
      BY <2>6 DEF OnceInv, NumbersAreNew, AnsweredOnce, AskedOnce, SameRequest
    <3>5. \A i \in Asked' : /\ i + 1 \in Asked /\ inbox'[i] = inbox[i + 1]
                            /\ ~SameRequest(inbox'[i], parked)
      BY <1>3, <3>4
    <3> QED
      BY <1>1, <1>2, <2>4, <2>6, <3>1, <3>2, <3>3, <3>4, <3>5, AnswerOnce
  <2> QED
    <3>1. \/ events' = sofar /\ (parked' = parked \/ parked' = NoCall)
          \/ /\ parked # NoCall /\ parked' = NoCall
             /\ \E page \in Pages(parked, s) \union {FailedPage} :
                  events' = Append(sofar, PageReady(parked, page))
      BY <1>6 DEF AnswerParked, Unpark
    <3> QED
      BY <2>5, <2>6, <3>1
<1> QED
  <2>1. \/ UNCHANGED <<parked, src, events>>
        \/ /\ ~(IsViewStale(c) \/ src.kind # "csv")
           /\ \E s \in SliceOutcomes(src) : \E sofar \in Reports(c.view, s) : AnswerParked(s, sofar)
    BY DEF IndexSlice
  <2> QED
    BY <1>5, <1>6, <2>1

\* The next request has a number of its own.
LEMMA RequestOnce == WorkerTypeOK /\ OnceInv /\ Request => OnceInv'
<1> SUFFICES ASSUME WorkerTypeOK, OnceInv, Request PROVE OnceInv'
  OBVIOUS
<1>1. WorkerTypeOK'
  BY RequestType
<1>2. PICK c \in Requests : inbox' = Append(inbox, c)
  BY DEF Request
<1>3. c \in Call /\ c.view = viewGen /\ c.gen = opGen + 1
  BY <1>2, RequestsType
<1>4. viewGen' = viewGen /\ opGen' = opGen + 1 /\ UNCHANGED <<parked, events>>
  BY DEF Request
<1>5. PageEvents' = PageEvents
  BY <1>4 DEF PageEvents
<1> DEFINE n == Len(inbox) + 1
<1>6. \A i \in Asked' : (i \in Asked /\ inbox'[i] = inbox[i]) \/ (i = n /\ inbox'[i] = c)
  <2>1. DOMAIN inbox' = DOMAIN inbox \union {n} /\ inbox'[n] = c
        /\ \A i \in DOMAIN inbox : inbox'[i] = inbox[i]
    BY <1>2, <1>3, QueueLast DEF WorkerTypeOK
  <2> QED
    BY <2>1 DEF Asked
<1> HIDE DEF n
<1>7. /\ \A i \in Asked : ~SameRequest(inbox[i], c)
      /\ \A i \in PageEvents : ~SameRequest(c, events[i])
      /\ parked # NoCall => ~SameRequest(c, parked)
  <2>1. \A x : x.gen \in Nat /\ NotFromLater(x) => ~SameRequest(x, c) /\ ~SameRequest(c, x)
    BY <1>3, Numbers DEF NotFromLater, SameRequest
  <2>2. /\ \A i \in Asked : inbox[i].gen \in Nat /\ NotFromLater(inbox[i])
        /\ \A i \in PageEvents : events[i].gen \in Nat /\ NotFromLater(events[i])
        /\ parked # NoCall => parked.gen \in Nat /\ NotFromLater(parked)
    BY Numbers DEF OnceInv, NumbersAreNew, Asked, PageEvents
  <2> QED
    BY <2>1, <2>2
<1>8. AnsweredOnce'
  BY <1>4, <1>5 DEF OnceInv, AnsweredOnce
<1>9. AskedOnce'
  <2>1. ASSUME NEW i \in Asked', NEW j \in Asked', SameRequest(inbox'[i], inbox'[j])
        PROVE  i = j
    <3>1. CASE i \in Asked /\ inbox'[i] = inbox[i] /\ j \in Asked /\ inbox'[j] = inbox[j]
      BY <2>1, <3>1 DEF OnceInv, AskedOnce
    <3>2. CASE (i \in Asked /\ inbox'[i] = inbox[i] /\ inbox'[j] = c)
               \/ (inbox'[i] = c /\ j \in Asked /\ inbox'[j] = inbox[j])
      BY <1>7, <2>1, <3>2 DEF SameRequest
    <3> QED
      BY <1>6, <3>1, <3>2
  <2>2. ASSUME NEW i \in Asked'
        PROVE  /\ \A j \in PageEvents' : ~SameRequest(inbox'[i], events'[j])
               /\ parked' # NoCall => ~SameRequest(inbox'[i], parked')
    <3>1. CASE i \in Asked /\ inbox'[i] = inbox[i]
      BY <1>4, <1>5, <3>1 DEF OnceInv, AskedOnce
    <3>2. CASE inbox'[i] = c
      BY <1>4, <1>5, <1>7, <3>2
    <3> QED
      BY <1>6, <3>1, <3>2
  <2> QED
    BY <2>1, <2>2 DEF AskedOnce
<1>10. NumbersAreNew'
  <2>1. \A x : x.view \in Nat /\ x.gen \in Nat /\ NotFromLater(x) =>
               x.view < viewGen' \/ (x.view = viewGen' /\ x.gen <= opGen')
    BY <1>4, Numbers DEF NotFromLater
  <2>2. /\ \A i \in Asked : inbox[i].view \in Nat /\ inbox[i].gen \in Nat /\ NotFromLater(inbox[i])
        /\ \A i \in PageEvents : /\ events[i].view \in Nat /\ events[i].gen \in Nat
                                 /\ NotFromLater(events[i])
        /\ parked # NoCall => parked.view \in Nat /\ parked.gen \in Nat /\ NotFromLater(parked)
    BY Numbers DEF OnceInv, NumbersAreNew, Asked, PageEvents
  <2>3. c.view = viewGen' /\ c.gen <= opGen'
    BY <1>3, <1>4, Numbers
  <2>4. \A i \in Asked' :
           inbox'[i].view < viewGen' \/ (inbox'[i].view = viewGen' /\ inbox'[i].gen <= opGen')
    BY <1>6, <2>1, <2>2, <2>3
  <2> QED
    BY <1>4, <1>5, <2>1, <2>2, <2>4 DEF NumbersAreNew, NotFromLater
<1> QED
  BY <1>8, <1>9, <1>10 DEF OnceInv

\* Nothing is asked and nothing answered yet.
LEMMA InitOnce == WorkerInit => OnceInv
<1> SUFFICES ASSUME WorkerInit PROVE OnceInv
  OBVIOUS
<1>1. PageEvents = {} /\ Asked = {} /\ parked = NoCall
  BY DEF WorkerInit, PageEvents, Asked
<1> QED
  BY <1>1 DEF OnceInv, AnsweredOnce, AskedOnce, NumbersAreNew

\* Both halves of what the worker promises, preserved by every step.
THEOREM InvHolds == Spec => []Inv
<1>1. WorkerInit => OnceInv
  BY InitOnce
<1>2. WorkerTypeOK /\ OnceInv /\ [Next]_workerVars => OnceInv'
  BY BeginTaskOnce, FinishOpenOnce, FinishSortOnce, FetchPageOnce, IndexSliceOnce, ShutdownOnce,
     LoadOnce, RequestOnce, LeaveOnce, OutsideOnce DEF Next, WorkerNext
<1>3. ServiceInv /\ OnceInv => Inv
  BY DEF Inv
<1> QED
  BY <1>1, <1>2, <1>3, TypesHold, ServiceHolds, PTL DEF Spec

\* No request gets two answers, and none that is still parked has one already
\* (SourceWorker::first .. last and the end of indexSlice, which reset
\* m_pendingPageRequest before they answer).
THEOREM AnswersAreUnique == Spec => []AnsweredOnce
<1>1. Inv => AnsweredOnce
  BY DEF Inv, OnceInv
<1> QED
  BY <1>1, InvHolds, PTL

=============================================================================
