----------------------------- MODULE CopyProofs -----------------------------
(***************************************************************************)
(* Copying, for every table, budget, page and number of copies and loads:  *)
(* what reaches the clipboard is what was selected, within the budget, and *)
(* the user is told how much of it is cut off, through the inductive       *)
(* invariant IInv; and all types are kept, through IInv and Rest.          *)
(***************************************************************************)
EXTENDS CopyPipeline, FiniteSetTheorems, FunctionTheorems, TLAPS

-----------------------------------------------------------------------------
(* The inductive invariant.                                                *)

Task == [id : Nat, left : SUBSET Cell, results : SUBSET Result, bytes : Nat]

Typed ==
    /\ view \in View /\ paged \in BOOLEAN /\ page \in Seq(Row) /\ copyId \in Nat
    /\ kind \in {"sqlite", "csv"}
    /\ calls \in [View -> Seq([id : Nat, cells : SUBSET Cell])]
    /\ task \in [View -> Task \union {Idle}]
    /\ events \in Seq([view : View, id : Nat, results : SUBSET Result])

\* Cells selected on a page: one at a place.
OnePerPlace(cells) ==
    /\ cells \subseteq Cell
    /\ IsFiniteSet(cells)
    /\ \A c, d \in cells : c.at = d.at => c = d

\* The copy that waits is the last one, and has not written the clipboard.
PendingIsLast ==
    pending # NoCopy =>
        /\ pending.id = copyId
        /\ OnePerPlace(pending.cells)
        /\ clipboard.id < copyId

\* Requests and answers are of copies that have begun, and those of the copy that
\* waits are about its cells.
Answers(results, cells) == \A r \in results : [at |-> r.at, row |-> r.row] \in cells

Matches(id, cells, results) ==
    /\ id <= copyId
    /\ pending # NoCopy /\ id = pending.id =>
         cells \subseteq pending.cells /\ Answers(results, pending.cells)

CallsMatch == \A v \in View : \A k \in DOMAIN calls[v] :
    Matches(calls[v][k].id, calls[v][k].cells, {})

TasksMatch == \A v \in View : task[v] # Idle =>
    Matches(task[v].id, task[v].left, task[v].results)

EventsMatch == \A k \in DOMAIN events : Matches(events[k].id, {}, events[k].results)

\* Only a paged table has cells that are cut off.
WholeUnlessPaged == ~paged => \A i \in DOMAIN page : page[i] \notin Cut

ClipboardInv ==
    /\ clipboard.id \in 0..copyId
    /\ ClipboardIsSelection
    /\ CutTextsAreReported
    /\ ClipboardWithinBudget

IInv ==
    /\ Typed
    /\ PendingIsLast
    /\ PendingIsCurrent
    /\ CallsMatch
    /\ TasksMatch
    /\ EventsMatch
    /\ WholeUnlessPaged
    /\ ClipboardInv

-----------------------------------------------------------------------------
(* Cells, answers and texts.                                               *)

\* The cells selected on a page.
LEMMA SelectedType ==
    ASSUME page \in Seq(Row), NEW places \in SUBSET DOMAIN page
    PROVE  OnePerPlace({[at |-> i, row |-> page[i]] : i \in places})
<1> DEFINE cells == {[at |-> i, row |-> page[i]] : i \in places}
           f == [i \in places |-> [at |-> i, row |-> page[i]]]
<1>1. \A i \in places : i \in Nat \ {0} /\ page[i] \in Row
  OBVIOUS
<1>2. cells \subseteq Cell /\ \A c, d \in cells : c.at = d.at => c = d
  BY <1>1 DEF Cell
<1>3. IsFiniteSet(places)
  <2>1. Len(page) \in Nat /\ places \in SUBSET (1..Len(page))
    OBVIOUS
  <2> QED
    BY <2>1, FS_Interval, FS_Subset
<1>4. f \in Surjection(places, cells)
  BY DEF Surjection
<1> QED
  BY <1>2, <1>3, <1>4, FS_Surjection DEF OnePerPlace

\* The texts on display say what they are of.
LEMMA DisplayedType ==
    ASSUME NEW cells
    PROVE  /\ \A t \in Displayed(cells) : t.text.of = t.row
           /\ ToRefetch(cells) = {} => {t \in Displayed(cells) : ~t.text.whole} = {}
<1>1. ASSUME NEW t \in Displayed(cells)
      PROVE  t.text.of = t.row /\ (ToRefetch(cells) = {} => t.text.whole)
  <2>1. PICK c \in cells :
          t = [at |-> c.at, row |-> c.row, text |-> [of |-> c.row, whole |-> c.row \notin Cut]]
    BY DEF Displayed
  <2>2. t.row = c.row /\ t.text.of = c.row /\ (t.text.whole <=> c.row \notin Cut)
    BY <2>1
  <2> QED
    BY <2>2 DEF ToRefetch
<1> QED
  BY <1>1

\* An answer about the place of a cell is about its row.
LEMMA FinalTextType ==
    ASSUME NEW cells, OnePerPlace(cells), NEW results \in SUBSET Result,
           Answers(results, cells), NEW c \in cells
    PROVE  /\ FinalText(c, results).of = c.row
           /\ ~FinalText(c, results).whole <=> c.row \in Cut /\ Refreshed(c, results) = {}
<1> SUFFICES ASSUME NEW t, t = FinalText(c, results)
             PROVE  t.of = c.row /\ (~t.whole <=> c.row \in Cut /\ Refreshed(c, results) = {})
  OBVIOUS
<1>1. CASE Refreshed(c, results) = {}
  <2> DEFINE w == c.row \notin Cut
  <2>1. t = [of |-> c.row, whole |-> w]
    BY <1>1 DEF FinalText
  <2> HIDE DEF w
  <2>2. t.of = c.row /\ t.whole = w
    BY <2>1
  <2>3. t.whole <=> c.row \notin Cut
    BY <2>2 DEF w
  <2> QED
    BY <1>1, <2>2, <2>3
<1>2. CASE Refreshed(c, results) # {}
  <2> DEFINE r == CHOOSE x \in Refreshed(c, results) : TRUE
  <2>1. r \in Refreshed(c, results)
    BY <1>2
  <2> HIDE DEF r
  <2>2. r \in results /\ r.at = c.at /\ r.outcome = "ok" /\ c.row \in Cut
    BY <2>1 DEF Refreshed
  <2>3. [at |-> r.at, row |-> r.row] \in cells
    BY <2>2 DEF Answers
  <2>4. r.row = c.row
    BY <2>2, <2>3 DEF OnePerPlace
  <2> DEFINE w == r.outcome = "ok"
  <2>5. t = [of |-> r.row, whole |-> w]
    BY <1>2 DEF FinalText, r
  <2> HIDE DEF w
  <2>6. t.of = r.row /\ t.whole = w
    BY <2>5
  <2>7. t.whole
    BY <2>2, <2>6 DEF w
  <2> QED
    BY <1>2, <2>2, <2>4, <2>6, <2>7
<1> QED
  BY <1>1, <1>2

\* As many texts are cut off as rows are counted as failed.
LEMMA CutTextsCounted ==
    ASSUME NEW cells, OnePerPlace(cells), NEW results \in SUBSET Result,
           Answers(results, cells)
    PROVE  /\ \A t \in FinalTexts(cells, results) : t.text.of = t.row
           /\ Cardinality({t \in FinalTexts(cells, results) : ~t.text.whole})
                = FailedRows(cells, results)
<1> DEFINE text(c) == [at |-> c.at, row |-> c.row, text |-> FinalText(c, results)]
           failed == {c \in cells : c.row \in Cut /\ Refreshed(c, results) = {}}
           cut == {t \in FinalTexts(cells, results) : ~t.text.whole}
           f == [c \in failed |-> text(c)]
<1>1. \A c \in cells : /\ FinalText(c, results).of = c.row
                       /\ ~FinalText(c, results).whole <=> c \in failed
  BY FinalTextType
<1>2. IsFiniteSet(failed)
  BY FS_Subset DEF OnePerPlace
<1>3. \A t \in FinalTexts(cells, results) : t.text.of = t.row
  BY <1>1 DEF FinalTexts
<1>4. f \in [failed -> cut]
  BY <1>1 DEF FinalTexts
<1>5. \A a, b \in failed : f[a] = f[b] => a = b
  BY DEF OnePerPlace
<1>6. \A t \in cut : \E c \in failed : f[c] = t
  BY <1>1 DEF FinalTexts
<1>7. f \in Bijection(failed, cut)
  BY <1>4, <1>5, <1>6, Fun_IsBij
<1>8. Cardinality(cut) = Cardinality(failed)
  BY <1>2, <1>7, FS_Bijection DEF ExistsBijection
<1> QED
  BY <1>3, <1>8 DEF FailedRows

-----------------------------------------------------------------------------
(* The steps of a worker.                                                  *)

LEMMA HeadTail ==
    ASSUME NEW S, NEW s \in Seq(S), s # <<>>
    PROVE  /\ 1 \in DOMAIN s /\ s[1] = Head(s) /\ s[1] \in S
           /\ Tail(s) \in Seq(S)
           /\ \A k \in DOMAIN Tail(s) : k + 1 \in DOMAIN s /\ Tail(s)[k] = s[k + 1]
OBVIOUS

LEMMA ElementType ==
    ASSUME NEW S, NEW s \in Seq(S), NEW k \in DOMAIN s
    PROVE  s[k] \in S
OBVIOUS

\* What an invariant state says of a worker, and what its steps leave alone.
LEMMA WorkerType ==
    ASSUME IInv, NEW v \in View
    PROVE  /\ calls \in [View -> Seq([id : Nat, cells : SUBSET Cell])]
           /\ task \in [View -> Task \union {Idle}]
           /\ task[v] # Idle => /\ task[v] \in Task
                                /\ Matches(task[v].id, task[v].left, task[v].results)
           /\ calls[v] \in Seq([id : Nat, cells : SUBSET Cell])
           /\ \A k \in DOMAIN calls[v] : Matches(calls[v][k].id, calls[v][k].cells, {})
BY DEF IInv, Typed, TasksMatch, CallsMatch

LEMMA GuiKept ==
    ASSUME IInv, UNCHANGED <<guiVars, tableVars>>,
           calls' \in [View -> Seq([id : Nat, cells : SUBSET Cell])],
           task' \in [View -> Task \union {Idle}],
           events' \in Seq([view : View, id : Nat, results : SUBSET Result]),
           CallsMatch', TasksMatch', EventsMatch'
    PROVE  IInv'
BY DEF IInv, guiVars, tableVars, Typed, PendingIsLast, PendingIsCurrent, WholeUnlessPaged,
       ClipboardInv, ClipboardIsSelection, CutTextsAreReported, ClipboardWithinBudget

\* An answer is emitted.
LEMMA EmitInv ==
    ASSUME IInv, NEW v \in View, NEW id \in Nat, NEW results \in SUBSET Result,
           Matches(id, {}, results), Emit(v, id, results), UNCHANGED <<copyId, pending>>
    PROVE  /\ events' \in Seq([view : View, id : Nat, results : SUBSET Result])
           /\ EventsMatch'
<1> DEFINE e == [view |-> v, id |-> id, results |-> results]
<1>1. events \in Seq([view : View, id : Nat, results : SUBSET Result]) /\ EventsMatch
  BY DEF IInv, Typed
<1>2. e \in [view : View, id : Nat, results : SUBSET Result] /\ e.id = id /\ e.results = results
  OBVIOUS
<1>3. events' = Append(events, e)
  BY DEF Emit
<1> HIDE DEF e
<1>4. /\ events' \in Seq([view : View, id : Nat, results : SUBSET Result])
      /\ \A k \in DOMAIN events' :
           (k \in DOMAIN events /\ events'[k] = events[k]) \/ events'[k] = e
  BY <1>1, <1>2, <1>3
<1> QED
  BY <1>1, <1>2, <1>4 DEF EventsMatch, Matches, Answers

\* Nothing is emitted.
LEMMA EventsUnchanged ==
    ASSUME IInv, UNCHANGED <<copyId, pending, events>>
    PROVE  /\ events' \in Seq([view : View, id : Nat, results : SUBSET Result])
           /\ EventsMatch'
BY DEF IInv, Typed, EventsMatch, Matches, Answers

LEMMA BeginRefetchInv ==
    ASSUME IInv, NEW v \in View, BeginRefetch(v)
    PROVE  IInv'
<1> DEFINE call == Head(calls[v])
           t == [id |-> call.id, left |-> call.cells, results |-> {}, bytes |-> 0]
<1>1. /\ calls[v] \in Seq([id : Nat, cells : SUBSET Cell]) /\ calls[v] # <<>>
      /\ UNCHANGED <<guiVars, tableVars, copyId, pending>>
      /\ calls \in [View -> Seq([id : Nat, cells : SUBSET Cell])]
      /\ task \in [View -> Task \union {Idle}]
      /\ calls' = [calls EXCEPT ![v] = Tail(@)]
      /\ CallsMatch /\ TasksMatch
  BY WorkerType DEF BeginRefetch, guiVars, IInv
<1>2. 1 \in DOMAIN calls[v] /\ calls[v][1] = call
  BY <1>1
<1>3. call.id \in Nat /\ call.cells \in SUBSET Cell /\ Matches(call.id, call.cells, {})
  <2>1. calls[v][1] \in [id : Nat, cells : SUBSET Cell]
    BY <1>1, HeadTail
  <2>2. Matches(calls[v][1].id, calls[v][1].cells, {})
    BY <1>2, WorkerType
  <2> QED
    BY <1>2, <2>1, <2>2
<1>4. /\ Tail(calls[v]) \in Seq([id : Nat, cells : SUBSET Cell])
      /\ \A k \in DOMAIN Tail(calls[v]) :
           k + 1 \in DOMAIN calls[v] /\ Tail(calls[v])[k] = calls[v][k + 1]
  BY <1>1
<1>5. calls' \in [View -> Seq([id : Nat, cells : SUBSET Cell])]
  BY <1>1, <1>4
<1>6. CallsMatch'
  BY <1>1, <1>4 DEF CallsMatch, Matches, Answers
<1>7. t \in Task /\ t.id = call.id /\ t.left = call.cells /\ t.results = {}
  BY <1>3 DEF Task
<1> HIDE DEF call, t
<1>8. CASE Emit(v, call.id, {}) /\ UNCHANGED task
  <2>1. Matches(call.id, {}, {})
    BY <1>3 DEF Matches
  <2>2. TasksMatch'
    BY <1>1, <1>8 DEF TasksMatch, Matches, Answers
  <2>3. /\ events' \in Seq([view : View, id : Nat, results : SUBSET Result])
        /\ EventsMatch'
    <3>1. {} \in SUBSET Result
      OBVIOUS
    <3> QED
      BY <1>1, <1>3, <1>8, <2>1, <3>1, EmitInv
  <2>4. task' \in [View -> Task \union {Idle}]
    BY <1>1, <1>8
  <2> QED
    BY <1>1, <1>5, <1>6, <2>2, <2>3, <2>4, GuiKept
<1>9. CASE task' = [task EXCEPT ![v] = t] /\ UNCHANGED events
  <2>1. task' \in [View -> Task \union {Idle}]
    BY <1>1, <1>7, <1>9
  <2>2. TasksMatch'
    BY <1>1, <1>3, <1>7, <1>9 DEF TasksMatch, Matches, Answers
  <2> QED
    BY <1>1, <1>5, <1>6, <1>9, <2>1, <2>2, EventsUnchanged, GuiKept
<1> QED
  BY <1>8, <1>9 DEF BeginRefetch, call, t

\* A worker that goes idle.
LEMMA QuitsInv ==
    ASSUME IInv, NEW v \in View, Quits(v), UNCHANGED <<copyId, pending>>
    PROVE  task' \in [View -> Task \union {Idle}] /\ TasksMatch'
<1>1. task \in [View -> Task \union {Idle}] /\ TasksMatch
  BY DEF IInv, Typed
<1> QED
  BY <1>1 DEF Quits, TasksMatch, Matches, Answers

\* The calls a worker has not begun.
LEMMA CallsUnchanged ==
    ASSUME IInv, UNCHANGED <<copyId, pending, calls>>
    PROVE  /\ calls' \in [View -> Seq([id : Nat, cells : SUBSET Cell])]
           /\ CallsMatch'
BY DEF IInv, Typed, CallsMatch, Matches, Answers

LEMMA RefetchRowInv ==
    ASSUME IInv, NEW v \in View, RefetchRow(v)
    PROVE  IInv'
<1> DEFINE t == task[v]
<1>1. /\ t \in Task /\ Matches(t.id, t.left, t.results)
      /\ UNCHANGED <<guiVars, tableVars, copyId, pending, calls>>
      /\ task \in [View -> Task \union {Idle}] /\ TasksMatch
  BY WorkerType DEF RefetchRow, guiVars, IInv
<1>2. t.id \in Nat /\ t.left \in SUBSET Cell /\ t.results \in SUBSET Result /\ t.bytes \in Nat
  BY <1>1 DEF Task
<1>3. CASE Emit(v, t.id, {}) /\ Quits(v)
  <2>1. Matches(t.id, {}, {})
    BY <1>1 DEF Matches, Answers
  <2>2. /\ events' \in Seq([view : View, id : Nat, results : SUBSET Result])
        /\ EventsMatch'
    <3>1. {} \in SUBSET Result
      OBVIOUS
    <3> QED
      BY <1>1, <1>2, <1>3, <2>1, <3>1, EmitInv
  <2>3. task' \in [View -> Task \union {Idle}] /\ TasksMatch'
    BY <1>1, <1>3, QuitsInv
  <2>4. calls' \in [View -> Seq([id : Nat, cells : SUBSET Cell])] /\ CallsMatch'
    BY <1>1, CallsUnchanged
  <2> QED
    BY <1>1, <2>2, <2>3, <2>4, GuiKept
<1>4. ASSUME NEW cell \in t.left,
             NEW outcome \in {"ok", "failed", "budget"},
             task' = [task EXCEPT ![v] = Fetch(t, cell, outcome)], UNCHANGED events
      PROVE  IInv'
  <2> DEFINE q == Fetch(t, cell, outcome)
  <2>1. task' = [task EXCEPT ![v] = q]
    BY <1>4
  <2>2. cell \in Cell /\ cell.at \in Nat \ {0} /\ cell.row \in Row
    BY <1>2, <1>4 DEF Cell
  <2>3. Fetched(cell.row) \in Nat
    BY <2>2, CopyAssumption DEF Fetched
  <2>4. Answer(cell, outcome) \in Result
    BY <2>2 DEF Answer, Result
  <2>5. q \in Task /\ q.id = t.id /\ q.left = t.left \ {cell}
        /\ q.results = t.results \union {Answer(cell, outcome)}
    <3>1. (IF outcome = "ok" THEN t.bytes + Fetched(cell.row) ELSE t.bytes) \in Nat
      BY <1>2, <2>3
    <3>2. t.left \ {cell} \in SUBSET Cell
      BY <1>2
    <3>3. t.results \union {Answer(cell, outcome)} \in SUBSET Result
      BY <1>2, <2>4
    <3> QED
      BY <1>1, <3>1, <3>2, <3>3 DEF Task, Fetch
  <2> HIDE DEF q
  <2>6. Matches(q.id, q.left, q.results)
    <3>1. [at |-> Answer(cell, outcome).at, row |-> Answer(cell, outcome).row] = cell
      BY <2>2 DEF Answer, Cell
    <3> QED
      BY <1>1, <1>4, <2>5, <3>1 DEF Matches, Answers
  <2> HIDE DEF t
  <2>7. task' \in [View -> Task \union {Idle}]
    BY <1>1, <2>1, <2>5
  <2>8. TasksMatch'
    BY <1>1, <2>1, <2>6 DEF TasksMatch, Matches, Answers
  <2> QED
    BY <1>1, <1>4, <2>7, <2>8, EventsUnchanged, CallsUnchanged, GuiKept
<1>5. CASE \E cell \in t.left :
             \E outcome \in IF OverBudget(t) THEN {"budget"} ELSE Outcomes(cell.row) :
               task' = [task EXCEPT ![v] = Fetch(t, cell, outcome)] /\ UNCHANGED events
  <2>1. \A row : Outcomes(row) \subseteq {"ok", "failed", "budget"}
    BY DEF Outcomes
  <2>2. \E cell \in t.left : \E outcome \in {"ok", "failed", "budget"} :
          task' = [task EXCEPT ![v] = Fetch(t, cell, outcome)] /\ UNCHANGED events
    BY <1>5, <2>1
  <2> QED
    BY <1>4, <2>2
<1> QED
  BY <1>3, <1>5 DEF RefetchRow

LEMMA FinishRefetchInv ==
    ASSUME IInv, NEW v \in View, FinishRefetch(v)
    PROVE  IInv'
<1> DEFINE t == task[v]
<1>1. /\ t \in Task /\ Matches(t.id, t.left, t.results)
      /\ UNCHANGED <<guiVars, tableVars, copyId, pending, calls>> /\ Quits(v)
  BY WorkerType DEF FinishRefetch, guiVars
<1>2. t.id \in Nat /\ t.results \in SUBSET Result
  BY <1>1 DEF Task
<1>3. Batch(t) \in SUBSET Result /\ Matches(t.id, {}, Batch(t))
  <2>1. \A r \in t.results :
          LET s == [r EXCEPT !.outcome = "budget"]
          IN  s \in Result /\ s.at = r.at /\ s.row = r.row
    BY <1>2 DEF Result
  <2>2. {[r EXCEPT !.outcome = "budget"] : r \in t.results} \in SUBSET Result
    BY <2>1
  <2>3. Batch(t) \in SUBSET Result
    BY <1>2, <2>2 DEF Batch
  <2>4. ASSUME NEW cells, Answers(t.results, cells)
        PROVE  Answers(Batch(t), cells)
    BY <2>1, <2>4 DEF Answers, Batch
  <2> QED
    BY <1>1, <2>3, <2>4 DEF Matches
<1>4. /\ events' \in Seq([view : View, id : Nat, results : SUBSET Result])
      /\ EventsMatch'
  BY <1>1, <1>2, <1>3, EmitInv, EventsUnchanged DEF FinishRefetch
<1> QED
  BY <1>1, <1>4, QuitsInv, CallsUnchanged, GuiKept

-----------------------------------------------------------------------------
(* The steps of the GUI thread.                                            *)

\* The copy that waits goes on waiting or is forgotten.
LEMMA MatchesKept ==
    ASSUME IInv, copyId' = copyId, pending' = pending \/ pending' = NoCopy,
           UNCHANGED <<calls, task>>,
           events' = events \/ (events # <<>> /\ events' = Tail(events))
    PROVE  /\ calls' \in [View -> Seq([id : Nat, cells : SUBSET Cell])] /\ CallsMatch'
           /\ task' \in [View -> Task \union {Idle}] /\ TasksMatch'
           /\ events' \in Seq([view : View, id : Nat, results : SUBSET Result])
           /\ EventsMatch'
<1>1. /\ calls \in [View -> Seq([id : Nat, cells : SUBSET Cell])] /\ CallsMatch
      /\ task \in [View -> Task \union {Idle}] /\ TasksMatch
      /\ events \in Seq([view : View, id : Nat, results : SUBSET Result]) /\ EventsMatch
  BY DEF IInv, Typed
<1>2. CallsMatch' /\ TasksMatch'
  BY <1>1 DEF CallsMatch, TasksMatch, Matches, Answers
<1>3. /\ events' \in Seq([view : View, id : Nat, results : SUBSET Result])
      /\ \A k \in DOMAIN events' : \E l \in DOMAIN events : events'[k] = events[l]
  <2>1. CASE events' = events
    BY <1>1, <2>1
  <2>2. CASE events # <<>> /\ events' = Tail(events)
    BY <1>1, <2>2, HeadTail
  <2> QED
    BY <2>1, <2>2
<1>4. EventsMatch'
  BY <1>1, <1>3 DEF EventsMatch, Matches, Answers
<1> QED
  BY <1>1, <1>2, <1>3, <1>4

\* The page, the table or its source changes.
LEMMA TableStep ==
    ASSUME IInv, UNCHANGED <<copyId, clipboard, notice, calls, task, events>>,
           pending' = NoCopy \/ UNCHANGED <<pending, paged, view>>,
           view' \in View, paged' \in BOOLEAN, page' \in Seq(Row), kind' \in {"sqlite", "csv"},
           WholeUnlessPaged'
    PROVE  IInv'
<1>1. copyId \in Nat /\ PendingIsLast /\ PendingIsCurrent /\ ClipboardInv
  BY DEF IInv, Typed
<1>2. /\ calls' \in [View -> Seq([id : Nat, cells : SUBSET Cell])] /\ CallsMatch'
      /\ task' \in [View -> Task \union {Idle}] /\ TasksMatch'
      /\ events' \in Seq([view : View, id : Nat, results : SUBSET Result])
      /\ EventsMatch'
  BY MatchesKept
<1>3. Typed'
  BY <1>1, <1>2 DEF Typed
<1>4. PendingIsLast' /\ PendingIsCurrent'
  BY <1>1 DEF PendingIsLast, PendingIsCurrent, OnePerPlace
<1>5. ClipboardInv'
  BY <1>1 DEF ClipboardInv, ClipboardIsSelection, CutTextsAreReported, ClipboardWithinBudget
<1> QED
  BY <1>2, <1>3, <1>4, <1>5 DEF IInv

LEMMA TableStepsInv ==
    ASSUME IInv,
           ShowPage \/ LoadTable \/ LeaveTable \/ ShowParsed \/ Reopen \/ DeleteRow
    PROVE  IInv'
<1>1. /\ view \in View /\ paged \in BOOLEAN /\ page \in Seq(Row) /\ kind \in {"sqlite", "csv"}
      /\ WholeUnlessPaged
  BY DEF IInv, Typed
<1>2. view < MaxView => view + 1 \in View
  BY <1>1, CopyAssumption DEF View
<1>3. CASE ShowPage
  <2>1. page' \in Seq(Row) /\ UNCHANGED <<view, paged, pending, kind>> /\ paged
    BY <1>3, CopyAssumption DEF ShowPage, tableVars
  <2>2. UNCHANGED <<copyId, clipboard, notice, calls, task, events>>
    BY <1>3 DEF ShowPage
  <2> QED
    BY <1>1, <2>1, <2>2, TableStep DEF WholeUnlessPaged
<1>4. CASE LoadTable
  <2>1. /\ view' \in View /\ paged' = TRUE /\ page' = <<>> /\ pending' = NoCopy
        /\ kind' \in {"sqlite", "csv"}
        /\ UNCHANGED <<copyId, clipboard, notice, calls, task, events>>
    BY <1>2, <1>4 DEF LoadTable, Forget
  <2>2. page' \in Seq(Row) /\ WholeUnlessPaged'
    BY <2>1 DEF WholeUnlessPaged
  <2> QED
    BY <2>1, <2>2, TableStep
<1>5. CASE LeaveTable
  <2>1. /\ view' \in View /\ paged' = FALSE /\ page' = <<>> /\ pending' = NoCopy
        /\ kind' = kind
        /\ UNCHANGED <<copyId, clipboard, notice, calls, task, events>>
    BY <1>2, <1>5 DEF LeaveTable, Forget
  <2>2. page' \in Seq(Row) /\ WholeUnlessPaged'
    BY <2>1 DEF WholeUnlessPaged
  <2> QED
    BY <1>1, <2>1, <2>2, TableStep
<1>6. CASE ShowParsed
  <2>1. /\ page' \in Seq(Row) /\ WholeUnlessPaged' /\ pending' = NoCopy
        /\ UNCHANGED <<view, paged, kind>>
        /\ UNCHANGED <<copyId, clipboard, notice, calls, task, events>>
    BY <1>6, CopyAssumption DEF ShowParsed, WholeUnlessPaged, tableVars
  <2> QED
    BY <1>1, <2>1, TableStep
<1>7. CASE Reopen \/ DeleteRow
  <2>1. /\ UNCHANGED <<view, paged, page, pending, kind>>
        /\ UNCHANGED <<copyId, clipboard, notice, calls, task, events>>
    BY <1>7 DEF Reopen, DeleteRow, guiVars
  <2>2. WholeUnlessPaged'
    BY <1>1, <2>1 DEF WholeUnlessPaged
  <2> QED
    BY <1>1, <2>1, <2>2, TableStep
<1> QED
  BY <1>3, <1>4, <1>5, <1>6, <1>7

\* Nothing that is under way is of the copy that begins.
LEMMA CopyStarts ==
    ASSUME IInv, copyId' = copyId + 1, UNCHANGED <<view, paged, page, kind, task, events>>,
           NEW cells, OnePerPlace(cells), NEW markdown,
           \/ pending' = NoCopy /\ UNCHANGED calls
           \/ paged /\ AskForRows(cells, markdown),
           ClipboardInv'
    PROVE  IInv'
<1>1. /\ view \in View /\ copyId \in Nat /\ paged \in BOOLEAN /\ page \in Seq(Row)
      /\ kind \in {"sqlite", "csv"}
      /\ calls \in [View -> Seq([id : Nat, cells : SUBSET Cell])] /\ CallsMatch
      /\ task \in [View -> Task \union {Idle}] /\ TasksMatch
      /\ events \in Seq([view : View, id : Nat, results : SUBSET Result]) /\ EventsMatch
      /\ WholeUnlessPaged /\ clipboard.id \in 0..copyId
  BY DEF IInv, Typed, ClipboardInv
<1>2. copyId' \in Nat /\ copyId < copyId'
  BY <1>1
<1>3. WholeUnlessPaged'
  BY <1>1 DEF WholeUnlessPaged
<1>4. /\ \A v \in View : \A k \in DOMAIN calls[v] : calls[v][k].id \in 0..copyId
      /\ \A v \in View : task[v] # Idle => task[v].id \in 0..copyId
      /\ \A k \in DOMAIN events : events[k].id \in 0..copyId
  <2>1. ASSUME NEW v \in View, NEW k \in DOMAIN calls[v]
        PROVE  calls[v][k].id \in 0..copyId
    <3>1. calls[v][k] \in [id : Nat, cells : SUBSET Cell]
      <4>1. calls[v] \in Seq([id : Nat, cells : SUBSET Cell])
        BY <1>1
      <4> QED
        BY <4>1, ElementType
    <3> QED
      BY <1>1, <3>1 DEF CallsMatch, Matches
  <2>2. ASSUME NEW v \in View, task[v] # Idle
        PROVE  task[v].id \in 0..copyId
    <3>1. task[v] \in Task
      BY <1>1, <2>2
    <3> QED
      BY <1>1, <2>2, <3>1 DEF TasksMatch, Matches, Task
  <2>3. ASSUME NEW k \in DOMAIN events
        PROVE  events[k].id \in 0..copyId
    <3>1. events[k] \in [view : View, id : Nat, results : SUBSET Result]
      BY <1>1, ElementType
    <3> QED
      BY <1>1, <3>1 DEF EventsMatch, Matches
  <2> QED
    BY <2>1, <2>2, <2>3
<1>5. pending' # NoCopy => pending'.id = copyId'
  BY DEF AskForRows
<1>6. \A id \in 0..copyId : id <= copyId' /\ ~(pending' # NoCopy /\ id = pending'.id)
  BY <1>1, <1>2, <1>5
<1>7. TasksMatch' /\ EventsMatch'
  BY <1>4, <1>6 DEF TasksMatch, EventsMatch, Matches
<1>8. CASE pending' = NoCopy /\ UNCHANGED calls
  <2>1. CallsMatch'
    BY <1>4, <1>8, <1>6 DEF CallsMatch, Matches
  <2>2. PendingIsLast' /\ PendingIsCurrent'
    BY <1>8 DEF PendingIsLast, PendingIsCurrent
  <2>3. Typed'
    BY <1>1, <1>2, <1>8 DEF Typed
  <2> QED
    BY <1>3, <1>7, <2>1, <2>2, <2>3 DEF IInv
<1>9. CASE paged /\ AskForRows(cells, markdown)
  <2> DEFINE call == [id |-> copyId', cells |-> ToRefetch(cells)]
  <2>1. /\ pending' = [id |-> copyId', markdown |-> markdown, cells |-> cells, view |-> view]
        /\ calls' = [calls EXCEPT ![view] = Append(@, call)] /\ UNCHANGED clipboard
    BY <1>9 DEF AskForRows
  <2>2. pending'.id = copyId' /\ pending'.cells = cells /\ pending'.view = view
    BY <2>1
  <2>3. PendingIsLast' /\ PendingIsCurrent'
    BY <1>1, <1>2, <1>9, <2>1, <2>2 DEF PendingIsLast, PendingIsCurrent
  <2>5. call \in [id : Nat, cells : SUBSET Cell] /\ call.id = copyId' /\ call.cells \subseteq cells
    BY <1>2 DEF ToRefetch, OnePerPlace
  <2> HIDE DEF call
  <2>6. calls[view] \in Seq([id : Nat, cells : SUBSET Cell])
    BY <1>1
  <2>7. /\ Append(calls[view], call) \in Seq([id : Nat, cells : SUBSET Cell])
        /\ \A k \in DOMAIN Append(calls[view], call) :
             \/ k \in DOMAIN calls[view] /\ Append(calls[view], call)[k] = calls[view][k]
             \/ Append(calls[view], call)[k] = call
    BY <2>5, <2>6
  <2>8. calls' \in [View -> Seq([id : Nat, cells : SUBSET Cell])]
    BY <1>1, <2>1, <2>7
  <2>9. \A v \in View : \A k \in DOMAIN calls'[v] :
          (k \in DOMAIN calls[v] /\ calls'[v][k] = calls[v][k]) \/ calls'[v][k] = call
    BY <1>1, <2>1, <2>7
  <2>10. CallsMatch'
    <3>1. copyId' <= copyId'
      BY <1>2
    <3> QED
      BY <1>4, <1>6, <2>2, <2>5, <2>9, <3>1 DEF CallsMatch, Matches, Answers
  <2>11. Typed'
    BY <1>1, <1>2, <2>8 DEF Typed
  <2> QED
    BY <1>3, <1>7, <2>3, <2>10, <2>11 DEF IInv
<1> QED
  BY <1>8, <1>9

\* The clipboard keeps its contents, or has those of the last copy.
LEMMA ClipboardKept ==
    ASSUME IInv, copyId' = copyId + 1, UNCHANGED clipboard
    PROVE  ClipboardInv'
<1>1. copyId \in Nat /\ ClipboardInv
  BY DEF IInv, Typed
<1>2. clipboard.id \in 0..copyId' /\ clipboard.id # copyId'
  BY <1>1 DEF ClipboardInv
<1> QED
  BY <1>1, <1>2
     DEF ClipboardInv, ClipboardIsSelection, CutTextsAreReported, ClipboardWithinBudget

LEMMA ClipboardWritten ==
    ASSUME copyId' \in Nat, NEW texts, NEW markdown, WriteClipboard(texts, markdown),
           Fits(texts, markdown), \A t \in texts : t.text.of = t.row,
           notice' = Cardinality({t \in texts : ~t.text.whole})
    PROVE  ClipboardInv' /\ pending' = NoCopy
<1>1. /\ clipboard'.id = copyId' /\ clipboard'.markdown = markdown /\ clipboard'.texts = texts
      /\ pending' = NoCopy
  BY DEF WriteClipboard
<1> QED
  BY <1>1
     DEF ClipboardInv, ClipboardIsSelection, CutTextsAreReported, ClipboardWithinBudget, Fits

LEMMA CopyInv ==
    ASSUME IInv, Copy
    PROVE  IInv'
<1>1. /\ page \in Seq(Row) /\ copyId' = copyId + 1 /\ copyId' \in Nat /\ WholeUnlessPaged
      /\ UNCHANGED <<view, paged, page, kind, task, events>>
  BY DEF Copy, IInv, Typed, tableVars
<1>2. PICK places \in SUBSET DOMAIN page, markdown \in BOOLEAN :
        LET cells == {[at |-> i, row |-> page[i]] : i \in places}
            cut == paged /\ ToRefetch(cells) # {}
        IN  \/ TooMuchToStart(cells) /\ RefuseCopy /\ UNCHANGED calls
            \/ ~TooMuchToStart(cells) /\ ~cut /\ CopyDirectly(cells, markdown) /\ UNCHANGED calls
            \/ ~TooMuchToStart(cells) /\ cut /\ AskForRows(cells, markdown)
  BY DEF Copy
<1> DEFINE cells == {[at |-> i, row |-> page[i]] : i \in places}
<1>3. OnePerPlace(cells)
  BY <1>1, SelectedType
<1>4. ~paged => ToRefetch(cells) = {}
  BY <1>1 DEF ToRefetch, WholeUnlessPaged
<1>5. \/ RefuseCopy /\ UNCHANGED calls
      \/ ToRefetch(cells) = {} /\ CopyDirectly(cells, markdown) /\ UNCHANGED calls
      \/ paged /\ AskForRows(cells, markdown)
  BY <1>2, <1>4
<1> HIDE DEF cells
<1>6. CASE RefuseCopy /\ UNCHANGED calls
  <2>1. pending' = NoCopy /\ UNCHANGED clipboard
    BY <1>6 DEF RefuseCopy
  <2>2. ClipboardInv'
    BY <1>1, <2>1, ClipboardKept
  <2> QED
    BY <1>1, <1>3, <1>6, <2>1, <2>2, CopyStarts
<1>7. CASE ToRefetch(cells) = {} /\ CopyDirectly(cells, markdown) /\ UNCHANGED calls
  <2>1. CASE RefuseCopy
    BY <1>6, <1>7, <2>1
  <2>2. CASE /\ Fits(Displayed(cells), markdown) /\ WriteClipboard(Displayed(cells), markdown)
             /\ notice' = 0
    <3>1. /\ \A t \in Displayed(cells) : t.text.of = t.row
          /\ {t \in Displayed(cells) : ~t.text.whole} = {}
      BY <1>7, DisplayedType
    <3>2. notice' = Cardinality({t \in Displayed(cells) : ~t.text.whole})
      BY <2>2, <3>1, FS_EmptySet
    <3>3. ClipboardInv' /\ pending' = NoCopy
      BY <1>1, <2>2, <3>1, <3>2, ClipboardWritten
    <3> QED
      BY <1>1, <1>3, <1>7, <3>3, CopyStarts
  <2> QED
    BY <1>7, <2>1, <2>2 DEF CopyDirectly
<1>8. CASE paged /\ AskForRows(cells, markdown)
  <2>1. UNCHANGED clipboard
    BY <1>8 DEF AskForRows
  <2>2. ClipboardInv'
    BY <1>1, <2>1, ClipboardKept
  <2> QED
    BY <1>1, <1>3, <1>8, <2>2, CopyStarts
<1> QED
  BY <1>5, <1>6, <1>7, <1>8

\* The answer to the copy that waits is about its cells.
LEMMA OnRefetchRowsCompletedInv ==
    ASSUME IInv, OnRefetchRowsCompleted
    PROVE  IInv'
<1> DEFINE e == Head(events)
           results == IF e.view = view THEN e.results ELSE {}
<1>1. /\ events \in Seq([view : View, id : Nat, results : SUBSET Result]) /\ events # <<>>
      /\ events' = Tail(events)
      /\ view \in View /\ paged \in BOOLEAN /\ page \in Seq(Row) /\ copyId \in Nat
      /\ kind \in {"sqlite", "csv"}
      /\ UNCHANGED <<view, paged, page, kind, calls, task, copyId>>
      /\ EventsMatch /\ PendingIsLast /\ PendingIsCurrent /\ WholeUnlessPaged /\ ClipboardInv
  BY DEF OnRefetchRowsCompleted, IInv, Typed, tableVars
<1>2. 1 \in DOMAIN events /\ events[1] = e /\ e \in [view : View, id : Nat, results : SUBSET Result]
  <2> DEFINE S == [view : View, id : Nat, results : SUBSET Result]
  <2>1. events \in Seq(S) /\ events # <<>>
    BY <1>1
  <2> HIDE DEF S
  <2>2. 1 \in DOMAIN events /\ events[1] = e /\ events[1] \in S
    BY <2>1, HeadTail
  <2> QED
    BY <2>2 DEF S
<1>3. Matches(e.id, {}, e.results)
  BY <1>1, <1>2 DEF EventsMatch
<1>4. results \in SUBSET Result
  BY <1>2
<1>5. Awaited(e.id) => OnePerPlace(pending.cells) /\ Answers(results, pending.cells)
  BY <1>1, <1>3 DEF Awaited, Matches, Answers, PendingIsLast
<1>6. UNCHANGED <<pending, clipboard, notice>> \/ CompleteCopy(e.id, results)
  BY DEF OnRefetchRowsCompleted
<1> HIDE DEF e, results
<1>7. \/ UNCHANGED <<pending, clipboard, notice>>
      \/ /\ pending' = NoCopy /\ UNCHANGED clipboard
         /\ Awaited(e.id) /\ notice' = -1
      \/ /\ Awaited(e.id)
         /\ Fits(FinalTexts(pending.cells, results), pending.markdown)
         /\ WriteClipboard(FinalTexts(pending.cells, results), pending.markdown)
         /\ notice' = FailedRows(pending.cells, results)
  BY <1>6 DEF CompleteCopy, RefuseCopy
<1>8. ClipboardInv' /\ (pending' = pending \/ pending' = NoCopy)
      /\ (pending' = NoCopy \/ UNCHANGED clipboard)
  <2>1. CASE UNCHANGED <<pending, clipboard, notice>>
    BY <1>1, <2>1
       DEF ClipboardInv, ClipboardIsSelection, CutTextsAreReported, ClipboardWithinBudget
  <2>2. CASE pending' = NoCopy /\ UNCHANGED clipboard /\ Awaited(e.id)
    <3>1. clipboard.id # copyId
      BY <1>1, <2>2 DEF Awaited, PendingIsLast, ClipboardInv
    <3> QED
      BY <1>1, <2>2, <3>1
         DEF ClipboardInv, ClipboardIsSelection, CutTextsAreReported, ClipboardWithinBudget
  <2>3. CASE /\ Awaited(e.id)
             /\ Fits(FinalTexts(pending.cells, results), pending.markdown)
             /\ WriteClipboard(FinalTexts(pending.cells, results), pending.markdown)
             /\ notice' = FailedRows(pending.cells, results)
    <3>1. /\ \A t \in FinalTexts(pending.cells, results) : t.text.of = t.row
          /\ notice' = Cardinality({t \in FinalTexts(pending.cells, results) : ~t.text.whole})
      BY <1>4, <1>5, <2>3, CutTextsCounted
    <3> QED
      BY <1>1, <2>3, <3>1, ClipboardWritten
  <2> QED
    BY <1>7, <2>1, <2>2, <2>3
<1>9. /\ calls' \in [View -> Seq([id : Nat, cells : SUBSET Cell])] /\ CallsMatch'
      /\ task' \in [View -> Task \union {Idle}] /\ TasksMatch'
      /\ events' \in Seq([view : View, id : Nat, results : SUBSET Result])
      /\ EventsMatch'
  BY <1>1, <1>8, MatchesKept
<1>10. Typed'
  BY <1>1, <1>9 DEF Typed
<1>11. PendingIsLast' /\ PendingIsCurrent' /\ WholeUnlessPaged'
  BY <1>1, <1>8 DEF PendingIsLast, PendingIsCurrent, WholeUnlessPaged
<1> QED
  BY <1>8, <1>9, <1>10, <1>11 DEF IInv

-----------------------------------------------------------------------------
(* The theorems.                                                           *)

LEMMA InitInv == Init => IInv
<1> SUFFICES ASSUME Init PROVE IInv
  OBVIOUS
<1>1. /\ view = 0 /\ paged = FALSE /\ page = <<>> /\ copyId = 0 /\ pending = NoCopy
      /\ clipboard.id = 0 /\ clipboard.texts = {} /\ notice = 0 /\ kind = "csv"
      /\ calls = [v \in View |-> <<>>] /\ task = [v \in View |-> Idle] /\ events = <<>>
  BY DEF Init
<1>2. 0 \in View
  BY CopyAssumption DEF View
<1>3. Typed
  BY <1>1, <1>2 DEF Typed
<1>4. PendingIsLast /\ PendingIsCurrent /\ WholeUnlessPaged
  BY <1>1 DEF PendingIsLast, PendingIsCurrent, WholeUnlessPaged
<1>5. CallsMatch /\ TasksMatch /\ EventsMatch
  BY <1>1 DEF CallsMatch, TasksMatch, EventsMatch
<1>6. ClipboardInv
  <2>1. {t \in clipboard.texts : ~t.text.whole} = {}
    BY <1>1
  <2> QED
    BY <1>1, <2>1, FS_EmptySet
       DEF ClipboardInv, ClipboardIsSelection, CutTextsAreReported, ClipboardWithinBudget
<1> QED
  BY <1>3, <1>4, <1>5, <1>6 DEF IInv

LEMMA NextInv == IInv /\ [Next]_vars => IInv'
<1> SUFFICES ASSUME IInv, [Next]_vars PROVE IInv'
  OBVIOUS
<1>1. CASE \E v \in View : RefetchStep(v)
  BY <1>1, BeginRefetchInv, RefetchRowInv, FinishRefetchInv DEF RefetchStep
<1>2. CASE Copy \/ OnRefetchRowsCompleted
  BY <1>2, CopyInv, OnRefetchRowsCompletedInv
<1>3. CASE ShowPage \/ LoadTable \/ LeaveTable \/ ShowParsed \/ Reopen \/ DeleteRow
  BY <1>3, TableStepsInv
<1>4. CASE UNCHANGED vars
  <2>1. UNCHANGED <<view, paged, page, copyId, pending, clipboard, notice, kind, calls, task,
                    events>>
    BY <1>4 DEF vars, guiVars, tableVars
  <2> QED
    BY <2>1 DEF IInv, Typed, PendingIsLast, PendingIsCurrent, CallsMatch, TasksMatch, EventsMatch,
       Matches, Answers, WholeUnlessPaged, ClipboardInv, ClipboardIsSelection,
       CutTextsAreReported, ClipboardWithinBudget
<1> QED
  BY <1>1, <1>2, <1>3, <1>4 DEF Next

LEMMA Invariant == Spec => []IInv
BY InitInv, NextInv, PTL DEF Spec

\* Every text on the clipboard is of the cell that was selected, however pages,
\* tables, copies and answers followed on one another.
THEOREM CopiesTheSelection == Spec => []ClipboardIsSelection
<1>1. IInv => ClipboardIsSelection
  BY DEF IInv, ClipboardInv
<1> QED
  BY <1>1, Invariant, PTL

\* When the last copy has written the clipboard the user was told how many of its
\* texts are cut off.
THEOREM CutTextsReported == Spec => []CutTextsAreReported
<1>1. IInv => CutTextsAreReported
  BY DEF IInv, ClipboardInv
<1> QED
  BY <1>1, Invariant, PTL

\* What is on the clipboard is within the budget, with all that its format adds.
THEOREM CopiesWithinBudget == Spec => []ClipboardWithinBudget
<1>1. IInv => ClipboardWithinBudget
  BY DEF IInv, ClipboardInv
<1> QED
  BY <1>1, Invariant, PTL

\* A copy that waits is of the table on display.
THEOREM PendingCopyIsCurrent == Spec => []PendingIsCurrent
<1>1. IInv => PendingIsCurrent
  BY DEF IInv
<1> QED
  BY <1>1, Invariant, PTL

-----------------------------------------------------------------------------
(* The types IInv does not need.                                           *)

PendingType ==
    pending = NoCopy \/ pending \in [id : 1..copyId, markdown : BOOLEAN,
                                     cells : SUBSET Cell, view : View]

TextsType(texts) ==
    \A t \in texts : [at |-> t.at, row |-> t.row] \in Cell /\ t.text \in Text

CallIds == \A v \in View : \A i \in DOMAIN calls[v] : calls[v][i].id \in 1..copyId

TableType == stored \subseteq Row /\ opened \subseteq Row /\ source \in BOOLEAN

Rest ==
    /\ PendingType
    /\ TextsType(clipboard.texts)
    /\ notice \in Nat \union {-1}
    /\ CallIds
    /\ TableType

LEMMA TextType ==
    ASSUME NEW row \in Row, NEW f
    PROVE  /\ [of |-> row, whole |-> row \notin Cut] \in Text
           /\ [of |-> row, whole |-> f = "ok"] \in Text
<1>1. ASSUME NEW w \in BOOLEAN
      PROVE  [of |-> row, whole |-> w] \in Text
  BY DEF Text
<1>2. (row \notin Cut) \in BOOLEAN /\ (f = "ok") \in BOOLEAN
  OBVIOUS
<1> QED
  BY <1>1, <1>2, Zenon

\* The texts of cells, as displayed and as refreshed.
LEMMA TextsTyped ==
    ASSUME NEW cells, OnePerPlace(cells)
    PROVE  /\ TextsType(Displayed(cells))
           /\ \A results \in SUBSET Result :
                Answers(results, cells) => TextsType(FinalTexts(cells, results))
<1>1. \A c \in cells : [at |-> c.at, row |-> c.row] \in Cell /\ c.row \in Row
  BY DEF OnePerPlace, Cell
<1>2. TextsType(Displayed(cells))
  <2>1. ASSUME NEW t \in Displayed(cells)
        PROVE  [at |-> t.at, row |-> t.row] \in Cell /\ t.text \in Text
    <3>1. PICK c \in cells :
            t = [at |-> c.at, row |-> c.row, text |-> [of |-> c.row, whole |-> c.row \notin Cut]]
      BY DEF Displayed
    <3>2. t.at = c.at /\ t.row = c.row /\ t.text = [of |-> c.row, whole |-> c.row \notin Cut]
      BY <3>1
    <3>3. t.text \in Text
      BY <1>1, <3>2, TextType
    <3> QED
      BY <1>1, <3>2, <3>3
  <2> QED
    BY <2>1 DEF TextsType
<1>3. ASSUME NEW results \in SUBSET Result, Answers(results, cells)
      PROVE  TextsType(FinalTexts(cells, results))
  <2>1. ASSUME NEW c \in cells
        PROVE  FinalText(c, results) \in Text
    <3>1. FinalText(c, results).of = c.row
      BY <1>3, FinalTextType
    <3>2. CASE Refreshed(c, results) = {}
      <4>1. FinalText(c, results) = [of |-> c.row, whole |-> c.row \notin Cut]
        BY <3>2 DEF FinalText
      <4> QED
        BY <1>1, <4>1, TextType
    <3>3. CASE Refreshed(c, results) # {}
      <4> DEFINE r == CHOOSE x \in Refreshed(c, results) : TRUE
      <4>1. FinalText(c, results) = [of |-> r.row, whole |-> r.outcome = "ok"]
        BY <3>3 DEF FinalText
      <4> HIDE DEF r
      <4>2. r.row = c.row
        BY <3>1, <4>1
      <4>3. [of |-> r.row, whole |-> r.outcome = "ok"] \in Text
        BY <1>1, <4>2, TextType
      <4> QED
        BY <4>1, <4>3
    <3> QED
      BY <3>2, <3>3
  <2>2. ASSUME NEW t \in FinalTexts(cells, results)
        PROVE  [at |-> t.at, row |-> t.row] \in Cell /\ t.text \in Text
    <3>1. PICK c \in cells :
            t = [at |-> c.at, row |-> c.row, text |-> FinalText(c, results)]
      BY DEF FinalTexts
    <3>2. t.at = c.at /\ t.row = c.row /\ t.text = FinalText(c, results)
      BY <3>1
    <3> QED
      BY <1>1, <2>1, <3>2
  <2> QED
    BY <2>2 DEF TextsType
<1> QED
  BY <1>2, <1>3

\* How many rows failed is a number.
LEMMA FailedRowsType ==
    ASSUME NEW cells, OnePerPlace(cells), NEW results
    PROVE  FailedRows(cells, results) \in Nat
<1> DEFINE failed == {c \in cells : c.row \in Cut /\ Refreshed(c, results) = {}}
<1>1. IsFiniteSet(failed)
  BY FS_Subset DEF OnePerPlace
<1>2. Cardinality(failed) \in Nat
  BY <1>1, FS_CardinalityType
<1> QED
  BY <1>2 DEF FailedRows

LEMMA CopyRest ==
    ASSUME IInv, Rest, Copy
    PROVE  Rest'
<1>1. /\ page \in Seq(Row) /\ view \in View /\ copyId \in Nat /\ copyId' = copyId + 1
      /\ UNCHANGED tableVars
      /\ calls \in [View -> Seq([id : Nat, cells : SUBSET Cell])]
  BY DEF Copy, IInv, Typed
<1>2. PICK places \in SUBSET DOMAIN page, markdown \in BOOLEAN :
        LET cells == {[at |-> i, row |-> page[i]] : i \in places}
            cut == paged /\ ToRefetch(cells) # {}
        IN  \/ TooMuchToStart(cells) /\ RefuseCopy /\ UNCHANGED calls
            \/ ~TooMuchToStart(cells) /\ ~cut /\ CopyDirectly(cells, markdown) /\ UNCHANGED calls
            \/ ~TooMuchToStart(cells) /\ cut /\ AskForRows(cells, markdown)
  BY DEF Copy
<1> DEFINE cells == {[at |-> i, row |-> page[i]] : i \in places}
<1>3. OnePerPlace(cells)
  BY <1>1, SelectedType
<1>4. \/ (RefuseCopy \/ CopyDirectly(cells, markdown)) /\ UNCHANGED calls
      \/ AskForRows(cells, markdown)
  BY <1>2
<1> HIDE DEF cells
<1>5. TableType'
  BY <1>1 DEF Rest, TableType, tableVars
<1>6. ASSUME UNCHANGED calls
      PROVE  CallIds'
  <2>1. \A i \in 1..copyId : i \in 1..copyId'
    BY <1>1
  <2>2. \A v \in View : \A k \in DOMAIN calls[v] : calls[v][k].id \in 1..copyId
    BY DEF Rest, CallIds
  <2> QED
    BY <1>6, <2>1, <2>2 DEF CallIds
<1>7. CASE RefuseCopy /\ UNCHANGED calls
  BY <1>5, <1>6, <1>7 DEF RefuseCopy, Rest, PendingType
<1>8. CASE /\ WriteClipboard(Displayed(cells), markdown) /\ notice' = 0
           /\ UNCHANGED calls
  <2>1. pending' = NoCopy /\ clipboard'.texts = Displayed(cells) /\ notice' \in Nat
    BY <1>8 DEF WriteClipboard
  <2>2. TextsType(clipboard'.texts)
    BY <1>3, <2>1, TextsTyped
  <2> QED
    BY <1>5, <1>6, <1>8, <2>1, <2>2 DEF Rest, PendingType, TextsType
<1>9. CASE AskForRows(cells, markdown)
  <2> DEFINE call == [id |-> copyId', cells |-> ToRefetch(cells)]
  <2>1. /\ pending' = [id |-> copyId', markdown |-> markdown, cells |-> cells, view |-> view]
        /\ calls' = [calls EXCEPT ![view] = Append(@, call)] /\ notice' = 0
        /\ UNCHANGED clipboard
    BY <1>9 DEF AskForRows
  <2>2. copyId' \in 1..copyId'
    BY <1>1
  <2>3. PendingType'
    <3>1. view' = view
      BY DEF Copy
    <3>2. cells \in SUBSET Cell
      BY <1>3 DEF OnePerPlace
    <3> QED
      BY <1>1, <2>1, <2>2, <3>1, <3>2 DEF PendingType
  <2>4. CallIds'
    <3>1. call.id = copyId'
      OBVIOUS
    <3> HIDE DEF call
    <3>2. calls[view] \in Seq([id : Nat, cells : SUBSET Cell])
      BY <1>1
    <3>3. \A k \in DOMAIN Append(calls[view], call) :
            \/ k \in DOMAIN calls[view] /\ Append(calls[view], call)[k] = calls[view][k]
            \/ Append(calls[view], call)[k] = call
      BY <3>2
    <3>4. \A v \in View : \A k \in DOMAIN calls'[v] :
            (k \in DOMAIN calls[v] /\ calls'[v][k] = calls[v][k]) \/ calls'[v][k] = call
      BY <1>1, <2>1, <3>3
    <3>5. \A i \in 1..copyId : i \in 1..copyId'
      BY <1>1
    <3>6. \A v \in View : \A k \in DOMAIN calls[v] : calls[v][k].id \in 1..copyId
      BY DEF Rest, CallIds
    <3>7. \A v \in View : \A k \in DOMAIN calls'[v] : calls'[v][k].id \in 1..copyId'
      BY <2>2, <3>1, <3>4, <3>5, <3>6
    <3> QED
      BY <3>7 DEF CallIds
  <2> QED
    BY <1>5, <2>1, <2>3, <2>4 DEF Rest, TextsType
<1> QED
  BY <1>4, <1>7, <1>8, <1>9 DEF CopyDirectly

LEMMA BeginRefetchRest ==
    ASSUME IInv, Rest, NEW v \in View, BeginRefetch(v)
    PROVE  Rest'
<1>1. /\ calls[v] \in Seq([id : Nat, cells : SUBSET Cell]) /\ calls[v] # <<>>
      /\ calls \in [View -> Seq([id : Nat, cells : SUBSET Cell])]
      /\ UNCHANGED <<guiVars, tableVars>> /\ calls' = [calls EXCEPT ![v] = Tail(@)]
  BY WorkerType DEF BeginRefetch
<1>2. \A k \in DOMAIN Tail(calls[v]) :
        k + 1 \in DOMAIN calls[v] /\ Tail(calls[v])[k] = calls[v][k + 1]
  BY <1>1
<1>3. CallIds'
  BY <1>1, <1>2 DEF Rest, CallIds, guiVars
<1> QED
  BY <1>1, <1>3 DEF Rest, PendingType, TextsType, TableType, guiVars, tableVars

\* Steps that leave copies alone, or only drop the one that waits.
LEMMA QuietRest ==
    ASSUME Rest, copyId' = copyId, pending' = pending \/ pending' = NoCopy,
           UNCHANGED <<clipboard, notice, calls>>,
           TableType'
    PROVE  Rest'
BY DEF Rest, PendingType, TextsType, CallIds

LEMMA TableStepsRest ==
    ASSUME Rest,
           ShowPage \/ LoadTable \/ LeaveTable \/ ShowParsed \/ Reopen \/ DeleteRow
    PROVE  Rest'
<1>1. /\ copyId' = copyId /\ (pending' = pending \/ pending' = NoCopy)
      /\ UNCHANGED <<clipboard, notice, calls>>
  BY DEF ShowPage, LoadTable, LeaveTable, ShowParsed, Reopen, DeleteRow, guiVars, Forget
<1>2. stored' \subseteq stored /\ (opened' = opened \/ opened' = stored)
      /\ source' \in BOOLEAN
  BY DEF Rest, TableType,
         ShowPage, LoadTable, LeaveTable, ShowParsed, Reopen, DeleteRow, tableVars
<1>3. TableType'
  BY <1>2 DEF Rest, TableType
<1> QED
  BY <1>1, <1>3, QuietRest

LEMMA OnRefetchRowsCompletedRest ==
    ASSUME IInv, Rest, OnRefetchRowsCompleted
    PROVE  Rest'
<1> DEFINE e == Head(events)
           results == IF e.view = view THEN e.results ELSE {}
<1>1. /\ events \in Seq([view : View, id : Nat, results : SUBSET Result]) /\ events # <<>>
      /\ UNCHANGED <<tableVars, copyId, calls>>
      /\ EventsMatch /\ PendingIsLast
  BY DEF OnRefetchRowsCompleted, IInv, Typed
<1>2. 1 \in DOMAIN events /\ events[1] = e /\ e \in [view : View, id : Nat, results : SUBSET Result]
  <2> DEFINE S == [view : View, id : Nat, results : SUBSET Result]
  <2>1. events \in Seq(S) /\ events # <<>>
    BY <1>1
  <2> HIDE DEF S
  <2>2. 1 \in DOMAIN events /\ events[1] = e /\ events[1] \in S
    BY <2>1, HeadTail
  <2> QED
    BY <2>2 DEF S
<1>3. Matches(e.id, {}, e.results)
  BY <1>1, <1>2 DEF EventsMatch
<1>4. results \in SUBSET Result
  BY <1>2
<1>5. Awaited(e.id) => OnePerPlace(pending.cells) /\ Answers(results, pending.cells)
  BY <1>1, <1>3 DEF Awaited, Matches, Answers, PendingIsLast
<1>6. UNCHANGED <<pending, clipboard, notice>> \/ CompleteCopy(e.id, results)
  BY DEF OnRefetchRowsCompleted
<1> HIDE DEF e, results
<1>7. TableType' /\ CallIds'
  BY <1>1 DEF Rest, TableType, CallIds, tableVars
<1>8. CASE UNCHANGED <<pending, clipboard, notice>>
  BY <1>1, <1>7, <1>8 DEF Rest, PendingType, TextsType
<1>9. CASE RefuseCopy
  BY <1>7, <1>9 DEF RefuseCopy, Rest, PendingType, TextsType
<1>10. CASE /\ Awaited(e.id)
            /\ WriteClipboard(FinalTexts(pending.cells, results), pending.markdown)
            /\ notice' = FailedRows(pending.cells, results)
  <2>1. pending' = NoCopy /\ clipboard'.texts = FinalTexts(pending.cells, results)
    BY <1>10 DEF WriteClipboard
  <2>2. TextsType(clipboard'.texts)
    BY <1>4, <1>5, <1>10, <2>1, TextsTyped
  <2>3. notice' \in Nat
    BY <1>5, <1>10, FailedRowsType
  <2> QED
    BY <1>7, <2>1, <2>2, <2>3 DEF Rest, PendingType, TextsType
<1> QED
  BY <1>6, <1>8, <1>9, <1>10 DEF CompleteCopy

LEMMA NextRest == IInv /\ Rest /\ [Next]_vars => Rest'
<1> SUFFICES ASSUME IInv, Rest, [Next]_vars PROVE Rest'
  OBVIOUS
<1>1. CASE \E v \in View : RefetchStep(v)
  <2>1. PICK v \in View : BeginRefetch(v) \/ RefetchRow(v) \/ FinishRefetch(v)
    BY <1>1 DEF RefetchStep
  <2>2. CASE RefetchRow(v) \/ FinishRefetch(v)
    <3>1. UNCHANGED <<guiVars, tableVars, calls>>
      BY <2>2 DEF RefetchRow, FinishRefetch
    <3> QED
      <4>1. UNCHANGED <<copyId, pending, clipboard, notice, calls>> /\ UNCHANGED tableVars
        BY <3>1 DEF guiVars
      <4>2. TableType'
        BY <4>1 DEF Rest, TableType, tableVars
      <4> QED
        BY <4>1, <4>2, QuietRest
  <2> QED
    BY <2>1, <2>2, BeginRefetchRest
<1>2. CASE Copy \/ OnRefetchRowsCompleted
  BY <1>2, CopyRest, OnRefetchRowsCompletedRest
<1>3. CASE ShowPage \/ LoadTable \/ LeaveTable \/ ShowParsed \/ Reopen \/ DeleteRow
  BY <1>3, TableStepsRest
<1>4. CASE UNCHANGED vars
  BY <1>4, QuietRest DEF vars, guiVars, tableVars, Rest, TableType
<1> QED
  BY <1>1, <1>2, <1>3, <1>4 DEF Next

LEMMA TypesOfState ==
    ASSUME IInv, Rest
    PROVE  TypeOK
<1>1. /\ view \in View /\ paged \in BOOLEAN /\ page \in Seq(Row) /\ copyId \in Nat
      /\ kind \in {"sqlite", "csv"} /\ clipboard.id \in 0..copyId
      /\ events \in Seq([view : View, id : Nat, results : SUBSET Result])
  BY DEF IInv, Typed, ClipboardInv
<1>2. ASSUME NEW v \in View
      PROVE  /\ \A i \in DOMAIN calls[v] :
                  calls[v][i].id \in 1..copyId /\ calls[v][i].cells \subseteq Cell
             /\ task[v] # Idle => task[v].results \subseteq Result /\ task[v].left \subseteq Cell
  <2>1. ASSUME NEW i \in DOMAIN calls[v]
        PROVE  calls[v][i] \in [id : Nat, cells : SUBSET Cell]
    <3>1. calls[v] \in Seq([id : Nat, cells : SUBSET Cell])
      BY WorkerType
    <3> QED
      BY <3>1, ElementType
  <2>2. task[v] # Idle => task[v].results \subseteq Result /\ task[v].left \subseteq Cell
    BY WorkerType DEF Task
  <2> QED
    BY <2>1, <2>2 DEF Rest, CallIds
<1>3. ASSUME NEW i \in DOMAIN events
      PROVE  events[i].view \in View /\ events[i].results \subseteq Result
  <2>1. events[i] \in [view : View, id : Nat, results : SUBSET Result]
    BY <1>1, ElementType
  <2> QED
    BY <2>1
<1> QED
  BY <1>1, <1>2, <1>3 DEF TypeOK, Rest, PendingType, TextsType, TableType

\* Everything the renderer, the clipboard, the workers and the queues hold is
\* of its type, and the calls are of copies that have begun.
THEOREM CopyTypeCorrect == Spec => []TypeOK
<1>1. Init => Rest
  <2> SUFFICES ASSUME Init PROVE Rest
    OBVIOUS
  <2>1. /\ pending = NoCopy /\ clipboard.texts = {} /\ notice = 0 /\ stored = Row
        /\ opened = {} /\ source = FALSE /\ \A v \in View : calls[v] = <<>>
    BY DEF Init
  <2>2. CallIds
    BY <2>1 DEF CallIds
  <2>3. TableType
    BY <2>1 DEF TableType
  <2>4. PendingType
    BY <2>1 DEF PendingType
  <2>5. TextsType(clipboard.texts)
    BY <2>1 DEF TextsType
  <2>6. notice \in Nat \union {-1}
    BY <2>1
  <2> QED
    BY <2>2, <2>3, <2>4, <2>5, <2>6 DEF Rest
<1> QED
  BY <1>1, InitInv, NextInv, NextRest, TypesOfState, PTL DEF Spec

=============================================================================
