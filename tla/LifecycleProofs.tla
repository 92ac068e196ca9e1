--------------------------- MODULE LifecycleProofs ---------------------------
(***************************************************************************)
(* The threads and workers of a viewer, for every number of pairs and of   *)
(* stray interrupts: interrupt() reaches open connections only             *)
(* (ConnectionInv), and nothing is left when the destructor returns        *)
(* (NothingOutlives), both through the inductive invariant IInv; and one   *)
(* stray interrupt costs the load on display nothing (StrayIsHarmless),    *)
(* through StrayInv.                                                       *)
(***************************************************************************)
EXTENDS WorkerLifecycle, TLAPS

-----------------------------------------------------------------------------
(* The inductive invariant.                                                *)

\* What a call can still have to do.
Todos == {<<>>, <<"attach">>, <<"attach", "mark", "run">>, <<"mark", "run">>, <<"run">>,
          <<"clear", "close">>, <<"close">>}

\* Before the connection is closed the handle has been cleared, and a worker is
\* deleted once.
PairOK(p) ==
    /\ p.todo \in Todos
    /\ p.todo = <<"close">> => ~p.handle
    /\ p.handle => p.open
    /\ p.worker = "freed" => ~p.open /\ ~Contains(p.inbox, "delete")

Dying(p) == p.worker = "freed" /\ p.thread # "freed"

Deletes(e, i) == e.what = "delete" /\ e.n = i

PairsInv == \A i \in DOMAIN pairs : PairOK(pairs[i])

\* What the ledger dropped is gone.
LedgerInv ==
    \A i \in DOMAIN pairs :
        i \in ledger \/ (pairs[i].worker = "freed" /\ pairs[i].thread = "freed")

\* A thread is deleted once, after its worker.
EventsInv ==
    /\ \A k \in DOMAIN queue :
         queue[k].what = "delete" => queue[k].n \in DOMAIN pairs /\ Dying(pairs[queue[k].n])
    /\ \A k, l \in DOMAIN queue :
         queue[k].what = "delete" /\ Deletes(queue[l], queue[k].n) => k = l

GuiInv ==
    /\ gui.pc = "thread" =>
         /\ gui.at \in DOMAIN pairs
         /\ Dying(pairs[gui.at])
         /\ \A k \in DOMAIN queue : ~Deletes(queue[k], gui.at)
    /\ gui.pc = "touch" => gui.at \in DOMAIN pairs

IInv ==
    /\ TypeOK
    /\ PairsInv
    /\ LedgerInv
    /\ EventsInv
    /\ GuiInv
    /\ NothingOutlives

-----------------------------------------------------------------------------
(* Sequences.                                                              *)

LEMMA HeadTail ==
    ASSUME NEW S, NEW s \in Seq(S), s # <<>>
    PROVE  /\ Head(s) \in S /\ Tail(s) \in Seq(S)
           /\ \A k \in DOMAIN Tail(s) : k + 1 \in DOMAIN s /\ Tail(s)[k] = s[k + 1]
OBVIOUS

\* Contains is about elements.
LEMMA ContainsIsElement ==
    ASSUME NEW S, NEW s \in Seq(S), NEW e
    PROVE  Contains(s, e) <=> \E k \in DOMAIN s : s[k] = e
BY DEF Contains

\* One element is replaced, if it is there.
LEMMA Replaced ==
    ASSUME NEW S, NEW s \in Seq(S), NEW i, NEW x, i \in DOMAIN s => x \in S
    PROVE  /\ [s EXCEPT ![i] = x] \in Seq(S)
           /\ DOMAIN [s EXCEPT ![i] = x] = DOMAIN s
           /\ \A j \in DOMAIN s : [s EXCEPT ![i] = x][j] = IF j = i THEN x ELSE s[j]
<1> DEFINE t == [s EXCEPT ![i] = x]
<1>1. s \in [1..Len(s) -> S] /\ Len(s) \in Nat /\ DOMAIN s = 1..Len(s)
  OBVIOUS
<1>2. t \in [1..Len(s) -> S]
  BY <1>1
<1>3. t \in Seq(S)
  BY <1>1, <1>2
<1> QED
  BY <1>1, <1>3

-----------------------------------------------------------------------------
(* What happens to one pair.                                               *)

\* An ordinary change of a pair frees nothing and keeps it well-formed.
Ordinary(p, q) ==
    /\ q \in Pair
    /\ PairOK(q)
    /\ q.worker = p.worker
    /\ q.thread = "freed" <=> p.thread = "freed"

\* A worker that is freed is well-formed and is not deleted again.
LEMMA FreedType ==
    ASSUME NEW p \in Pair, PairOK(p), NEW t \in {"running", "finished", "freed"}
    PROVE  /\ [Freed(p) EXCEPT !.thread = t] \in Pair
           /\ PairOK([Freed(p) EXCEPT !.thread = t])
           /\ [Freed(p) EXCEPT !.thread = t].worker = "freed"
           /\ [Freed(p) EXCEPT !.thread = t].thread = t
           /\ Freed(p) \in Pair /\ PairOK(Freed(p))
           /\ Freed(p).worker = "freed" /\ Freed(p).thread = p.thread
<1>1. ~Contains(<<>>, "delete") /\ <<>> \in Seq(Calls \union {"delete"})
  BY DEF Contains
<1> QED
  BY <1>1 DEF Freed, Pair, PairOK

\* A call is posted to a worker.
LEMMA Posted ==
    ASSUME NEW p \in Pair, PairOK(p), NEW c \in Calls
    PROVE  Ordinary(p, [p EXCEPT !.inbox = Append(@, c)])
<1>1. p.inbox \in Seq(Calls \union {"delete"})
  BY DEF Pair
<1>2. Append(p.inbox, c) \in Seq(Calls \union {"delete"})
  BY <1>1
<1>3. c # "delete"
  BY DEF Calls
<1>4. Contains(Append(p.inbox, c), "delete") => Contains(p.inbox, "delete")
  BY <1>1, <1>3 DEF Contains
<1> QED
  BY <1>2, <1>4 DEF Ordinary, Pair, PairOK

\* A worker is interrupted.
LEMMA InterruptedType ==
    ASSUME NEW p \in Pair, PairOK(p)
    PROVE  Ordinary(p, Interrupted(p))
<1>1. p.seq + 1 \in Nat
  BY DEF Pair
<1>2. (p.cut \/ (p.handle /\ p.running)) \in BOOLEAN
  OBVIOUS
<1> QED
  BY <1>1, <1>2 DEF Ordinary, Interrupted, Pair, PairOK

\* A thread is told to stop.
LEMMA StopThreadType ==
    ASSUME NEW p \in Pair, PairOK(p)
    PROVE  Ordinary(p, StopThread(p))
<1>1. Ordinary(p, p)
  BY DEF Ordinary
<1>2. Ordinary(p, [p EXCEPT !.asked = TRUE, !.quit = TRUE])
  BY DEF Ordinary, Pair, PairOK
<1> QED
  BY <1>1, <1>2 DEF StopThread

-----------------------------------------------------------------------------
(* What a step leaves alone.                                               *)

LEMMA SomeEvent == \E e \in GuiEvent : e.what # "delete"
<1>1. Note("parse", 0, "none") \in GuiEvent /\ Note("parse", 0, "none").what # "delete"
  BY DEF Note, GuiEvent, Outcome
<1> QED
  BY <1>1

\* Events are kept or taken, and no deletion is posted.
LEMMA EventsKept ==
    ASSUME IInv, NEW e \in GuiEvent, e.what # "delete",
           \/ queue' = queue
           \/ queue # <<>> /\ queue' = Tail(queue)
           \/ queue' = Append(queue, e),
           DOMAIN pairs \subseteq DOMAIN pairs',
           \A i \in DOMAIN pairs : Dying(pairs[i]) => Dying(pairs'[i])
    PROVE  queue' \in Seq(GuiEvent) /\ EventsInv'
<1>1. queue \in Seq(GuiEvent) /\ EventsInv
  BY DEF IInv, TypeOK
<1>2. CASE queue' = queue
  BY <1>1, <1>2 DEF EventsInv, Deletes
<1>3. CASE queue # <<>> /\ queue' = Tail(queue)
  <2>1. /\ queue' \in Seq(GuiEvent)
        /\ \A k \in DOMAIN queue' : /\ k \in Nat /\ k + 1 \in DOMAIN queue
                                   /\ queue'[k] = queue[k + 1]
    BY <1>1, <1>3
  <2> QED
    BY <1>1, <2>1 DEF EventsInv, Deletes
<1>4. CASE queue' = Append(queue, e)
  <2>1. /\ queue' \in Seq(GuiEvent)
        /\ \A k \in DOMAIN queue' :
             \/ k \in DOMAIN queue /\ queue'[k] = queue[k]
             \/ queue'[k] = e
    BY <1>1, <1>4
  <2> QED
    BY <1>1, <2>1 DEF EventsInv, Deletes
<1> QED
  BY <1>2, <1>3, <1>4

\* The deletion of a thread whose worker has just been freed.
LEMMA EventsPosted ==
    ASSUME IInv, NEW i \in DOMAIN pairs, pairs[i].worker = "alive",
           queue' = Destroyed(i),
           DOMAIN pairs' = DOMAIN pairs, Dying(pairs'[i]),
           \A j \in DOMAIN pairs : j # i => pairs'[j] = pairs[j]
    PROVE  /\ queue' \in Seq(GuiEvent) /\ EventsInv'
           /\ \A k \in DOMAIN queue' : \A j \in DOMAIN pairs :
                Deletes(queue'[k], j) => j = i \/ (k \in DOMAIN queue /\ queue'[k] = queue[k])
<1> DEFINE e == Note("delete", i, "none")
<1>1. queue \in Seq(GuiEvent) /\ EventsInv /\ i \in Nat
  BY DEF IInv, TypeOK
<1>2. e \in GuiEvent /\ e.what = "delete" /\ e.n = i
  BY <1>1 DEF Note, GuiEvent, Outcome
<1>3. \A k \in DOMAIN queue : ~Deletes(queue[k], i)
  BY <1>1 DEF EventsInv, Deletes, Dying
<1>4. \A j \in DOMAIN pairs : Dying(pairs[j]) => Dying(pairs'[j])
  OBVIOUS
<1>5. queue' = queue \/ queue' = Append(queue, e)
  BY DEF Destroyed
<1> HIDE DEF e
<1>6. CASE queue' = queue
  BY <1>1, <1>4, <1>6 DEF EventsInv, Deletes
<1>7. CASE queue' = Append(queue, e)
  <2>1. /\ queue' \in Seq(GuiEvent)
        /\ \A k \in DOMAIN queue' :
             \/ k \in DOMAIN queue /\ queue'[k] = queue[k]
             \/ k = Len(queue) + 1 /\ queue'[k] = e
    BY <1>1, <1>2, <1>7
  <2>2. \A k \in DOMAIN queue' :
          queue'[k].what = "delete" => queue'[k].n \in DOMAIN pairs /\ Dying(pairs'[queue'[k].n])
    BY <1>1, <1>2, <1>4, <2>1 DEF EventsInv
  <2>3. \A k, l \in DOMAIN queue' :
          queue'[k].what = "delete" /\ Deletes(queue'[l], queue'[k].n) => k = l
    BY <1>1, <1>2, <1>3, <2>1 DEF EventsInv, Deletes
  <2> QED
    BY <1>2, <2>1, <2>2, <2>3 DEF EventsInv, Deletes
<1> QED
  BY <1>5, <1>6, <1>7

\* A step of a thread that frees nothing.
LEMMA ThreadOrdinary ==
    ASSUME IInv, NEW i \in DOMAIN pairs, pairs[i].thread # "freed",
           NEW q, Ordinary(pairs[i], q), pairs' = [pairs EXCEPT ![i] = q],
           \/ queue' = queue
           \/ \E e \in GuiEvent : e.what # "delete" /\ queue' = Append(queue, e),
           UNCHANGED <<gui, ledger>>, strays' \in Nat
    PROVE  IInv'
<1>1. TypeOK /\ PairsInv /\ LedgerInv /\ GuiInv /\ EventsInv /\ NothingOutlives
  BY DEF IInv
<1>2. pairs \in Seq(Pair) /\ queue \in Seq(GuiEvent)
  BY <1>1 DEF TypeOK
<1>3. q \in Pair /\ PairOK(q)
  BY DEF Ordinary
<1>4. /\ pairs' \in Seq(Pair) /\ DOMAIN pairs' = DOMAIN pairs
      /\ \A j \in DOMAIN pairs : pairs'[j] = IF j = i THEN q ELSE pairs[j]
  BY <1>2, <1>3, Replaced
<1>5. \A j \in DOMAIN pairs : Dying(pairs[j]) => Dying(pairs'[j])
  BY <1>4 DEF Dying, Ordinary
<1>6. PICK e \in GuiEvent : e.what # "delete" /\ (queue' = queue \/ queue' = Append(queue, e))
  BY SomeEvent
<1>7. queue' \in Seq(GuiEvent) /\ EventsInv'
  BY <1>4, <1>5, <1>6, EventsKept
<1>8. TypeOK'
  BY <1>1, <1>4, <1>7 DEF TypeOK
<1>9. PairsInv' /\ LedgerInv'
  BY <1>1, <1>3, <1>4 DEF PairsInv, LedgerInv, Ordinary
<1>10. gui.pc # "gone"
  BY <1>1 DEF NothingOutlives
<1>11. \A k \in DOMAIN queue' :
          queue'[k] = e \/ (k \in DOMAIN queue /\ queue'[k] = queue[k])
  BY <1>2, <1>6
<1>12. GuiInv'
  BY <1>1, <1>4, <1>5, <1>11, <1>6 DEF GuiInv, Deletes
<1> QED
  BY <1>7, <1>8, <1>9, <1>10, <1>12 DEF IInv, NothingOutlives

\* A step of a thread that frees its worker.
LEMMA ThreadFrees ==
    ASSUME IInv, NEW i \in DOMAIN pairs, pairs[i].thread # "freed", pairs[i].worker = "alive",
           NEW q \in Pair, PairOK(q), q.worker = "freed", q.thread # "freed",
           pairs' = [pairs EXCEPT ![i] = q],
           queue' = Destroyed(i), UNCHANGED <<gui, ledger, strays>>
    PROVE  IInv'
<1>1. TypeOK /\ PairsInv /\ LedgerInv /\ GuiInv /\ EventsInv /\ NothingOutlives
  BY DEF IInv
<1>2. pairs \in Seq(Pair) /\ pairs[i] \in Pair /\ PairOK(pairs[i])
  BY <1>1 DEF TypeOK, PairsInv
<1>4. /\ pairs' \in Seq(Pair) /\ DOMAIN pairs' = DOMAIN pairs
      /\ \A j \in DOMAIN pairs : pairs'[j] = IF j = i THEN q ELSE pairs[j]
  BY <1>2, Replaced
<1>5. Dying(pairs'[i])
  BY <1>4 DEF Dying
<1>6. /\ queue' \in Seq(GuiEvent) /\ EventsInv'
      /\ \A k \in DOMAIN queue' : \A j \in DOMAIN pairs :
           Deletes(queue'[k], j) => j = i \/ (k \in DOMAIN queue /\ queue'[k] = queue[k])
  BY <1>4, <1>5, EventsPosted
<1>7. TypeOK'
  BY <1>1, <1>4, <1>6 DEF TypeOK
<1>8. PairsInv' /\ LedgerInv'
  BY <1>1, <1>4 DEF PairsInv, LedgerInv
<1>9. gui.pc # "gone"
  BY <1>1 DEF NothingOutlives
<1>10. gui.pc = "thread" => gui.at # i
  BY <1>1 DEF GuiInv, Dying
<1>11. GuiInv'
  BY <1>1, <1>4, <1>6, <1>10 DEF GuiInv, Deletes
<1> QED
  BY <1>6, <1>7, <1>8, <1>9, <1>11 DEF IInv, NothingOutlives

\* A step of the GUI thread that frees nothing.
LEMMA GuiOrdinary ==
    ASSUME IInv, pairs' \in Seq(Pair), DOMAIN pairs \subseteq DOMAIN pairs',
           \A i \in DOMAIN pairs : Ordinary(pairs[i], pairs'[i]),
           \A i \in DOMAIN pairs' :
             i \in DOMAIN pairs \/ (PairOK(pairs'[i]) /\ i \in ledger'),
           ledger' \subseteq DOMAIN pairs',
           \A i \in ledger :
             i \in ledger' \/ (pairs[i].worker = "freed" /\ pairs[i].thread = "freed"),
           queue' = queue \/ (queue # <<>> /\ queue' = Tail(queue)),
           gui' \in Gui, gui'.pc \notin {"thread", "gone"},
           gui'.pc = "touch" => gui'.at \in DOMAIN pairs', strays' = strays
    PROVE  IInv'
<1>1. TypeOK /\ PairsInv /\ LedgerInv
  BY DEF IInv
<1>2. \A i \in DOMAIN pairs : Dying(pairs[i]) => Dying(pairs'[i])
  BY DEF Dying, Ordinary
<1>3. PICK e \in GuiEvent : e.what # "delete"
  BY SomeEvent
<1>4. queue' \in Seq(GuiEvent) /\ EventsInv'
  BY <1>2, <1>3, EventsKept
<1>5. TypeOK'
  BY <1>1, <1>4 DEF TypeOK
<1>6. PairsInv' /\ LedgerInv'
  BY <1>1 DEF PairsInv, LedgerInv, Ordinary
<1>7. GuiInv' /\ NothingOutlives'
  BY DEF GuiInv, NothingOutlives
<1> QED
  BY <1>4, <1>5, <1>6, <1>7 DEF IInv

-----------------------------------------------------------------------------
(* The steps of a thread.                                                  *)

\* What is left to do after a step; only the handle's clearing leaves the closing.
LEMMA TodoTail ==
    ASSUME NEW t \in Todos, t # <<>>
    PROVE  /\ Tail(t) \in Todos
           /\ Head(t) = "clear" <=> Tail(t) = <<"close">>
<1>1. /\ Tail(<<"attach">>) = <<>> /\ Head(<<"attach">>) = "attach"
      /\ Tail(<<"run">>) = <<>> /\ Head(<<"run">>) = "run"
      /\ Tail(<<"close">>) = <<>> /\ Head(<<"close">>) = "close"
  OBVIOUS
<1>2. /\ Tail(<<"mark", "run">>) = <<"run">> /\ Head(<<"mark", "run">>) = "mark"
      /\ Tail(<<"clear", "close">>) = <<"close">> /\ Head(<<"clear", "close">>) = "clear"
  OBVIOUS
<1>3. /\ Tail(<<"attach", "mark", "run">>) = <<"mark", "run">>
      /\ Head(<<"attach", "mark", "run">>) = "attach"
  OBVIOUS
<1>4. <<>> # <<"close">> /\ <<"run">> # <<"close">> /\ <<"mark", "run">> # <<"close">>
  OBVIOUS
<1> QED
  BY <1>1, <1>2, <1>3, <1>4 DEF Todos

LEMMA TodosType == Todos \subseteq Seq(Step)
<1>1. {"mark", "clear", "close", "attach", "run"} = Step
  BY DEF Step
<1> QED
  BY <1>1 DEF Todos

LEMMA StepsType ==
    ASSUME NEW c
    PROVE  Steps(c) \in Todos /\ Steps(c) # <<"close">>
BY DEF Steps, Todos

\* A pair that runs.
LEMMA RunsType ==
    ASSUME IInv, NEW i \in DOMAIN pairs
    PROVE  /\ pairs[i] \in Pair /\ PairOK(pairs[i]) /\ strays \in Nat
           /\ Runs(i) => pairs[i].thread = "running" /\ pairs[i].worker = "alive"
BY DEF IInv, TypeOK, PairsInv, Runs

LEMMA TakeCallInv ==
    ASSUME IInv, NEW i \in DOMAIN pairs, TakeCall(i)
    PROVE  IInv'
<1> DEFINE p == pairs[i]
           c == Head(p.inbox)
           rest == Tail(p.inbox)
           taken == [p EXCEPT !.inbox = rest, !.call = c, !.todo = Steps(c), !.outcome = "ok"]
<1>1. p \in Pair /\ PairOK(p) /\ p.thread = "running" /\ p.worker = "alive" /\ strays \in Nat
  BY RunsType DEF TakeCall
<1>2. p.inbox \in Seq(Calls \union {"delete"}) /\ p.inbox # <<>> /\ c # "delete"
  BY <1>1 DEF TakeCall, Pair
<1>3. rest \in Seq(Calls \union {"delete"}) /\ c \in Calls
  BY <1>2, HeadTail
<1>4. Append(rest, "delete") \in Seq(Calls \union {"delete"})
  BY <1>3
<1>5. Steps(c) \in Todos /\ Steps(c) # <<"close">> /\ Steps(c) \in Seq(Step)
  BY StepsType, TodosType
<1>6. Ordinary(p, [p EXCEPT !.inbox = rest])
  BY <1>1, <1>3 DEF Ordinary, Pair, PairOK
<1>7. Ordinary(p, NotParsed(p))
  BY <1>1, <1>4 DEF NotParsed, Ordinary, Pair, PairOK
<1>8. Ordinary(p, taken)
  BY <1>1, <1>3, <1>5 DEF Ordinary, Pair, PairOK, Outcome
<1>9. \E q : Ordinary(p, q) /\ pairs' = [pairs EXCEPT ![i] = q]
  BY <1>6, <1>7, <1>8 DEF TakeCall
<1> QED
  BY <1>1, <1>9, ThreadOrdinary DEF TakeCall

LEMMA AdvanceInv ==
    ASSUME IInv, NEW i \in DOMAIN pairs, Advance(i)
    PROVE  IInv'
<1> DEFINE p == pairs[i]
           q == [p EXCEPT !.todo = Tail(@)]
<1>1. p \in Pair /\ PairOK(p) /\ p.thread = "running" /\ p.worker = "alive" /\ strays \in Nat
  BY RunsType DEF Advance
<1>2. p.todo \in Todos /\ p.todo # <<>>
  BY <1>1 DEF Advance, PairOK
<1>3. /\ Tail(p.todo) \in Todos /\ Tail(p.todo) \in Seq(Step)
      /\ Head(p.todo) = "clear" <=> Tail(p.todo) = <<"close">>
  BY <1>2, TodoTail, TodosType
<1>4. <<>> \in Todos /\ <<>> \in Seq(Step) /\ <<>> # <<"close">>
  BY DEF Todos
<1>5. Head(p.todo) = "close" => p.todo = <<"close">>
  BY <1>2 DEF Todos
<1>6. Head(p.todo) = "mark" => Ordinary(p, [q EXCEPT !.start = p.seq])
  BY <1>1, <1>3 DEF Ordinary, Pair, PairOK
<1>7. Ordinary(p, [q EXCEPT !.handle = FALSE])
  BY <1>1, <1>3 DEF Ordinary, Pair, PairOK
<1>8. Head(p.todo) = "close" => Ordinary(p, [q EXCEPT !.open = FALSE])
  BY <1>1, <1>3, <1>5 DEF Ordinary, Pair, PairOK
<1>9. Head(p.todo) = "attach" => Ordinary(p, [q EXCEPT !.open = TRUE, !.handle = TRUE])
  BY <1>1, <1>3 DEF Ordinary, Pair, PairOK
<1>10. Ordinary(p, [p EXCEPT !.todo = <<>>, !.outcome = "failed"])
  BY <1>1, <1>4 DEF Ordinary, Pair, PairOK, Outcome
<1>11. Ordinary(p, [p EXCEPT !.running = TRUE, !.cut = FALSE])
  BY <1>1 DEF Ordinary, Pair, PairOK
<1>12. \E r : Ordinary(p, r) /\ pairs' = [pairs EXCEPT ![i] = r]
  BY <1>6, <1>7, <1>8, <1>9, <1>10, <1>11 DEF Advance
<1> QED
  BY <1>1, <1>12, ThreadOrdinary DEF Advance

LEMMA StopStatementInv ==
    ASSUME IInv, NEW i \in DOMAIN pairs, StopStatement(i)
    PROVE  IInv'
<1> DEFINE p == pairs[i]
<1>1. p \in Pair /\ PairOK(p) /\ p.thread = "running" /\ strays \in Nat
  BY RunsType DEF StopStatement
<1>2. <<>> \in Todos /\ <<>> \in Seq(Step) /\ <<>> # <<"close">>
  BY DEF Todos
<1>3. Ordinary(p, [p EXCEPT !.retried = TRUE, !.cut = FALSE])
  BY <1>1 DEF Ordinary, Pair, PairOK
<1>4. Ordinary(p, [p EXCEPT !.running = FALSE, !.cut = FALSE, !.outcome = "interrupted",
                            !.todo = <<>>])
  BY <1>1, <1>2 DEF Ordinary, Pair, PairOK, Outcome
<1>5. \E q : Ordinary(p, q) /\ pairs' = [pairs EXCEPT ![i] = q]
  BY <1>3, <1>4 DEF StopStatement
<1> QED
  BY <1>1, <1>5, ThreadOrdinary DEF StopStatement

LEMMA FinishStatementInv ==
    ASSUME IInv, NEW i \in DOMAIN pairs, FinishStatement(i)
    PROVE  IInv'
<1> DEFINE p == pairs[i]
           q == [p EXCEPT !.running = FALSE, !.cut = FALSE, !.todo = <<>>]
<1>1. p \in Pair /\ PairOK(p) /\ p.thread = "running" /\ strays \in Nat
  BY RunsType DEF FinishStatement
<1>2. <<>> \in Todos /\ <<>> \in Seq(Step) /\ <<>> # <<"close">>
  BY DEF Todos
<1>3. Ordinary(p, q)
  BY <1>1, <1>2 DEF Ordinary, Pair, PairOK
<1>4. pairs' = [pairs EXCEPT ![i] = q]
  BY DEF FinishStatement
<1> QED
  BY <1>1, <1>3, <1>4, ThreadOrdinary DEF FinishStatement

LEMMA StrayInterruptInv ==
    ASSUME IInv, NEW i \in DOMAIN pairs, StrayInterrupt(i)
    PROVE  IInv'
<1> DEFINE p == pairs[i]
           q == [p EXCEPT !.cut = TRUE]
<1>1. p \in Pair /\ PairOK(p) /\ p.thread = "running" /\ strays \in Nat
  BY RunsType DEF StrayInterrupt
<1>2. Ordinary(p, q)
  BY <1>1 DEF Ordinary, Pair, PairOK
<1>3. pairs' = [pairs EXCEPT ![i] = q] /\ strays' \in Nat
  BY <1>1 DEF StrayInterrupt
<1> QED
  BY <1>1, <1>2, <1>3, ThreadOrdinary DEF StrayInterrupt

LEMMA ReturnInv ==
    ASSUME IInv, NEW i \in DOMAIN pairs, Return(i)
    PROVE  IInv'
<1> DEFINE p == pairs[i]
           inbox == IF p.call \in {"parse", "shutdown"} THEN Append(p.inbox, "delete") ELSE p.inbox
           q == [p EXCEPT !.call = "none", !.outcome = "none", !.start = 0, !.retried = FALSE,
                          !.inbox = inbox]
           e == Note(p.call, p.load, p.outcome)
<1>1. p \in Pair /\ PairOK(p) /\ p.thread = "running" /\ p.worker = "alive" /\ strays \in Nat
  BY RunsType DEF Return
<1>2. inbox \in Seq(Calls \union {"delete"})
  BY <1>1 DEF Pair
<1> HIDE DEF inbox
<1>3. Ordinary(p, q)
  BY <1>1, <1>2 DEF Ordinary, Pair, PairOK, Outcome
<1>4. p.call # "shutdown" => e \in GuiEvent /\ e.what # "delete"
  BY <1>1 DEF Return, Note, GuiEvent, Pair, Calls
<1>5. pairs' = [pairs EXCEPT ![i] = q]
  BY DEF Return, inbox
<1>6. queue' = queue \/ \E d \in GuiEvent : d.what # "delete" /\ queue' = Append(queue, d)
  BY <1>4 DEF Return
<1> QED
  BY <1>1, <1>3, <1>5, <1>6, ThreadOrdinary DEF Return

LEMMA DeleteWorkerInv ==
    ASSUME IInv, NEW i \in DOMAIN pairs, DeleteWorker(i)
    PROVE  IInv'
<1>1. /\ pairs[i] \in Pair /\ PairOK(pairs[i])
      /\ pairs[i].thread = "running" /\ pairs[i].worker = "alive"
  BY RunsType DEF DeleteWorker
<1>2. /\ Freed(pairs[i]) \in Pair /\ PairOK(Freed(pairs[i]))
      /\ Freed(pairs[i]).worker = "freed" /\ Freed(pairs[i]).thread = "running"
  BY <1>1, FreedType
<1> QED
  BY <1>1, <1>2, ThreadFrees DEF DeleteWorker

LEMMA FinishInv ==
    ASSUME IInv, NEW i \in DOMAIN pairs, Finish(i)
    PROVE  IInv'
<1> DEFINE p == pairs[i]
           q == [p EXCEPT !.thread = "finished"]
           r == [Freed(p) EXCEPT !.thread = "finished"]
<1>1. p \in Pair /\ PairOK(p) /\ p.thread = "running" /\ strays \in Nat
  BY RunsType DEF Finish
<1>2. CASE Contains(p.inbox, "delete")
  <2>1. p.worker = "alive"
    BY <1>1, <1>2 DEF Pair, PairOK
  <2>2. r \in Pair /\ PairOK(r) /\ r.worker = "freed" /\ r.thread = "finished"
    BY <1>1, FreedType
  <2>3. pairs' = [pairs EXCEPT ![i] = r] /\ queue' = Destroyed(i)
    BY <1>2 DEF Finish
  <2> QED
    BY <1>1, <2>1, <2>2, <2>3, ThreadFrees DEF Finish
<1>3. CASE ~Contains(p.inbox, "delete")
  <2>1. Ordinary(p, q)
    BY <1>1 DEF Ordinary, Pair, PairOK
  <2>2. pairs' = [pairs EXCEPT ![i] = q] /\ queue' = queue
    BY <1>3 DEF Finish
  <2> QED
    BY <1>1, <2>1, <2>2, ThreadOrdinary DEF Finish
<1> QED
  BY <1>2, <1>3

-----------------------------------------------------------------------------
(* The steps of the GUI thread.                                            *)

\* A function on the pairs is a sequence like theirs.
LEMMA Mapped ==
    ASSUME NEW S, NEW s \in Seq(S), NEW f \in [DOMAIN s -> S]
    PROVE  f \in Seq(S) /\ DOMAIN f = DOMAIN s /\ Len(f) = Len(s)
OBVIOUS

\* What an invariant state says of the pairs and the GUI thread.
LEMMA GuiType ==
    ASSUME IInv
    PROVE  /\ pairs \in Seq(Pair) /\ gui \in Gui /\ ledger \subseteq DOMAIN pairs
           /\ queue \in Seq(GuiEvent) /\ strays \in Nat
           /\ \A i \in DOMAIN pairs :
                /\ i \in Nat /\ pairs[i] \in Pair /\ PairOK(pairs[i])
                /\ Ordinary(pairs[i], pairs[i])
BY DEF IInv, TypeOK, PairsInv, Ordinary

\* One pair changes, or none when there is none.
LEMMA OneOrdinary ==
    ASSUME IInv, NEW i, NEW q, i \in DOMAIN pairs => Ordinary(pairs[i], q),
           pairs' = [pairs EXCEPT ![i] = q]
    PROVE  /\ pairs' \in Seq(Pair) /\ DOMAIN pairs' = DOMAIN pairs
           /\ \A j \in DOMAIN pairs : Ordinary(pairs[j], pairs'[j])
<1>1. pairs \in Seq(Pair) /\ \A j \in DOMAIN pairs : Ordinary(pairs[j], pairs[j])
  BY GuiType
<1>2. i \in DOMAIN pairs => q \in Pair
  BY DEF Ordinary
<1>3. /\ pairs' \in Seq(Pair) /\ DOMAIN pairs' = DOMAIN pairs
      /\ \A j \in DOMAIN pairs : pairs'[j] = IF j = i THEN q ELSE pairs[j]
  BY <1>1, <1>2, Replaced
<1> QED
  BY <1>1, <1>3

LEMMA BeginCancelInv ==
    ASSUME IInv, NEW after \in {"none", "table", "sqlite", "destroy"}, BeginCancel(after),
           queue' = queue \/ (queue # <<>> /\ queue' = Tail(queue)),
           UNCHANGED <<ledger, strays>>
    PROVE  IInv'
<1>1. /\ pairs \in Seq(Pair) /\ gui \in Gui /\ ledger \subseteq DOMAIN pairs
      /\ \A i \in DOMAIN pairs :
           pairs[i] \in Pair /\ PairOK(pairs[i]) /\ Ordinary(pairs[i], pairs[i])
  BY GuiType
<1>2. ASSUME NEW i \in DOMAIN pairs
      PROVE  Ordinary(pairs[i], [pairs[i] EXCEPT !.asked = TRUE])
  <2>1. pairs[i] \in Pair /\ PairOK(pairs[i])
    BY <1>1
  <2> QED
    BY <2>1 DEF Ordinary, Pair, PairOK
<1>3. pairs' \in [DOMAIN pairs -> Pair] /\ \A i \in DOMAIN pairs : Ordinary(pairs[i], pairs'[i])
  BY <1>1, <1>2 DEF BeginCancel, Ordinary
<1>4. pairs' \in Seq(Pair) /\ DOMAIN pairs' = DOMAIN pairs
  BY <1>1, <1>3, Mapped
<1>5. gui' \in Gui /\ gui'.pc = "cancel"
  <2>1. gui.gen + 1 \in Nat
    BY <1>1 DEF Gui
  <2>2. gui' = [gui EXCEPT !.pc = "cancel", !.after = after, !.gen = @ + 1]
    BY DEF BeginCancel
  <2> QED
    BY <1>1, <2>1, <2>2 DEF Gui
<1> QED
  BY <1>1, <1>3, <1>4, <1>5, GuiOrdinary

\* A worker is interrupted and told to shut down.
LEMMA RetiredType ==
    ASSUME IInv, NEW i \in DOMAIN pairs
    PROVE  Ordinary(pairs[i], Retired(i))
<1> DEFINE p == pairs[i]
           r == Interrupted(p)
           q == [r EXCEPT !.inbox = Append(@, "shutdown")]
<1>1. p \in Pair /\ PairOK(p) /\ Ordinary(p, p)
  BY GuiType
<1>2. Ordinary(p, r)
  BY <1>1, InterruptedType
<1> HIDE DEF r
<1>3. r \in Pair /\ PairOK(r) /\ "shutdown" \in Calls
  BY <1>2 DEF Ordinary, Calls
<1>4. Ordinary(r, q)
  BY <1>3, Posted
<1>5. Ordinary(p, q)
  BY <1>2, <1>4 DEF Ordinary
<1> QED
  BY <1>1, <1>5 DEF Retired, r

\* A pair that has just been made.
LEMMA NewPairType ==
    ASSUME NEW kind \in {"table", "source", "count"}, NEW load \in Nat,
           NEW inbox \in {<<>>, <<"parse">>, <<"open">>}
    PROVE  NewPair(kind, load, inbox) \in Pair /\ PairOK(NewPair(kind, load, inbox))
<1>1. inbox \in Seq(Calls \union {"delete"}) /\ <<>> \in Seq(Step)
  <2> DEFINE S == Calls \union {"delete"}
  <2>1. "parse" \in S /\ "open" \in S
    BY DEF Calls
  <2> HIDE DEF S
  <2>2. <<"parse">> \in Seq(S) /\ <<"open">> \in Seq(S) /\ <<>> \in Seq(S)
    BY <2>1
  <2>3. inbox \in Seq(S)
    BY <2>2
  <2> QED
    BY <2>3 DEF S
<1>2. <<>> \in Todos
  BY DEF Todos
<1> QED
  BY <1>1, <1>2 DEF NewPair, Pair, PairOK, Outcome

LEMMA EndCancelInv ==
    ASSUME IInv, EndCancel
    PROVE  IInv'
<1> DEFINE n == Len(pairs)
           retired == [i \in DOMAIN pairs |-> Retired(i)]
<1>1. /\ pairs \in Seq(Pair) /\ gui \in Gui /\ ledger \subseteq DOMAIN pairs
      /\ n \in Nat /\ DOMAIN pairs = 1..n /\ gui.gen \in Nat
  BY GuiType DEF Gui
<1>2. \A i \in DOMAIN pairs : Ordinary(pairs[i], Retired(i))
  BY RetiredType
<1>3. retired \in [DOMAIN pairs -> Pair]
  BY <1>2 DEF Ordinary
<1>4. retired \in Seq(Pair) /\ DOMAIN retired = 1..n /\ Len(retired) = n
  BY <1>1, <1>3, Mapped
<1>5. \A i \in DOMAIN pairs : Ordinary(pairs[i], retired[i])
  BY <1>2
<1>6. /\ Reaped \subseteq ledger
      /\ \A i \in ledger :
           i \in Reaped \/ (pairs[i].worker = "freed" /\ pairs[i].thread = "freed")
  BY DEF Reaped
<1>7. /\ UNCHANGED <<queue, strays>>
      /\ gui' \in Gui /\ gui'.pc \notin {"thread", "gone", "touch"}
  <2> DEFINE idle == [gui EXCEPT !.pc = "idle", !.after = "none", !.countRequested = FALSE,
                                 !.source = 0, !.count = 0]
  <2>1. idle \in Gui /\ idle.pc = "idle"
    BY <1>1 DEF Gui
  <2>2. \/ gui' = idle
        \/ gui' = [idle EXCEPT !.source = n + 1, !.count = n + 2]
        \/ gui' = [idle EXCEPT !.pc = "check", !.after = "destroy"]
    BY DEF EndCancel
  <2> HIDE DEF idle
  <2>3. n + 1 \in Nat /\ n + 2 \in Nat
    BY <1>1
  <2>4. UNCHANGED <<queue, strays>>
    BY DEF EndCancel
  <2> QED
    BY <2>1, <2>2, <2>3, <2>4 DEF Gui
<1> HIDE DEF retired, n
<1>8. CASE pairs' = retired /\ ledger' = Reaped
  BY <1>1, <1>4, <1>5, <1>6, <1>7, <1>8, GuiOrdinary
<1>9. CASE /\ pairs' = Append(retired, NewPair("table", gui.gen, <<"parse">>))
           /\ ledger' = Reaped \union {n + 1}
  <2> DEFINE q == NewPair("table", gui.gen, <<"parse">>)
  <2>1. q \in Pair /\ PairOK(q)
    BY <1>1, NewPairType
  <2> HIDE DEF q
  <2>2. pairs' = Append(retired, q)
    BY <1>9 DEF q
  <2>3. /\ pairs' \in Seq(Pair) /\ DOMAIN pairs' = 1..(n + 1) /\ pairs'[n + 1] = q
        /\ \A i \in 1..n : pairs'[i] = retired[i]
    BY <1>1, <1>4, <2>1, <2>2
  <2> QED
    BY <1>1, <1>5, <1>6, <1>7, <1>9, <2>1, <2>3, GuiOrdinary
<1>10. CASE /\ pairs' = retired \o <<NewPair("source", gui.gen, <<"open">>),
                                     NewPair("count", gui.gen, <<>>)>>
            /\ ledger' = Reaped \union {n + 1, n + 2}
  <2> DEFINE q == NewPair("source", gui.gen, <<"open">>)
             r == NewPair("count", gui.gen, <<>>)
  <2>1. q \in Pair /\ PairOK(q) /\ r \in Pair /\ PairOK(r)
    BY <1>1, NewPairType
  <2> HIDE DEF q, r
  <2>2. pairs' = retired \o <<q, r>>
    BY <1>10 DEF q, r
  <2>3. /\ pairs' \in Seq(Pair) /\ DOMAIN pairs' = 1..(n + 2)
        /\ pairs'[n + 1] = q /\ pairs'[n + 2] = r
        /\ \A i \in 1..n : pairs'[i] = retired[i]
    BY <1>1, <1>4, <2>1, <2>2
  <2> QED
    BY <1>1, <1>5, <1>6, <1>7, <1>10, <2>1, <2>3, GuiOrdinary
<1> QED
  BY <1>8, <1>9, <1>10 DEF EndCancel, retired, n

LEMMA OnSignalInv ==
    ASSUME IInv, OnSignal
    PROVE  IInv'
<1>1. /\ pairs \in Seq(Pair) /\ gui \in Gui /\ ledger \subseteq DOMAIN pairs
      /\ \A i \in DOMAIN pairs :
           pairs[i] \in Pair /\ PairOK(pairs[i]) /\ Ordinary(pairs[i], pairs[i])
  BY GuiType
<1>2. /\ gui.pc = "idle" /\ queue # <<>> /\ queue' = Tail(queue)
      /\ UNCHANGED <<ledger, strays>>
  BY DEF OnSignal
<1>3. CASE UNCHANGED <<gui, pairs>>
  BY <1>1, <1>2, <1>3, GuiOrdinary
<1>4. CASE \E after \in {"sqlite", "none"} : BeginCancel(after)
  BY <1>2, <1>4, BeginCancelInv
<1>5. CASE \E i, c : PostTo(i, c) /\ c \in Calls /\ gui' \in Gui /\ gui'.pc = "idle"
  <2>1. PICK i, c : PostTo(i, c) /\ c \in Calls
    BY <1>5
  <2> DEFINE q == [pairs[i] EXCEPT !.inbox = Append(@, c)]
  <2>2. i \in DOMAIN pairs => Ordinary(pairs[i], q)
    BY <1>1, <2>1, Posted
  <2>3. pairs' = [pairs EXCEPT ![i] = q]
    BY <2>1 DEF PostTo
  <2> HIDE DEF q
  <2>4. /\ pairs' \in Seq(Pair) /\ DOMAIN pairs' = DOMAIN pairs
        /\ \A j \in DOMAIN pairs : Ordinary(pairs[j], pairs'[j])
    BY <2>2, <2>3, OneOrdinary
  <2> QED
    BY <1>1, <1>2, <1>5, <2>4, GuiOrdinary
<1>6. /\ [gui EXCEPT !.countRequested = TRUE] \in Gui
      /\ [gui EXCEPT !.countRequested = TRUE].pc = gui.pc
      /\ "page" \in Calls /\ "count" \in Calls
  BY <1>1 DEF Gui, Calls
<1> QED
  BY <1>1, <1>2, <1>3, <1>4, <1>5, <1>6 DEF OnSignal

LEMMA DeleteThreadInv ==
    ASSUME IInv, DeleteThread
    PROVE  IInv'
<1> DEFINE i == Head(queue).n
           q == [pairs[i] EXCEPT !.quit = TRUE]
<1>1. /\ pairs \in Seq(Pair) /\ gui \in Gui /\ queue \in Seq(GuiEvent)
      /\ queue # <<>> /\ queue' = Tail(queue) /\ Head(queue).what = "delete"
      /\ UNCHANGED <<ledger, strays>> /\ EventsInv /\ TypeOK /\ PairsInv /\ LedgerInv
  BY GuiType DEF DeleteThread, IInv
<1>2. 1 \in DOMAIN queue /\ queue[1] = Head(queue)
  BY <1>1
<1>3. i \in DOMAIN pairs /\ Dying(pairs[i]) /\ i \in Nat
  BY <1>1, <1>2 DEF EventsInv
<1>4. \A k \in DOMAIN queue : Deletes(queue[k], i) => k = 1
  BY <1>1, <1>2 DEF EventsInv, Deletes
<1>5. \A k \in DOMAIN queue' : ~Deletes(queue'[k], i)
  BY <1>1, <1>4, HeadTail
<1>6. Ordinary(pairs[i], q) /\ Dying(q)
  <2>1. pairs[i] \in Pair /\ PairOK(pairs[i])
    BY <1>3, GuiType
  <2> QED
    BY <1>3, <2>1 DEF Ordinary, Pair, PairOK, Dying
<1>7. pairs' = [pairs EXCEPT ![i] = q]
  BY DEF DeleteThread
<1>8. gui' \in Gui /\ gui'.pc = "thread" /\ gui'.at = i
  BY <1>1, <1>3 DEF DeleteThread, Gui
<1> HIDE DEF q, i
<1>9. /\ pairs' \in Seq(Pair) /\ DOMAIN pairs' = DOMAIN pairs
      /\ \A j \in DOMAIN pairs : Ordinary(pairs[j], pairs'[j])
  BY <1>6, <1>7, OneOrdinary
<1>10. \A j \in DOMAIN pairs : Dying(pairs[j]) => Dying(pairs'[j])
  BY <1>9 DEF Ordinary, Dying
<1>11. PICK e \in GuiEvent : e.what # "delete"
  BY SomeEvent
<1>12. queue' \in Seq(GuiEvent) /\ EventsInv'
  BY <1>1, <1>9, <1>10, <1>11, EventsKept
<1>13. TypeOK'
  BY <1>1, <1>8, <1>9, <1>12 DEF TypeOK
<1>14. PairsInv' /\ LedgerInv'
  BY <1>1, <1>9 DEF PairsInv, LedgerInv, Ordinary
<1>15. GuiInv' /\ NothingOutlives'
  BY <1>3, <1>5, <1>8, <1>9, <1>10 DEF GuiInv, NothingOutlives
<1> QED
  BY <1>12, <1>13, <1>14, <1>15 DEF IInv

LEMMA ThreadDeletedInv ==
    ASSUME IInv, ThreadDeleted
    PROVE  IInv'
<1> DEFINE i == gui.at
           q == [pairs[i] EXCEPT !.thread = "freed"]
<1>1. /\ pairs \in Seq(Pair) /\ gui \in Gui /\ queue \in Seq(GuiEvent)
      /\ EventsInv /\ TypeOK /\ PairsInv /\ LedgerInv
  BY GuiType DEF IInv
<1>2. /\ i \in DOMAIN pairs /\ Dying(pairs[i]) /\ \A k \in DOMAIN queue : ~Deletes(queue[k], i)
      /\ UNCHANGED <<ledger, queue, strays>>
  BY DEF ThreadDeleted, IInv, GuiInv
<1>3. pairs[i] \in Pair /\ PairOK(pairs[i])
  BY <1>2, GuiType
<1>4. q \in Pair /\ PairOK(q) /\ q.worker = "freed" /\ q.thread = "freed"
  BY <1>2, <1>3 DEF Pair, PairOK, Dying
<1>5. pairs' = [pairs EXCEPT ![i] = q]
  BY DEF ThreadDeleted
<1>6. gui' \in Gui /\ gui'.pc = "idle"
  BY <1>1 DEF ThreadDeleted, Gui
<1> HIDE DEF q
<1>7. /\ pairs' \in Seq(Pair) /\ DOMAIN pairs' = DOMAIN pairs
      /\ \A j \in DOMAIN pairs : pairs'[j] = IF j = i THEN q ELSE pairs[j]
  BY <1>1, <1>4, <1>5, Replaced
<1> HIDE DEF i
<1>8. TypeOK'
  BY <1>1, <1>2, <1>6, <1>7 DEF TypeOK
<1>9. PairsInv' /\ LedgerInv'
  BY <1>1, <1>2, <1>4, <1>7 DEF PairsInv, LedgerInv
<1>10. EventsInv'
  BY <1>1, <1>2, <1>7 DEF EventsInv, Deletes
<1>11. GuiInv' /\ NothingOutlives'
  BY <1>6 DEF GuiInv, NothingOutlives
<1> QED
  BY <1>8, <1>9, <1>10, <1>11 DEF IInv

LEMMA CheckWorkerInv ==
    ASSUME IInv, CheckWorker
    PROVE  IInv'
<1>1. /\ pairs \in Seq(Pair) /\ gui \in Gui /\ ledger \subseteq DOMAIN pairs
      /\ UNCHANGED <<ledger, queue, strays>>
  BY GuiType DEF CheckWorker
<1>2. PICK i \in ledger :
        \/ gui' = [gui EXCEPT !.pc = "touch", !.at = i] /\ UNCHANGED pairs
        \/ gui' = [gui EXCEPT !.at = i] /\ pairs' = [pairs EXCEPT ![i] = StopThread(@)]
  BY DEF CheckWorker
<1>3. i \in DOMAIN pairs /\ i \in Nat /\ pairs[i] \in Pair /\ PairOK(pairs[i])
  BY <1>1, GuiType
<1>4. gui.pc = "check"
  BY DEF CheckWorker
<1>5. gui' \in Gui /\ gui'.pc \in {"check", "touch"} /\ gui'.at = i
  BY <1>1, <1>2, <1>3, <1>4 DEF Gui
<1>6. Ordinary(pairs[i], StopThread(pairs[i])) /\ Ordinary(pairs[i], pairs[i])
  BY <1>3, StopThreadType, GuiType
<1>7. /\ pairs' \in Seq(Pair) /\ DOMAIN pairs' = DOMAIN pairs
      /\ \A j \in DOMAIN pairs : Ordinary(pairs[j], pairs'[j])
  BY <1>1, <1>2, <1>6, OneOrdinary, GuiType
<1> QED
  BY <1>1, <1>3, <1>5, <1>7, GuiOrdinary

LEMMA TouchWorkerInv ==
    ASSUME IInv, TouchWorker
    PROVE  IInv'
<1> DEFINE i == gui.at
           p == pairs[i]
           r == IF p.kind = "table" THEN p ELSE Interrupted(p)
           s == [r EXCEPT !.linked = FALSE]
           q == StopThread(s)
<1>1. /\ pairs \in Seq(Pair) /\ gui \in Gui /\ ledger \subseteq DOMAIN pairs
      /\ UNCHANGED <<ledger, queue, strays>>
  BY GuiType DEF TouchWorker
<1>2. i \in DOMAIN pairs /\ gui.pc = "touch"
  BY DEF TouchWorker, IInv, GuiInv
<1>3. p \in Pair /\ PairOK(p) /\ Ordinary(p, p)
  BY <1>2, GuiType
<1>4. Ordinary(p, r)
  BY <1>3, InterruptedType
<1> HIDE DEF r
<1>5. s \in Pair /\ PairOK(s) /\ Ordinary(p, s)
  BY <1>4 DEF Ordinary, Pair, PairOK
<1> HIDE DEF s
<1>6. Ordinary(p, q)
  BY <1>5, StopThreadType DEF Ordinary
<1>7. \/ gui' = [gui EXCEPT !.pc = "check"] /\ pairs' = [pairs EXCEPT ![i] = q]
      \/ gui' = [gui EXCEPT !.pc = "crashed"] /\ UNCHANGED pairs
  BY DEF TouchWorker, s, r
<1>8. gui' \in Gui /\ gui'.pc \in {"check", "crashed"}
  BY <1>1, <1>7 DEF Gui
<1> HIDE DEF q
<1>9. /\ pairs' \in Seq(Pair) /\ DOMAIN pairs' = DOMAIN pairs
      /\ \A j \in DOMAIN pairs : Ordinary(pairs[j], pairs'[j])
  BY <1>1, <1>6, <1>7, OneOrdinary, GuiType
<1> QED
  BY <1>1, <1>8, <1>9, GuiOrdinary

\* Whatever the join waits for is freed, and what the ledger dropped was.
LEMMA ReclaimInv ==
    ASSUME IInv, Reclaim
    PROVE  IInv'
<1>1. /\ pairs \in Seq(Pair) /\ gui \in Gui /\ ledger \subseteq DOMAIN pairs
      /\ queue \in Seq(GuiEvent) /\ strays \in Nat /\ EventsInv /\ LedgerInv
  BY GuiType DEF IInv
<1>2. ASSUME NEW i \in DOMAIN pairs
      PROVE  /\ pairs'[i] \in Pair /\ PairOK(pairs'[i])
             /\ pairs'[i].worker = "freed" /\ pairs'[i].thread = "freed"
  <2>1. pairs[i] \in Pair /\ PairOK(pairs[i])
    BY GuiType
  <2>2. CASE i \in ledger
    <3> DEFINE q == [Freed(pairs[i]) EXCEPT !.thread = "freed"]
    <3>1. q \in Pair /\ PairOK(q) /\ q.worker = "freed" /\ q.thread = "freed"
      <4>1. "freed" \in {"running", "finished", "freed"}
        OBVIOUS
      <4> QED
        BY <2>1, <4>1, FreedType
    <3>2. pairs'[i] = q
      BY <2>2 DEF Reclaim
    <3> HIDE DEF q
    <3> QED
      BY <3>1, <3>2
  <2>3. CASE i \notin ledger
    <3>1. pairs'[i] = pairs[i]
      BY <2>3 DEF Reclaim
    <3> QED
      BY <1>1, <2>1, <2>3, <3>1 DEF LedgerInv
  <2> QED
    BY <2>2, <2>3
<1>3. pairs' \in [DOMAIN pairs -> Pair]
  <2>1. pairs' = [i \in DOMAIN pairs |-> pairs'[i]]
    BY DEF Reclaim
  <2> QED
    BY <1>2, <2>1
<1>4. pairs' \in Seq(Pair) /\ DOMAIN pairs' = DOMAIN pairs
  BY <1>1, <1>3, Mapped
<1>5. queue' = <<>>
  <2>1. \A k \in DOMAIN queue : queue[k].what = "delete" => queue[k].n \in ledger
    BY <1>1 DEF EventsInv, LedgerInv, Dying
  <2> QED
    BY <2>1 DEF Reclaim
<1>6. ledger' = {} /\ strays' = strays
  BY DEF Reclaim
<1>7. gui' \in Gui /\ gui'.pc = "gone"
  BY <1>1 DEF Reclaim, Gui
<1>8. TypeOK'
  BY <1>1, <1>4, <1>5, <1>6, <1>7 DEF TypeOK
<1>9. PairsInv' /\ LedgerInv'
  BY <1>2, <1>4 DEF PairsInv, LedgerInv
<1>10. EventsInv' /\ GuiInv'
  BY <1>5, <1>7 DEF EventsInv, GuiInv
<1>11. NothingOutlives'
  BY <1>2, <1>4, <1>5 DEF NothingOutlives, PairOK
<1> QED
  BY <1>8, <1>9, <1>10, <1>11 DEF IInv

-----------------------------------------------------------------------------
(* The theorems.                                                           *)

LEMMA InitInv == Init => IInv
<1> SUFFICES ASSUME Init PROVE IInv
  OBVIOUS
<1>1. pairs = <<>> /\ queue = <<>> /\ ledger = {} /\ strays = 0 /\ gui.pc = "idle"
  BY DEF Init
<1>2. gui \in Gui
  BY DEF Init, Gui
<1>3. pairs \in Seq(Pair) /\ queue \in Seq(GuiEvent) /\ DOMAIN pairs = {} /\ DOMAIN queue = {}
  BY <1>1
<1> QED
  BY <1>1, <1>2, <1>3
     DEF IInv, TypeOK, PairsInv, LedgerInv, EventsInv, GuiInv, NothingOutlives

LEMMA NextInv == IInv /\ [Next]_vars => IInv'
<1> SUFFICES ASSUME IInv, [Next]_vars PROVE IInv'
  OBVIOUS
<1>1. CASE \E i \in DOMAIN pairs : ThreadStep(i)
  BY <1>1, TakeCallInv, AdvanceInv, StopStatementInv, ReturnInv, DeleteWorkerInv, FinishInv
     DEF ThreadStep
<1>2. CASE \E i \in DOMAIN pairs : FinishStatement(i) \/ StrayInterrupt(i)
  BY <1>2, FinishStatementInv, StrayInterruptInv
<1>3. CASE GuiStep
  BY <1>3, EndCancelInv, OnSignalInv, DeleteThreadInv, ThreadDeletedInv, CheckWorkerInv,
     TouchWorkerInv, ReclaimInv DEF GuiStep
<1>4. CASE Load \/ Destroy
  BY <1>4, BeginCancelInv DEF Load, Destroy
<1>5. CASE UNCHANGED vars
  BY <1>5 DEF vars, IInv, TypeOK, PairsInv, LedgerInv, EventsInv, GuiInv, NothingOutlives
<1> QED
  BY <1>1, <1>2, <1>3, <1>4, <1>5 DEF Next

LEMMA Invariant == Spec => []IInv
BY InitInv, NextInv, PTL DEF Spec

\* In every state of every behaviour the state is well-formed and an interrupt
\* handle holds only a connection that is open, so that interrupt() never
\* reaches one that is closed.
THEOREM Connections == Spec => []ConnectionInv
<1>1. IInv => ConnectionInv
  BY DEF IInv, PairsInv, PairOK, ConnectionInv, HandleIsOpen
<1> QED
  BY <1>1, Invariant, PTL

\* When ~DataTableViewer returns every thread and every worker ever made is freed,
\* every connection closed and nothing left in the event queue.
THEOREM DestructorLeavesNothing == Spec => []NothingOutlives
<1>1. IInv => NothingOutlives
  BY DEF IInv
<1> QED
  BY <1>1, Invariant, PTL

-----------------------------------------------------------------------------
(* Stray interrupts.                                                       *)

\* A pair of the load on display has not been interrupted by the viewer, and
\* one stray interrupt has cost it the first try of one query at most.
Undisturbed(p, n) ==
    /\ p.seq = 0 /\ p.start = 0
    /\ n = 0 => ~p.cut /\ ~p.retried
    /\ n <= 1 => ~(p.cut /\ p.retried) /\ p.outcome # "interrupted"

\* The viewer interrupts pairs of earlier loads only.
Outdated == \A i \in DOMAIN pairs : pairs[i].load # gui.gen

LoadsInv ==
    /\ \A i \in DOMAIN pairs : pairs[i].load <= gui.gen
    /\ gui.pc \in {"cancel", "check", "touch"} => Outdated

UndisturbedInv ==
    \A i \in DOMAIN pairs : pairs[i].load = gui.gen => Undisturbed(pairs[i], strays)

StrayInv ==
    /\ LoadsInv
    /\ UndisturbedInv
    /\ strays <= 1 => StrayIsHarmless

\* Two elements are appended.
LEMMA TwoMore ==
    ASSUME NEW S, NEW s \in Seq(S), NEW x \in S, NEW y \in S,
           NEW n \in Nat, Len(s) = n
    PROVE  LET t == s \o <<x, y>>
           IN  /\ DOMAIN t = 1..(n + 2) /\ Len(t) = n + 2
               /\ t[n + 1] = x /\ t[n + 2] = y
               /\ \A i \in 1..n : t[i] = s[i]
OBVIOUS

\* One more stray interrupt disturbs nothing that it did not hit.
LEMMA UndisturbedYet ==
    ASSUME NEW p, NEW n \in Nat, Undisturbed(p, n)
    PROVE  Undisturbed(p, n + 1)
BY DEF Undisturbed

\* What an invariant state says of the pairs.
LEMMA StrayType ==
    ASSUME IInv, StrayInv
    PROVE  /\ pairs \in Seq(Pair) /\ queue \in Seq(GuiEvent) /\ strays \in Nat
           /\ gui.gen \in Nat
           /\ \A i \in DOMAIN pairs :
                /\ pairs[i] \in Pair
                /\ pairs[i].load \in Nat /\ pairs[i].load <= gui.gen
                /\ pairs[i].load = gui.gen => Undisturbed(pairs[i], strays)
           /\ gui.pc \in {"cancel", "check", "touch"} => Outdated
<1>1. gui.gen \in Nat
  BY GuiType DEF Gui
<1>2. \A i \in DOMAIN pairs : pairs[i].load \in Nat
  BY GuiType DEF Pair
<1> QED
  BY <1>1, <1>2, GuiType DEF StrayInv, LoadsInv, UndisturbedInv

\* An event of a query that nobody interrupted, or that is ignored anyway.
Harmless(e) == e.what \in {"page", "count"} => e.outcome # "interrupted"

\* A step of a thread.
LEMMA ThreadCalm ==
    ASSUME IInv, StrayInv, NEW i \in DOMAIN pairs,
           NEW q \in Pair, pairs' = [pairs EXCEPT ![i] = q],
           q.load = pairs[i].load,
           Undisturbed(pairs[i], strays) /\ pairs[i].load = gui.gen => Undisturbed(q, strays'),
           strays' = strays \/ strays' = strays + 1,
           \/ queue' = queue
           \/ \E e \in GuiEvent : /\ queue' = Append(queue, e)
                                  /\ strays <= 1 => Harmless(e),
           UNCHANGED gui
    PROVE  StrayInv'
<1>1. /\ pairs \in Seq(Pair) /\ queue \in Seq(GuiEvent) /\ strays \in Nat
      /\ \A j \in DOMAIN pairs :
           /\ pairs[j].load <= gui.gen
           /\ pairs[j].load = gui.gen => Undisturbed(pairs[j], strays)
      /\ gui.pc \in {"cancel", "check", "touch"} => Outdated
  BY StrayType
<1>2. /\ DOMAIN pairs' = DOMAIN pairs
      /\ \A j \in DOMAIN pairs : pairs'[j] = IF j = i THEN q ELSE pairs[j]
  BY <1>1, Replaced
<1>3. \A j \in DOMAIN pairs : pairs'[j].load = pairs[j].load
  BY <1>2
<1>4. LoadsInv'
  BY <1>1, <1>2, <1>3 DEF LoadsInv, Outdated
<1>5. UndisturbedInv'
  <2>1. ASSUME NEW j \in DOMAIN pairs, pairs[j].load = gui.gen
        PROVE  Undisturbed(pairs'[j], strays')
    <3>1. Undisturbed(pairs[j], strays) /\ Undisturbed(pairs[j], strays + 1)
      BY <1>1, <2>1, UndisturbedYet
    <3>2. CASE j = i
      BY <1>2, <2>1, <3>1, <3>2
    <3>3. CASE j # i
      BY <1>2, <3>1, <3>3
    <3> QED
      BY <3>2, <3>3
  <2> QED
    BY <1>2, <1>3, <2>1 DEF UndisturbedInv
<1>6. ASSUME strays' <= 1
      PROVE  StrayIsHarmless'
  <2>1. strays <= 1
    BY <1>1, <1>6
  <2>2. \A k \in DOMAIN queue : Harmless(queue[k])
    BY <2>1 DEF StrayInv, StrayIsHarmless, Harmless
  <2>3. CASE queue' = queue
    BY <2>2, <2>3 DEF StrayIsHarmless, Harmless
  <2>4. CASE \E e \in GuiEvent : queue' = Append(queue, e) /\ (strays <= 1 => Harmless(e))
    <3>1. PICK e \in GuiEvent : queue' = Append(queue, e) /\ Harmless(e)
      BY <2>1, <2>4
    <3>2. \A k \in DOMAIN queue' :
            (k \in DOMAIN queue /\ queue'[k] = queue[k]) \/ queue'[k] = e
      BY <1>1, <3>1
    <3> QED
      BY <2>2, <3>1, <3>2 DEF StrayIsHarmless, Harmless
  <2> QED
    BY <2>3, <2>4
<1> QED
  BY <1>4, <1>5, <1>6 DEF StrayInv

\* Events are only taken.
LEMMA QueueCalm ==
    ASSUME IInv, StrayInv, strays' = strays,
           queue' = queue \/ queue' = <<>> \/ (queue # <<>> /\ queue' = Tail(queue))
    PROVE  strays' <= 1 => StrayIsHarmless'
<1> SUFFICES ASSUME strays <= 1 PROVE StrayIsHarmless'
  OBVIOUS
<1>1. queue \in Seq(GuiEvent) /\ \A k \in DOMAIN queue : Harmless(queue[k])
  BY StrayType DEF StrayInv, StrayIsHarmless, Harmless
<1>2. CASE queue' = queue
  BY <1>1, <1>2 DEF StrayIsHarmless, Harmless
<1>3. CASE queue' = <<>>
  BY <1>3 DEF StrayIsHarmless
<1>4. CASE queue # <<>> /\ queue' = Tail(queue)
  <2>1. \A k \in DOMAIN queue' : k + 1 \in DOMAIN queue /\ queue'[k] = queue[k + 1]
    BY <1>1, <1>4, HeadTail
  <2> QED
    BY <1>1, <2>1 DEF StrayIsHarmless, Harmless
<1> QED
  BY <1>2, <1>3, <1>4

\* What queries of a pair do not notice.
Unnoticed(p, q) ==
    /\ q.load = p.load
    /\ q.seq = p.seq /\ q.start = p.start
    /\ q.cut = p.cut /\ q.retried = p.retried /\ q.outcome = p.outcome

\* A step of the GUI thread that begins no load: it disturbs outdated pairs only.
LEMMA GuiCalm ==
    ASSUME IInv, StrayInv, DOMAIN pairs' = DOMAIN pairs, strays' = strays,
           \A i \in DOMAIN pairs : pairs'[i].load = pairs[i].load,
           Outdated \/ \A i \in DOMAIN pairs : Unnoticed(pairs[i], pairs'[i]),
           gui'.gen = gui.gen, gui'.pc \in {"cancel", "check", "touch"} => Outdated,
           queue' = queue \/ queue' = <<>> \/ (queue # <<>> /\ queue' = Tail(queue))
    PROVE  StrayInv'
<1>1. \A i \in DOMAIN pairs :
        /\ pairs[i].load <= gui.gen
        /\ pairs[i].load = gui.gen => Undisturbed(pairs[i], strays)
  BY StrayType
<1>2. LoadsInv'
  BY <1>1 DEF LoadsInv, Outdated
<1>3. UndisturbedInv'
  BY <1>1 DEF UndisturbedInv, Outdated, Undisturbed, Unnoticed
<1>4. strays' <= 1 => StrayIsHarmless'
  BY QueueCalm
<1> QED
  BY <1>2, <1>3, <1>4 DEF StrayInv

-----------------------------------------------------------------------------
\* A thread's statement of the load on display ends early only when a stray
\* interrupt cut it, and then it is tried again.
LEMMA StopStatementCalm ==
    ASSUME IInv, StrayInv, NEW i \in DOMAIN pairs, StopStatement(i)
    PROVE  StrayInv'
<1> DEFINE p == pairs[i]
           again == [p EXCEPT !.retried = TRUE, !.cut = FALSE]
           over == [p EXCEPT !.running = FALSE, !.cut = FALSE, !.outcome = "interrupted",
                             !.todo = <<>>]
<1>1. /\ p \in Pair /\ p.load \in Nat /\ p.cut \in BOOLEAN /\ strays \in Nat
      /\ p.load = gui.gen => Undisturbed(p, strays)
  BY StrayType DEF Pair
<1>2. again \in Pair /\ over \in Pair
  <2>1. "interrupted" \in Outcome /\ <<>> \in Seq(Step)
    BY DEF Outcome
  <2> QED
    BY <1>1, <2>1 DEF Pair
<1>3. /\ again.load = p.load /\ again.seq = p.seq /\ again.start = p.start
      /\ again.outcome = p.outcome /\ again.cut = FALSE
      /\ over.load = p.load /\ over.seq = p.seq /\ over.start = p.start /\ over.cut = FALSE
      /\ over.retried = p.retried
  BY <1>1 DEF Pair
<1>4. /\ UNCHANGED <<gui, queue, strays>> /\ ToldToStop(p)
      /\ \/ MayRetry(p) /\ pairs' = [pairs EXCEPT ![i] = again]
         \/ ~MayRetry(p) /\ pairs' = [pairs EXCEPT ![i] = over]
  BY DEF StopStatement
<1> HIDE DEF p, again, over
<1>5. CASE p.load = gui.gen
  <2>1. p.seq = 0 /\ p.start = 0 /\ p.cut
    BY <1>1, <1>4, <1>5 DEF Undisturbed, ToldToStop, IsViewStale
  <2>2. strays # 0 /\ (~p.retried => MayRetry(p))
    BY <1>1, <1>5, <2>1 DEF Undisturbed, MayRetry, IsViewStale
  <2>3. Undisturbed(again, strays)
    BY <1>1, <1>3, <1>5, <2>2 DEF Undisturbed
  <2>4. ~MayRetry(p) => Undisturbed(over, strays)
    <3>1. ASSUME ~MayRetry(p) PROVE strays \notin {0, 1}
      BY <1>1, <1>5, <2>1, <2>2, <3>1 DEF Undisturbed
    <3>2. strays \notin {0, 1} => ~(strays <= 1)
      BY <1>1
    <3> QED
      BY <1>3, <2>1, <3>1, <3>2 DEF Undisturbed
  <2> QED
    BY <1>2, <1>3, <1>4, <2>3, <2>4, ThreadCalm DEF p
<1>6. CASE p.load # gui.gen
  BY <1>2, <1>3, <1>4, <1>6, ThreadCalm DEF p
<1> QED
  BY <1>5, <1>6

\* A stray interrupt hits one statement.
LEMMA StrayInterruptCalm ==
    ASSUME IInv, StrayInv, NEW i \in DOMAIN pairs, StrayInterrupt(i)
    PROVE  StrayInv'
<1> DEFINE p == pairs[i]
           q == [p EXCEPT !.cut = TRUE]
<1>1. p \in Pair /\ strays \in Nat
  BY StrayType
<1>2. /\ q \in Pair /\ q.load = p.load /\ q.seq = p.seq /\ q.start = p.start
      /\ q.retried = p.retried /\ q.outcome = p.outcome
  BY <1>1 DEF Pair
<1>3. pairs' = [pairs EXCEPT ![i] = q] /\ strays' = strays + 1 /\ UNCHANGED <<gui, queue>>
  BY DEF StrayInterrupt
<1> HIDE DEF q
<1>4. Undisturbed(p, strays) => Undisturbed(q, strays + 1)
  BY <1>1, <1>2 DEF Undisturbed
<1> QED
  BY <1>1, <1>2, <1>3, <1>4, ThreadCalm

\* A call that returns says it was interrupted only if it was, twice.
LEMMA ReturnCalm ==
    ASSUME IInv, StrayInv, NEW i \in DOMAIN pairs, Return(i)
    PROVE  StrayInv'
<1> DEFINE p == pairs[i]
           inbox == IF p.call \in {"parse", "shutdown"} THEN Append(p.inbox, "delete") ELSE p.inbox
           q == [p EXCEPT !.call = "none", !.outcome = "none", !.start = 0, !.retried = FALSE,
                          !.inbox = inbox]
           e == Note(p.call, p.load, p.outcome)
<1>1. p \in Pair /\ strays \in Nat /\ (p.load = gui.gen => Undisturbed(p, strays))
  BY StrayType
<1>2. inbox \in Seq(Calls \union {"delete"})
  BY <1>1 DEF Pair
<1> HIDE DEF inbox
<1>3. q \in Pair
  BY <1>1, <1>2 DEF Pair, Outcome
<1>4. /\ q.load = p.load /\ q.seq = p.seq /\ q.start = 0 /\ q.cut = p.cut
      /\ q.retried = FALSE /\ q.outcome = "none"
  BY <1>1 DEF Pair
<1>5. pairs' = [pairs EXCEPT ![i] = q] /\ UNCHANGED <<gui, strays>>
  BY DEF Return, inbox
<1> HIDE DEF q
<1>6. Undisturbed(p, strays) => Undisturbed(q, strays)
  BY <1>1, <1>4 DEF Undisturbed
<1>7. \/ queue' = queue
      \/ /\ queue' = Append(queue, e) /\ p.call # "shutdown"
         /\ p.call = "parse" \/ p.load = gui.gen
  BY DEF Return, IsViewStale
<1>8. p.call # "none"
  BY DEF Return
<1>9. p.call # "shutdown" => e \in GuiEvent
  BY <1>1, <1>8 DEF Note, GuiEvent, Pair, Calls
<1>10. strays <= 1 /\ (p.call = "parse" \/ p.load = gui.gen) => Harmless(e)
  BY <1>1 DEF Harmless, Note, Undisturbed
<1> HIDE DEF e
<1> QED
  BY <1>1, <1>3, <1>4, <1>5, <1>6, <1>7, <1>9, <1>10, ThreadCalm

\* The other steps of a thread.
LEMMA ThreadStepCalm ==
    ASSUME IInv, StrayInv, IInv', NEW i \in DOMAIN pairs,
           TakeCall(i) \/ Advance(i) \/ FinishStatement(i) \/ DeleteWorker(i) \/ Finish(i)
    PROVE  StrayInv'
<1> DEFINE p == pairs[i]
<1>1. /\ p \in Pair /\ pairs \in Seq(Pair) /\ strays \in Nat
      /\ p.load = gui.gen => Undisturbed(p, strays)
  BY StrayType
<1>2. ASSUME NEW q, pairs' = [pairs EXCEPT ![i] = q],
             q.load = p.load, Undisturbed(p, strays) => Undisturbed(q, strays),
             UNCHANGED <<gui, strays>>,
             queue' = queue \/ queue' = Destroyed(i)
      PROVE  StrayInv'
  <2>1. q \in Pair
    <3>1. pairs'[i] = q /\ DOMAIN pairs' = DOMAIN pairs
      BY <1>1, <1>2
    <3>2. pairs' \in Seq(Pair)
      BY DEF IInv, TypeOK
    <3> QED
      BY <3>1, <3>2
  <2>2. Note("delete", i, "none") \in GuiEvent /\ Harmless(Note("delete", i, "none"))
    BY <1>1 DEF Note, GuiEvent, Outcome, Harmless
  <2> QED
    BY <1>2, <2>1, <2>2, ThreadCalm DEF Destroyed
<1>3. CASE TakeCall(i)
  <2> DEFINE rest == Tail(p.inbox)
             taken == [p EXCEPT !.inbox = rest, !.call = Head(p.inbox),
                                !.todo = Steps(Head(p.inbox)), !.outcome = "ok"]
  <2>1. \A b : LET q == [p EXCEPT !.inbox = b]
               IN  q.load = p.load /\ (Undisturbed(p, strays) => Undisturbed(q, strays))
    BY <1>1 DEF Pair, Undisturbed
  <2>2. taken.load = p.load /\ (Undisturbed(p, strays) => Undisturbed(taken, strays))
    BY <1>1 DEF Pair, Undisturbed
  <2>3. \/ \E b : pairs' = [pairs EXCEPT ![i] = [p EXCEPT !.inbox = b]]
        \/ pairs' = [pairs EXCEPT ![i] = taken]
    BY <1>3 DEF TakeCall, NotParsed
  <2>4. UNCHANGED <<gui, strays, queue>>
    BY <1>3 DEF TakeCall
  <2> HIDE DEF taken, p
  <2> QED
    BY <1>2, <2>1, <2>2, <2>3, <2>4
<1>4. CASE Advance(i)
  <2> DEFINE t == [p EXCEPT !.todo = Tail(@)]
             Fine(q) == q.load = p.load /\ (Undisturbed(p, strays) => Undisturbed(q, strays))
  <2>1. Fine([t EXCEPT !.start = p.seq]) /\ Fine([t EXCEPT !.handle = FALSE])
    BY <1>1 DEF Pair, Undisturbed
  <2>2. Fine([t EXCEPT !.open = FALSE]) /\ Fine([t EXCEPT !.open = TRUE, !.handle = TRUE])
    BY <1>1 DEF Pair, Undisturbed
  <2>3. /\ Fine([p EXCEPT !.todo = <<>>, !.outcome = "failed"])
        /\ Fine([p EXCEPT !.running = TRUE, !.cut = FALSE])
    BY <1>1 DEF Pair, Undisturbed
  <2>4. \E q \in {[t EXCEPT !.start = p.seq], [t EXCEPT !.handle = FALSE],
                  [t EXCEPT !.open = FALSE], [t EXCEPT !.open = TRUE, !.handle = TRUE],
                  [p EXCEPT !.todo = <<>>, !.outcome = "failed"],
                  [p EXCEPT !.running = TRUE, !.cut = FALSE]} :
          pairs' = [pairs EXCEPT ![i] = q]
    BY <1>4 DEF Advance
  <2> HIDE DEF Fine, t, p
  <2>5. PICK q : Fine(q) /\ pairs' = [pairs EXCEPT ![i] = q]
    BY <2>1, <2>2, <2>3, <2>4
  <2>6. UNCHANGED <<gui, strays, queue>>
    BY <1>4 DEF Advance
  <2> QED
    BY <1>2, <2>5, <2>6 DEF Fine
<1>5. CASE FinishStatement(i)
  <2> DEFINE q == [p EXCEPT !.running = FALSE, !.cut = FALSE, !.todo = <<>>]
  <2>1. q.load = p.load /\ (Undisturbed(p, strays) => Undisturbed(q, strays))
    BY <1>1 DEF Pair, Undisturbed
  <2>2. pairs' = [pairs EXCEPT ![i] = q] /\ UNCHANGED <<gui, strays, queue>>
    BY <1>5 DEF FinishStatement
  <2> HIDE DEF q, p
  <2> QED
    BY <1>2, <2>1, <2>2
<1>6. CASE DeleteWorker(i)
  <2> DEFINE q == Freed(p)
  <2>1. q.load = p.load /\ (Undisturbed(p, strays) => Undisturbed(q, strays))
    BY <1>1 DEF Pair, Undisturbed, Freed
  <2>2. pairs' = [pairs EXCEPT ![i] = q] /\ UNCHANGED <<gui, strays>> /\ queue' = Destroyed(i)
    BY <1>6 DEF DeleteWorker
  <2> HIDE DEF q, p
  <2> QED
    BY <1>2, <2>1, <2>2
<1>7. CASE Finish(i)
  <2> DEFINE q == [p EXCEPT !.thread = "finished"]
             r == [Freed(p) EXCEPT !.thread = "finished"]
  <2>1. q.load = p.load /\ (Undisturbed(p, strays) => Undisturbed(q, strays))
    BY <1>1 DEF Pair, Undisturbed
  <2>2. r.load = p.load /\ (Undisturbed(p, strays) => Undisturbed(r, strays))
    BY <1>1 DEF Pair, Undisturbed, Freed
  <2>3. /\ pairs' = [pairs EXCEPT ![i] = q] \/ pairs' = [pairs EXCEPT ![i] = r]
        /\ UNCHANGED <<gui, strays>>
        /\ queue' = queue \/ queue' = Destroyed(i)
    BY <1>7 DEF Finish
  <2> HIDE DEF q, r, p
  <2> QED
    BY <1>2, <2>1, <2>2, <2>3
<1> QED
  BY <1>3, <1>4, <1>5, <1>6, <1>7

-----------------------------------------------------------------------------
\* cancelPending() makes every pair one of an earlier load.
LEMMA BeginCancelCalm ==
    ASSUME IInv, StrayInv, NEW after, BeginCancel(after), strays' = strays,
           queue' = queue \/ (queue # <<>> /\ queue' = Tail(queue))
    PROVE  StrayInv'
<1>1. /\ pairs \in Seq(Pair) /\ gui \in Gui /\ gui.gen \in Nat
      /\ \A i \in DOMAIN pairs :
           pairs[i] \in Pair /\ pairs[i].load \in Nat /\ pairs[i].load <= gui.gen
  BY StrayType, GuiType
<1>2. DOMAIN pairs' = DOMAIN pairs /\ \A i \in DOMAIN pairs : pairs'[i].load = pairs[i].load
  <2>1. \A i \in DOMAIN pairs : [pairs[i] EXCEPT !.asked = TRUE].load = pairs[i].load
    BY <1>1 DEF Pair
  <2> QED
    BY <2>1 DEF BeginCancel
<1>3. gui'.gen = gui.gen + 1
  BY <1>1 DEF BeginCancel, Gui
<1>4. \A i \in DOMAIN pairs' : pairs'[i].load <= gui'.gen /\ pairs'[i].load # gui'.gen
  BY <1>1, <1>2, <1>3
<1>5. LoadsInv' /\ UndisturbedInv'
  BY <1>4 DEF LoadsInv, UndisturbedInv, Outdated
<1>6. strays' <= 1 => StrayIsHarmless'
  BY QueueCalm
<1> QED
  BY <1>5, <1>6 DEF StrayInv

\* The pairs it interrupts are of earlier loads; those that are made have not
\* been interrupted.
LEMMA EndCancelCalm ==
    ASSUME IInv, StrayInv, EndCancel
    PROVE  StrayInv'
<1> DEFINE n == Len(pairs)
           retired == [i \in DOMAIN pairs |-> Retired(i)]
<1>1. /\ pairs \in Seq(Pair) /\ gui \in Gui /\ n \in Nat /\ DOMAIN pairs = 1..n
      /\ gui.gen \in Nat /\ strays \in Nat
  BY GuiType DEF Gui
<1>2. ASSUME NEW i \in DOMAIN pairs
      PROVE  Retired(i) \in Pair /\ Retired(i).load <= gui.gen /\ Retired(i).load # gui.gen
  <2>1. Ordinary(pairs[i], Retired(i))
    BY RetiredType
  <2>2. gui.pc = "cancel"
    BY DEF EndCancel
  <2>3. pairs[i] \in Pair /\ pairs[i].load <= gui.gen /\ pairs[i].load # gui.gen
    BY <2>2, StrayType DEF Outdated
  <2>4. Retired(i).load = pairs[i].load
    BY <2>3 DEF Retired, Interrupted, Pair
  <2> QED
    BY <2>1, <2>3, <2>4 DEF Ordinary
<1>3. retired \in [DOMAIN pairs -> Pair]
  BY <1>2
<1>4. retired \in Seq(Pair) /\ Len(retired) = n /\ DOMAIN retired = 1..n
  BY <1>1, <1>3, Mapped
<1>5. \A i \in 1..n : retired[i].load <= gui.gen /\ retired[i].load # gui.gen
  BY <1>1, <1>2
<1>6. UNCHANGED <<queue, strays>> /\ gui'.gen = gui.gen
  BY <1>1 DEF EndCancel, Gui
<1>7. gui'.pc \in {"idle", "check"} /\ (gui'.pc = "check" => pairs' = retired)
  BY <1>1 DEF EndCancel, Gui
<1> HIDE DEF retired
<1>8. /\ Len(pairs') \in Nat /\ DOMAIN pairs' = 1..Len(pairs') /\ n <= Len(pairs')
      /\ pairs' = retired => Len(pairs') = n
      /\ \A i \in 1..n : pairs'[i] = retired[i]
      /\ \A i \in DOMAIN pairs' : i \in 1..n \/
           \E kind, inbox : pairs'[i] = NewPair(kind, gui.gen, inbox)
  <2> HIDE DEF n
  <2>1. CASE pairs' = retired
    BY <1>1, <1>4, <2>1
  <2>2. CASE pairs' = Append(retired, NewPair("table", gui.gen, <<"parse">>))
    <3> DEFINE q == NewPair("table", gui.gen, <<"parse">>)
    <3>1. \E kind, inbox : q = NewPair(kind, gui.gen, inbox)
      OBVIOUS
    <3> HIDE DEF q
    <3>2. pairs' = Append(retired, q)
      BY <2>2 DEF q
    <3>3. /\ DOMAIN pairs' = 1..(n + 1) /\ Len(pairs') = n + 1 /\ pairs'[n + 1] = q
          /\ \A i \in 1..n : pairs'[i] = retired[i]
      BY <1>1, <1>4, <3>2
    <3>4. \A i \in DOMAIN pairs' : i \in 1..n \/ pairs'[i] = q
      BY <1>1, <3>3
    <3>5. pairs' # retired
      BY <1>1, <1>4, <3>3
    <3> QED
      BY <1>1, <3>1, <3>3, <3>4, <3>5
  <2>3. CASE pairs' = retired \o <<NewPair("source", gui.gen, <<"open">>),
                                   NewPair("count", gui.gen, <<>>)>>
    <3> DEFINE q == NewPair("source", gui.gen, <<"open">>)
               r == NewPair("count", gui.gen, <<>>)
    <3>1. (\E kind, inbox : q = NewPair(kind, gui.gen, inbox))
          /\ (\E kind, inbox : r = NewPair(kind, gui.gen, inbox))
      OBVIOUS
    <3>6. q \in Pair /\ r \in Pair
      BY <1>1, NewPairType
    <3> HIDE DEF q, r
    <3>2. pairs' = retired \o <<q, r>>
      BY <2>3 DEF q, r
    <3>3. /\ DOMAIN pairs' = 1..(n + 2) /\ Len(pairs') = n + 2
          /\ pairs'[n + 1] = q /\ pairs'[n + 2] = r
          /\ \A i \in 1..n : pairs'[i] = retired[i]
      BY <1>1, <1>4, <3>2, <3>6, TwoMore
    <3>4. \A i \in DOMAIN pairs' : i \in 1..n \/ pairs'[i] = q \/ pairs'[i] = r
      BY <1>1, <3>3
    <3>5. pairs' # retired
      BY <1>1, <1>4, <3>3
    <3> QED
      BY <1>1, <3>1, <3>3, <3>4, <3>5
  <2> QED
    BY <2>1, <2>2, <2>3 DEF EndCancel, retired, n
<1> HIDE DEF n
<1>9. \A kind, inbox : /\ NewPair(kind, gui.gen, inbox).load = gui.gen
                       /\ Undisturbed(NewPair(kind, gui.gen, inbox), strays)
  BY DEF NewPair, Undisturbed
<1>10. \A i \in DOMAIN pairs' :
         /\ pairs'[i].load <= gui.gen
         /\ pairs'[i].load = gui.gen => Undisturbed(pairs'[i], strays)
  <2> TAKE i \in DOMAIN pairs'
  <2>1. CASE i \in 1..n
    BY <1>5, <1>8, <2>1
  <2>2. CASE \E kind, inbox : pairs'[i] = NewPair(kind, gui.gen, inbox)
    <3>1. PICK kind, inbox : pairs'[i] = NewPair(kind, gui.gen, inbox)
      BY <2>2
    <3>2. pairs'[i].load = gui.gen /\ Undisturbed(pairs'[i], strays)
      BY <1>9, <3>1
    <3> QED
      BY <1>1, <3>2
  <2> QED
    BY <1>8, <2>1, <2>2
<1>11. gui'.pc = "check" => \A i \in DOMAIN pairs' : pairs'[i].load # gui.gen
  BY <1>1, <1>5, <1>7, <1>8
<1>12. LoadsInv' /\ UndisturbedInv'
  BY <1>6, <1>7, <1>10, <1>11 DEF LoadsInv, UndisturbedInv, Outdated
<1>13. strays' <= 1 => StrayIsHarmless'
  BY <1>6, QueueCalm
<1> QED
  BY <1>12, <1>13 DEF StrayInv

\* One pair changes, in nothing that its queries notice.
LEMMA OneUnnoticed ==
    ASSUME IInv, NEW i, NEW q, i \in DOMAIN pairs => Unnoticed(pairs[i], q),
           pairs' = [pairs EXCEPT ![i] = q]
    PROVE  /\ DOMAIN pairs' = DOMAIN pairs
           /\ \A j \in DOMAIN pairs : /\ Unnoticed(pairs[j], pairs'[j])
                                      /\ pairs'[j].load = pairs[j].load
BY DEF Unnoticed

LEMMA OnSignalCalm ==
    ASSUME IInv, StrayInv, OnSignal
    PROVE  StrayInv'
<1>1. /\ pairs \in Seq(Pair) /\ gui \in Gui /\ \A i \in DOMAIN pairs : pairs[i] \in Pair
  BY GuiType
<1>2. /\ gui.pc = "idle" /\ queue # <<>> /\ queue' = Tail(queue) /\ strays' = strays
  BY DEF OnSignal
<1>3. CASE UNCHANGED <<gui, pairs>>
  BY <1>2, <1>3, GuiCalm DEF Unnoticed
<1>4. CASE \E after : BeginCancel(after)
  BY <1>2, <1>4, BeginCancelCalm
<1>5. CASE \E i, c : PostTo(i, c) /\ gui'.gen = gui.gen /\ gui'.pc = "idle"
  <2>1. PICK i, c : PostTo(i, c)
    BY <1>5
  <2> DEFINE q == [pairs[i] EXCEPT !.inbox = Append(@, c)]
  <2>2. i \in DOMAIN pairs => Unnoticed(pairs[i], q)
    BY <1>1 DEF Unnoticed, Pair
  <2>3. pairs' = [pairs EXCEPT ![i] = q]
    BY <2>1 DEF PostTo
  <2> HIDE DEF q
  <2> QED
    BY <1>2, <1>5, <2>2, <2>3, OneUnnoticed, GuiCalm
<1>6. /\ [gui EXCEPT !.countRequested = TRUE].gen = gui.gen
      /\ [gui EXCEPT !.countRequested = TRUE].pc = gui.pc
  BY <1>1 DEF Gui
<1> QED
  BY <1>2, <1>3, <1>4, <1>5, <1>6 DEF OnSignal

LEMMA JoinCalm ==
    ASSUME IInv, StrayInv,
           DeleteThread \/ ThreadDeleted \/ CheckWorker \/ TouchWorker \/ Reclaim
    PROVE  StrayInv'
<1>1. /\ pairs \in Seq(Pair) /\ gui \in Gui /\ \A i \in DOMAIN pairs : pairs[i] \in Pair
      /\ gui.pc \in {"cancel", "check", "touch"} => Outdated
  BY StrayType, GuiType
<1>2. strays' = strays
  BY DEF DeleteThread, ThreadDeleted, CheckWorker, TouchWorker, Reclaim
<1>3. CASE DeleteThread
  <2> DEFINE i == Head(queue).n
             q == [pairs[i] EXCEPT !.quit = TRUE]
  <2>1. i \in DOMAIN pairs => Unnoticed(pairs[i], q)
    BY <1>1 DEF Unnoticed, Pair
  <2>2. pairs' = [pairs EXCEPT ![i] = q] /\ queue # <<>> /\ queue' = Tail(queue)
    BY <1>3 DEF DeleteThread
  <2>3. gui'.gen = gui.gen /\ gui'.pc = "thread"
    BY <1>1, <1>3 DEF DeleteThread, Gui
  <2> HIDE DEF q, i
  <2> QED
    BY <1>2, <2>1, <2>2, <2>3, OneUnnoticed, GuiCalm
<1>4. CASE ThreadDeleted
  <2> DEFINE q == [pairs[gui.at] EXCEPT !.thread = "freed"]
  <2>1. gui.at \in DOMAIN pairs => Unnoticed(pairs[gui.at], q)
    BY <1>1 DEF Unnoticed, Pair
  <2>2. pairs' = [pairs EXCEPT ![gui.at] = q] /\ queue' = queue
    BY <1>4 DEF ThreadDeleted
  <2>3. gui'.gen = gui.gen /\ gui'.pc = "idle"
    BY <1>1, <1>4 DEF ThreadDeleted, Gui
  <2> HIDE DEF q
  <2> QED
    BY <1>2, <2>1, <2>2, <2>3, OneUnnoticed, GuiCalm
<1>5. CASE CheckWorker
  <2>1. PICK i \in ledger :
          \/ gui' = [gui EXCEPT !.pc = "touch", !.at = i] /\ UNCHANGED pairs
          \/ gui' = [gui EXCEPT !.at = i] /\ pairs' = [pairs EXCEPT ![i] = StopThread(@)]
    BY <1>5 DEF CheckWorker
  <2>2. i \in DOMAIN pairs => Unnoticed(pairs[i], StopThread(pairs[i]))
    BY <1>1 DEF Unnoticed, Pair, StopThread
  <2>3. /\ DOMAIN pairs' = DOMAIN pairs
        /\ \A j \in DOMAIN pairs : pairs'[j].load = pairs[j].load
    BY <2>1, <2>2, OneUnnoticed
  <2>4. gui'.gen = gui.gen
    BY <1>1, <2>1 DEF Gui
  <2>5. Outdated /\ queue' = queue
    BY <1>1, <1>5 DEF CheckWorker
  <2> QED
    BY <1>2, <2>3, <2>4, <2>5, GuiCalm
<1>6. CASE TouchWorker
  <2> DEFINE p == pairs[gui.at]
             r == IF p.kind = "table" THEN p ELSE Interrupted(p)
             s == [r EXCEPT !.linked = FALSE]
             q == StopThread(s)
  <2>1. gui.at \in DOMAIN pairs /\ p \in Pair /\ PairOK(p)
    BY <1>6, GuiType DEF TouchWorker, IInv, GuiInv
  <2>2. r \in Pair /\ r.load = p.load
    <3>1. Interrupted(p) \in Pair
      BY <2>1, InterruptedType DEF Ordinary
    <3>2. Interrupted(p).load = p.load
      BY <2>1 DEF Interrupted, Pair
    <3> QED
      BY <2>1, <3>1, <3>2
  <2> HIDE DEF r
  <2>3. s \in Pair /\ s.load = r.load
    BY <2>2 DEF Pair
  <2> HIDE DEF s
  <2>4. q.load = s.load
    BY <2>3 DEF StopThread, Pair
  <2>5. \/ gui' = [gui EXCEPT !.pc = "check"] /\ pairs' = [pairs EXCEPT ![gui.at] = q]
        \/ gui' = [gui EXCEPT !.pc = "crashed"] /\ UNCHANGED pairs
    BY <1>6 DEF TouchWorker, s, r
  <2> HIDE DEF q
  <2>6. /\ DOMAIN pairs' = DOMAIN pairs
        /\ \A j \in DOMAIN pairs : pairs'[j].load = pairs[j].load
    BY <2>2, <2>3, <2>4, <2>5
  <2>7. gui'.gen = gui.gen
    BY <1>1, <2>5 DEF Gui
  <2>8. Outdated /\ queue' = queue
    BY <1>1, <1>6 DEF TouchWorker
  <2> QED
    BY <1>2, <2>6, <2>7, <2>8, GuiCalm
<1>7. CASE Reclaim
  <2>1. \A i \in DOMAIN pairs : [Freed(pairs[i]) EXCEPT !.thread = "freed"].load = pairs[i].load
    BY <1>1 DEF Freed, Pair
  <2>2. /\ DOMAIN pairs' = DOMAIN pairs
        /\ \A i \in DOMAIN pairs : pairs'[i].load = pairs[i].load
    BY <1>7, <2>1 DEF Reclaim
  <2>3. gui'.gen = gui.gen /\ gui'.pc = "gone"
    BY <1>1, <1>7 DEF Reclaim, Gui
  <2>4. Outdated /\ (queue' = queue \/ queue' = <<>>)
    BY <1>1, <1>7 DEF Reclaim
  <2> QED
    BY <1>2, <2>2, <2>3, <2>4, GuiCalm
<1> QED
  BY <1>3, <1>4, <1>5, <1>6, <1>7

LEMMA NextCalm == IInv /\ StrayInv /\ [Next]_vars /\ IInv' => StrayInv'
<1> SUFFICES ASSUME IInv, StrayInv, [Next]_vars, IInv' PROVE StrayInv'
  OBVIOUS
<1>1. CASE \E i \in DOMAIN pairs : ThreadStep(i)
  BY <1>1, ThreadStepCalm, StopStatementCalm, ReturnCalm DEF ThreadStep
<1>2. CASE \E i \in DOMAIN pairs : FinishStatement(i) \/ StrayInterrupt(i)
  BY <1>2, ThreadStepCalm, StrayInterruptCalm
<1>3. CASE GuiStep
  BY <1>3, EndCancelCalm, OnSignalCalm, JoinCalm DEF GuiStep
<1>4. CASE Load \/ Destroy
  BY <1>4, BeginCancelCalm DEF Load, Destroy
<1>5. CASE UNCHANGED vars
  <2>1. UNCHANGED <<pairs, gui, queue, strays>>
    BY <1>5 DEF vars
  <2> QED
    BY <2>1, GuiCalm DEF Unnoticed, StrayInv, LoadsInv
<1> QED
  BY <1>1, <1>2, <1>3, <1>4, <1>5 DEF Next

\* While there was one interrupt at most that nobody asked for, wherever it hit,
\* no page and no count of the load on display was reported as interrupted
\* (executeWithInterruptRetry, and the retry in CountWorker::count).
THEOREM OneStrayIsHarmless == Spec => [](strays <= 1 => StrayIsHarmless)
<1>1. Init => StrayInv
  <2> SUFFICES ASSUME Init PROVE StrayInv
    OBVIOUS
  <2>1. pairs = <<>> /\ queue = <<>> /\ gui.pc = "idle"
    BY DEF Init
  <2> QED
    BY <2>1 DEF StrayInv, LoadsInv, UndisturbedInv, StrayIsHarmless, Outdated
<1>2. StrayInv => (strays <= 1 => StrayIsHarmless)
  BY DEF StrayInv
<1> QED
  BY <1>1, <1>2, InitInv, NextInv, NextCalm, PTL DEF Spec

=============================================================================
