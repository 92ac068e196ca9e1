---------------------------- MODULE PagedViewer ----------------------------
(***************************************************************************)
(* DataTableViewer keeps the promises of PagedTable.                       *)
(***************************************************************************)
EXTENDS DataTableViewer

CONSTANT Nothing        \* what is waited for when nothing is

ASSUME NothingAssumption == Nothing \notin [page : Nat, order : Order]

\* What the user waits for: the first page of the order asked for, or a page of
\* the one on display.  While an order is restored, nothing.
Asked ==
    IF ui.sorting
    THEN IF ui.recovering THEN Nothing ELSE [page |-> 1, order |-> ui.pending]
    ELSE IF ui.inFlight THEN [page |-> ui.pendingPage, order |-> ui.committed]
    ELSE Nothing

\* The rows in the window: until its first page a table has none there.
Display == IF OnDisplay THEN shown.rows ELSE <<>>

\* A file whose index failed.
Unreadable == ui.paged /\ ui.kind = "csv" /\ src.failed

Window == INSTANCE PagedTable WITH
    table <- rows,
    open <- ui.paged,
    broken <- Unreadable,
    screen <- Display,
    page <- ui.pager.page,
    order <- ui.committed,
    asked <- Asked

\* Whatever is queued, stale, parked or cancelled in the threads, what the window
\* shows changes only to the page that was asked for last, with its number and
\* its order in one step, or to nothing when the table is left.
ImplementsPagedTable == Window!Spec

=============================================================================
