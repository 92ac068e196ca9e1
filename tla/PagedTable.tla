----------------------------- MODULE PagedTable -----------------------------
(***************************************************************************)
(* What the window promises to somebody who reads a table: a page that was *)
(* asked for comes whole, in the order asked for, and with its number and  *)
(* its order, or not at all, and then nothing changes.  There is nothing   *)
(* here of requests, tokens, sources and what may be stale.                *)
(***************************************************************************)
EXTENDS TablePages

CONSTANT Nothing        \* no page is being waited for

VARIABLES
    table,      \* the rows
    open,       \* the table is on display, or is being opened
    broken,     \* it is a file that can be read no further
    screen,     \* the rows on display
    page,       \* the number of their page
    order,      \* the order they are in
    asked       \* the page and the order waited for

windowVars == <<table, open, broken, screen, page, order, asked>>

Request(p, o) == [page |-> p, order |-> o]

RowsOf(p, o) ==
    LET all == Ranked(table, o)
    IN  AtMost(SubSeq(all, FirstRowOnPage(p), Len(all)), PageSize)

Blank == screen' = <<>> /\ page' = 1 /\ order' = Unsorted /\ asked' = Nothing

Init ==
    /\ table \subseteq Row
    /\ open = FALSE /\ broken = FALSE
    /\ screen = <<>> /\ page = 1 /\ order = Unsorted /\ asked = Nothing

\* Another table is chosen.
Load ==
    /\ table' \subseteq Row
    /\ open' = TRUE /\ broken' = FALSE
    /\ Blank

\* The table is left, or could not be opened.
Leave ==
    /\ open
    /\ open' = FALSE /\ broken' = FALSE
    /\ Blank
    /\ UNCHANGED table

\* A page is turned to; the first one, when the table has been opened.
Turn ==
    /\ open
    /\ asked = Nothing
    /\ \E p \in {1, page - 1, page + 1, PageCount(Cardinality(table))} \ {0} :
         asked' = Request(p, order)
    /\ UNCHANGED <<table, open, broken, screen, page, order>>

\* An order is asked for, possibly in place of another one.
Sort ==
    /\ open
    /\ asked = Nothing \/ asked.page = 1
    /\ \E o \in SortState : asked' = Request(1, o)
    /\ UNCHANGED <<table, open, broken, screen, page, order>>

\* What was asked for is there.  A file that can be read no further may have
\* less of it.
Show ==
    /\ open
    /\ asked # Nothing
    /\ LET there == RowsOf(asked.page, asked.order)
       IN  \/ screen' = there
           \/ /\ broken /\ screen' # <<>>
              /\ screen' = AtMost(there, Len(screen'))
    /\ page' = asked.page
    /\ order' = asked.order
    /\ asked' = Nothing
    /\ UNCHANGED <<table, open, broken>>

\* It will not come: the page could not be read, or the sort was cancelled.
GiveUp ==
    /\ asked # Nothing
    /\ asked' = Nothing
    /\ UNCHANGED <<table, open, broken, screen, page, order>>

\* The rest of a file cannot be read.
Break ==
    /\ open /\ ~broken
    /\ broken' = TRUE
    /\ UNCHANGED <<table, open, screen, page, order, asked>>

Next == Load \/ Leave \/ Turn \/ Sort \/ Show \/ GiveUp \/ Break

Spec == Init /\ [][Next]_windowVars

=============================================================================
