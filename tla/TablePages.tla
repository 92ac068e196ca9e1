----------------------------- MODULE TablePages -----------------------------
(***************************************************************************)
(* How a source cuts a table into pages: SqliteTableSource over a rowid    *)
(* table, over a table or view without one, and over the ordinal table a   *)
(* sort leaves behind, and CsvFileSource over the part of the file that is *)
(* indexed.  A row is its rowid or its record number in the file; what it  *)
(* contains does not matter here, except through Key, the value a sort     *)
(* compares.                                                               *)
(***************************************************************************)
EXTENDS PagerState, Sequences, FiniteSets

CONSTANTS
    Row,        \* the rows the table starts with
    Column,     \* the columns a user may sort by
    Key         \* Key[c][r], the value of row r in column c

ASSUME TableAssumption ==
    /\ Row \subseteq Nat \ {0}
    /\ IsFiniteSet(Row)
    /\ Key \in [Column -> [Row -> Int]]

Kind == {"csv", "rowid", "norowid"}

\* A sort the user asked for, or the order the table comes in.
SortState == [column : Column, ascending : BOOLEAN]
Unsorted == [column |-> "none", ascending |-> TRUE]
Order == SortState \union {Unsorted}

\* ROW_NUMBER() OVER (ORDER BY column, rowid): the rowid breaks ties, in the
\* direction of the sort.
Precedes(order, a, b) ==
    IF order = Unsorted THEN a < b
    ELSE LET k == Key[order.column]
             before(x, y) == k[x] < k[y] \/ (k[x] = k[y] /\ x < y)
         IN  IF order.ascending THEN before(a, b) ELSE before(b, a)

\* The rows in that order.
Ranked(rows, order) ==
    [i \in 1..Cardinality(rows) |->
        CHOOSE r \in rows : Cardinality({q \in rows : Precedes(order, q, r)}) = i - 1]

\* Rows one after the other in that order.
Ordered(order, s) == \A i, j \in DOMAIN s : i < j => Precedes(order, s[i], s[j])

\* Where a page begins and ends: rowids or ordinals of its first and last row,
\* and its offset from the start of the table.
Token == [valid : BOOLEAN, first : Nat, last : Nat, offset : Nat]
NoToken == [valid |-> FALSE, first |-> 0, last |-> 0, offset |-> 0]

PageOps == {"first", "next", "prev", "last"}

\* A page as a source hands it to the worker.
PageResult == [ok : BOOLEAN, rows : Seq(Nat), token : Token, hasMore : BOOLEAN]
Page(rows, token, more) ==
    [ok |-> TRUE, rows |-> rows, token |-> token, hasMore |-> more]
FailedPage == [ok |-> FALSE, rows |-> <<>>, token |-> NoToken, hasMore |-> FALSE]

AtMost(s, n) == SubSeq(s, 1, IF Len(s) < n THEN Len(s) ELSE n)

\* Mutant: rows of a descending query are not put back in order.
FromEndReversed(s, n) ==
    [i \in 1..(IF Len(s) < n THEN Len(s) ELSE n) |-> s[Len(s) + 1 - i]]

FromEnd(s, n) == SubSeq(s, IF Len(s) < n THEN 1 ELSE Len(s) - n + 1, Len(s))

LastPageSize(total) == IF total % PageSize = 0 THEN PageSize ELSE total % PageSize

(***************************************************************************)
(* SQLite.  A page is the first PageSize rows a query yields; one more row *)
(* is asked for going forwards, to learn whether another page follows.     *)
(***************************************************************************)

\* A table with a rowid: keyset paging.
FetchByRowid(rows, op, token, total) ==
    LET all == Ranked(rows, Unsorted)
        after == Ranked({r \in rows : r > token.last}, Unsorted)
        before == Ranked({r \in rows : r < token.first}, Unsorted)
        found == CASE op = "first" -> AtMost(all, PageSize)
                   [] op = "next"  -> AtMost(after, PageSize)
                   [] op = "prev"  -> FromEnd(before, PageSize)
                   [] op = "last"  -> FromEnd(all, LastPageSize(total))
        more == \/ op = "first" /\ Len(all) > PageSize
                \/ op = "next" /\ Len(after) > PageSize
                \/ op = "prev" /\ found # <<>>
        token2 == IF found = <<>> THEN NoToken
                  ELSE [valid |-> TRUE, first |-> Head(found), last |-> found[Len(found)], offset |-> 0]
    IN  Page(found, token2, more)

\* No rowid: LIMIT and OFFSET over a stable order, which a primary key supplies.
\* For a view without one the code takes what order the query plan has; that two
\* queries have the same is assumed.
FetchByOffset(rows, op, token, total) ==
    LET all == Ranked(rows, Unsorted)
        offset == CASE op = "first" -> 0
                    [] op = "next"  -> token.offset + PageSize
                    [] op = "prev"  -> IF token.offset > PageSize
                                       THEN token.offset - PageSize ELSE 0
                    [] op = "last"  -> total - LastPageSize(total)
        limit == CASE op \in {"first", "next"} -> PageSize + 1
                   [] op = "prev" -> PageSize
                   [] op = "last" -> LastPageSize(total)
        hit == AtMost(SubSeq(all, offset + 1, Len(all)), limit)
        found == AtMost(hit, PageSize)
    IN  Page(found, [NoToken EXCEPT !.valid = found # <<>>, !.offset = offset],
             Len(hit) > PageSize)

\* A sorted rowid table: a range of the ordinal table, joined with what is
\* left of the table.
FetchByOrdinal(rows, ordinals, op, token, total) ==
    LET lo == CASE op = "first" -> 1
                [] op = "next"  -> token.last + 1
                [] op = "prev"  -> IF token.first > PageSize THEN token.first - PageSize ELSE 1
                [] op = "last"  -> total - LastPageSize(total) + 1
        hi == CASE op \in {"first", "next"} -> lo + PageSize
                [] op = "prev" -> token.first - 1
                [] op = "last" -> total
        in == Ranked({i \in DOMAIN ordinals : lo <= i /\ i <= hi /\ ordinals[i] \in rows},
                     Unsorted)
        hit == AtMost(in, PageSize)
        token2 == IF hit = <<>> THEN NoToken
                  ELSE [valid |-> TRUE, first |-> Head(hit), last |-> hit[Len(hit)], offset |-> 0]
    IN  Page([i \in DOMAIN hit |-> ordinals[hit[i]]], token2,
             Len(in) > PageSize /\ op # "last")

\* next() and prev() refuse a token that marks no row, last() an unknown total.
Refused(op, token, total) ==
    \/ op \in {"next", "prev"} /\ ~token.valid
    \/ op = "last" /\ total = NoTotal

SqliteFetch(src, rows, op, token, total) ==
    LET op2 == IF op = "last" /\ total = 0 THEN "first" ELSE op
    IN  IF Refused(op, token, total) THEN FailedPage
        ELSE IF src.order # Unsorted
        THEN FetchByOrdinal(rows, src.ordinals, op2, token, total)
        ELSE IF src.kind = "rowid"
        THEN FetchByRowid(rows, op2, token, total)
        ELSE FetchByOffset(rows, op2, token, total)

(***************************************************************************)
(* CSV.  Record n of the file is row n; only the first src.indexed of them *)
(* can be read yet, and src.complete says there are no others.             *)
(***************************************************************************)

\* Mutant: the page before a short first one would start before the file does.
StartOrdinalUnclamped(op, token, total) ==
    CASE op = "first" -> 0
      [] op = "next"  -> token.offset + PageSize
      [] op = "prev"  -> token.offset - PageSize
      [] op = "last"  -> IF total <= 0 THEN 0 ELSE total - LastPageSize(total)

StartOrdinal(op, token, total) ==
    CASE op = "first" -> 0
      [] op = "next"  -> token.offset + PageSize
      [] op = "prev"  -> IF token.offset > PageSize THEN token.offset - PageSize ELSE 0
      [] op = "last"  -> IF total <= 0 THEN 0 ELSE total - LastPageSize(total)

\* Mutant: a page is ready as soon as its first row is indexed.
ReadinessEager(src, start) ==
    IF src.failed \/ src.changed THEN "Failed"
    ELSE IF src.indexed > start THEN "Ready"
    ELSE IF src.complete THEN "End" ELSE "Pending"

Readiness(src, start) ==
    IF src.failed \/ src.changed THEN "Failed"
    ELSE IF src.indexed >= start + PageSize THEN "Ready"
    ELSE IF src.complete THEN (IF start >= src.indexed THEN "End" ELSE "Ready")
    ELSE "Pending"

\* Mutant: the end of what is indexed is taken for the end of the file.
CsvFetchTrustsIndex(src, op, token, total) ==
    LET start == StartOrdinal(op, token, total)
        found == [i \in 1..(IF start + PageSize <= src.indexed
                            THEN PageSize ELSE src.indexed - start) |-> start + i]
    IN  IF start >= src.indexed
        THEN Page(<<>>, [NoToken EXCEPT !.offset = start], FALSE)
        ELSE Page(found, [valid |-> TRUE, first |-> 0, last |-> 0, offset |-> start],
                  src.indexed > start + Len(found))

CsvFetch(src, op, token, total) ==
    LET start == StartOrdinal(op, token, total)
        found == [i \in 1..(IF start + PageSize <= src.indexed
                            THEN PageSize ELSE src.indexed - start) |-> start + i]
    IN  IF Refused(op, token, total) \/ src.changed \/ (start >= src.indexed /\ ~src.complete)
        THEN FailedPage
        ELSE IF start >= src.indexed
        THEN Page(<<>>, [NoToken EXCEPT !.offset = start], FALSE)
        ELSE Page(found, [valid |-> TRUE, first |-> 0, last |-> 0, offset |-> start],
                  src.indexed > start + Len(found) \/ ~src.complete)

Fetch(src, rows, op, token, total) ==
    IF src.kind = "csv" THEN CsvFetch(src, op, token, total)
                        ELSE SqliteFetch(src, rows, op, token, total)

=============================================================================
