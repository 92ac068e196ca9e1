----------------------------- MODULE PagerState -----------------------------
(***************************************************************************)
(* The pager arithmetic of src/core/pager_state.h: which page is shown,    *)
(* how many pages the known total makes, and which of the four buttons of  *)
(* the page bar lead anywhere.  The page size is fixed when a table is     *)
(* opened, so it is a parameter; a total the program does not know yet is  *)
(* NoTotal.                                                                *)
(***************************************************************************)
EXTENDS Integers

CONSTANT PageSize

ASSUME PageSizeAssumption == PageSize \in Nat \ {0}

NoTotal == -1

Total == Nat \union {NoTotal}

\* What the page bar shows; hasMore is the source's word for it, used only
\* while there is no total, and fromPrev says the page was reached backwards.
Pager == [page : Nat, total : Total, hasMore : BOOLEAN, fromPrev : BOOLEAN]

FreshPager == [page |-> 1, total |-> NoTotal, hasMore |-> FALSE, fromPrev |-> FALSE]

FirstRowOnPage(page) == (page - 1) * PageSize + 1

\* Mutant: a full last page gets an empty page behind it.
PageCountTooMany(total) ==
    IF total = NoTotal THEN 0 ELSE total \div PageSize + 1

PageCount(total) ==
    IF total = NoTotal THEN 0
    ELSE IF total = 0 THEN 1
    ELSE total \div PageSize + (IF total % PageSize # 0 THEN 1 ELSE 0)

CanFirst(p) == p.page > 1

CanPrev(p) == p.page > 1

CanNext(p) ==
    IF p.total # NoTotal THEN p.page < PageCount(p.total)
                         ELSE p.hasMore \/ p.fromPrev

CanLast(p) == p.total # NoTotal /\ p.page < PageCount(p.total)

=============================================================================
