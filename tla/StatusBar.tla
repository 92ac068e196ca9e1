----------------------------- MODULE StatusBar -----------------------------
(***************************************************************************)
(* The status bar (src/ui/status_bar.cpp).  One line of text is shared by  *)
(* the summary of the page, the progress of indexing, its error, the value *)
(* of the selected cell and the viewer's messages.  The bar does not note  *)
(* whose text is on the line: it compares texts to tell its own from       *)
(* somebody else's.  The filter's prefix, which is put before whatever     *)
(* text there is, is left out, and so is m_pagedMode, which is on whenever *)
(* a page has been shown.                                                  *)
(***************************************************************************)
EXTENDS PagerState

\* What a text says: a summary its page, the total and the warning folded into
\* it; a progress text how many records there are; the others just that.
Warning == {"none", "index", "count"}

Text == [kind : {"empty", "summary", "loading", "failed", "cell", "message"},
         page : Nat, total : Total, warning : Warning]

Plain(kind) == [kind |-> kind, page |-> 0, total |-> NoTotal, warning |-> "none"]

NoText == Plain("empty")
IndexingError == Plain("failed")
CellText == Plain("cell")
Message == Plain("message")
LoadingRecords(n) == [Plain("loading") EXCEPT !.total = n]

\* error and applied are "none" when the code's strings are empty; page and
\* total stand for the numbers of setPagedLoadInfo().
Bar == [text : Text, summary : Text, hasInfo : BOOLEAN, page : Nat, total : Total,
        indexing : BOOLEAN, indexingText : Text, error : {"none", "index"},
        applied : Warning, progress : BOOLEAN, sorting : BOOLEAN]

EmptyBar ==
    [text |-> NoText, summary |-> NoText, hasInfo |-> FALSE, page |-> 0, total |-> NoTotal,
     indexing |-> FALSE, indexingText |-> NoText, error |-> "none",
     applied |-> "none", progress |-> FALSE, sorting |-> FALSE]

SetValueText(b, text) == [b EXCEPT !.text = text]
SetSorting(b, sorting) == [b EXCEPT !.sorting = sorting]
HideUnlessIndexing(b) == [b EXCEPT !.progress = b.progress /\ b.indexing]

\* What the line says of the page when nothing else is on it.
OwnText(b) ==
    IF b.error # "none" THEN IndexingError
    ELSE IF b.indexing /\ b.indexingText # NoText THEN b.indexingText
    ELSE b.summary

RebuildPagedTexts(b) ==
    [b EXCEPT !.summary = [Plain("summary") EXCEPT !.page = b.page, !.total = b.total],
              !.applied = "none"]

SetWarning(b, warning) ==
    IF warning \in {"none", b.applied} THEN b
    ELSE LET summary == [b.summary EXCEPT !.warning = warning]
         IN  [b EXCEPT !.applied = warning, !.summary = summary,
                       !.text = IF @ \in {NoText, b.summary} THEN summary ELSE @]

SetPagedLoadInfo(b, page, total) ==
    LET told == RebuildPagedTexts([b EXCEPT !.page = page, !.total = total, !.hasInfo = TRUE])
        warned == SetWarning(told, b.error)
    IN  HideUnlessIndexing(SetValueText(warned, OwnText(warned)))

\* Mutant: indexing is over only for a bar that shows a page already.
UpdatePagedTotalLate(b, total) ==
    IF ~b.hasInfo THEN b
    ELSE LET told == RebuildPagedTexts([b EXCEPT !.indexing = FALSE, !.indexingText = NoText,
                                                 !.error = "none", !.total = total,
                                                 !.progress = FALSE])
         IN  IF b.text \in {NoText, b.summary, b.indexingText}
             THEN SetValueText(told, told.summary) ELSE told

\* Mutant: the total is kept for the next page only.
UpdatePagedTotalQuietly(b, total) ==
    [b EXCEPT !.indexing = FALSE, !.indexingText = NoText, !.error = "none",
              !.total = total, !.progress = FALSE,
              !.text = IF @ = b.indexingText THEN b.summary ELSE @]

\* Mutant: the new summary goes on the line whoever owns it.
UpdatePagedTotalEvicting(b, total) ==
    LET ended == [b EXCEPT !.indexing = FALSE, !.indexingText = NoText, !.error = "none"]
        told == RebuildPagedTexts([ended EXCEPT !.total = total, !.progress = FALSE])
    IN  IF b.hasInfo THEN SetValueText(told, told.summary) ELSE ended

\* The index has ended, or rows were counted: the flags go first, since the
\* first page may not be there yet.
UpdatePagedTotal(b, total) ==
    LET ended == [b EXCEPT !.indexing = FALSE, !.indexingText = NoText, !.error = "none"]
        told == RebuildPagedTexts([ended EXCEPT !.total = total, !.progress = FALSE])
    IN  IF ~b.hasInfo THEN ended
        ELSE IF b.text \in {NoText, b.summary, b.indexingText}
        THEN SetValueText(told, told.summary)
        ELSE told

SetIndexingProgress(b, n) ==
    [b EXCEPT !.indexing = TRUE, !.indexingText = LoadingRecords(n), !.progress = TRUE,
              !.text = IF @ \in {NoText, b.summary, b.indexingText} THEN LoadingRecords(n) ELSE @]

SetIndexingFailed(b) ==
    LET failed == [b EXCEPT !.indexing = FALSE, !.indexingText = NoText, !.error = "index",
                            !.progress = FALSE]
    IN  SetValueText(IF b.hasInfo THEN SetWarning(failed, "index") ELSE failed, IndexingError)

RestoreInfo(b) ==
    HideUnlessIndexing(SetValueText(b, IF b.hasInfo THEN OwnText(b) ELSE NoText))

\* resetLoadInfo() with what showLoading() and clear() add to it.
ShowLoading(b) == [EmptyBar EXCEPT !.progress = TRUE, !.sorting = b.sorting]

ClearBar == EmptyBar

=============================================================================
