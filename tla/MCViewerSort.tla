---------------------------- MODULE MCViewerSort ----------------------------
\* Three rows, one to a page, two of them equal in the column sorted by.
EXTENDS PagedViewer

MCRow == 1..3
MCTables == {{1, 2, 3}, {1, 3}}
MCColumn == {"a"}
MCKey == [c \in MCColumn |-> <<1, 0, 1>>]

=============================================================================
