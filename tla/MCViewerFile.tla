---------------------------- MODULE MCViewerFile ----------------------------
\* Four records, two to a page: the last page is full, which is where an index
\* that has not reached the end yet cannot tell that no page follows.
EXTENDS PagedViewer

MCRow == 1..4
MCTables == {1..4, 1..3, {}}
MCColumn == {"a"}
MCKey == [c \in MCColumn |-> <<1, 0, 1, 0>>]

=============================================================================
