--------------------------- MODULE MCViewerShared ---------------------------
\* Three rows, two to a page, any of which may be deleted at any moment.
EXTENDS DataTableViewer

MCRow == 1..3
MCTables == {MCRow}
MCColumn == {"a"}
MCKey == [c \in MCColumn |-> <<1, 0, 1>>]

=============================================================================
