--------------------------- MODULE MCCopyPipeline ---------------------------
\* Four rows, the cells of three of which are cut off.  The first fits the budget,
\* but not with a part of the second and Markdown; the second is over it by
\* itself; the third is displayed whole; the fourth fits, but not with the rest
\* of its row.
EXTENDS CopyPipeline

MCRow == 1..4
MCCut == {1, 2, 4}
MCCellSize == <<3, 6, 4, 3>>
MCRowSize == <<5, 6, 4, 6>>
MCPages == {<<1, 2>>, <<4, 3>>, <<3>>}

=============================================================================
