--------------------------- MODULE MCWorkerClient ---------------------------
\* Two rows, one to a page, so that the second page may have to wait.
EXTENDS WorkerClient

MCRow == {1, 2}
MCColumn == {"a"}
MCKey == [c \in MCColumn |-> [r \in MCRow |-> 0]]

=============================================================================
