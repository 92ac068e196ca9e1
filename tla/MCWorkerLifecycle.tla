------------------------- MODULE MCWorkerLifecycle -------------------------
\* Three pairs: the list of tables of a database and a table of it, in either
\* order, and the destructor at any moment.
EXTENDS WorkerLifecycle

=============================================================================
