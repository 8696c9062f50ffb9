---------------------------- MODULE MCWorkerPool ----------------------------
EXTENDS WorkerPool

CONSTANTS c1, c2

MCChats == {c1, c2}
=============================================================================
