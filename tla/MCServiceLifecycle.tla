------------------------- MODULE MCServiceLifecycle -------------------------
EXTENDS ServiceLifecycle

\* WORKER_COUNT and JOB_TIMEOUT_MINUTES: refused by Load, in range, wrapped to a
\* negative and to a positive duration (with Minute = 3 and Overflow = 8).
MCWorkerCounts == {0, 1, 2}
MCMinutes == {0, 1, 2, 3, 6}
=============================================================================
