---------------------------- MODULE MC_CaptureTask ----------------------------
EXTENDS CaptureTask

\* Four calls into a queue of two: the queue can fill, and START, STOP,
\* START, STOP is one of the sequences.
MCQueueLen == 2
MCMaxRequests == 4
=============================================================================
