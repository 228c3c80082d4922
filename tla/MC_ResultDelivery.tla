--------------------------- MODULE MC_ResultDelivery ---------------------------
EXTENDS ResultDelivery

\* Three reports through a queue of two: the third send can find it full.
MCMaxReports == 3
MCQueueLen == 2
=============================================================================
