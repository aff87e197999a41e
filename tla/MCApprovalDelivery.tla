------------------------- MODULE MCApprovalDelivery -------------------------
\* Small instances of ApprovalDelivery for TLC.
EXTENDS ApprovalDelivery

CONSTANTS d1, h1, h2, h3

\* A handler that has timed out and its successor in the same process (or workers in
\* containers with equal pids), and a worker with an id of its own.
MCWorkerOf == [h \in {h1, h2, h3} |-> IF h = h3 THEN "worker-2" ELSE "worker-1"]
=============================================================================
