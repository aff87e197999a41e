------------------------- MODULE MCApprovalDecision -------------------------
\* Small instances of ApprovalDecision for TLC.
EXTENDS ApprovalDecision

\* A client that names no version, and one that names a version the row reaches
\* only by being closed.
MCExpectedVersions == {0, 2}

=============================================================================
