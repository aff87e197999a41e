------------------------ MODULE MCIncidentEscalation ------------------------
\* Small instances of IncidentEscalation for TLC.
EXTENDS IncidentEscalation

CONSTANTS j1, j2, rejected, disabled, outage

\* Jobs of one name: the fingerprint tells their errors apart.
MCFingerprintOf == [p \in Jobs \X Errors |-> p[2]]

\* The second job has one attempt; a first and a last one, which may differ in their
\* errors, are the first job's.
MCRetryLimit == [j \in Jobs |-> IF j = j1 THEN 1 ELSE 0]

\* Enough retries to be used up by transient errors.
MCRetryLimitTwo == [j \in Jobs |-> 2]
=============================================================================
