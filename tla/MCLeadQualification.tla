------------------------- MODULE MCLeadQualification -------------------------
\* Small instances of LeadQualification for TLC.
EXTENDS LeadQualification

CONSTANTS l1, a1, a2, v1, v2, x1, x2

\* Two arrivals and two verdicts about one lead.
MCLeadOf == [e \in {a1, a2, v1, v2} |-> l1]
=============================================================================
