---------------------------- MODULE MCMembership ----------------------------
\* A small instance of Membership for TLC.
EXTENDS Membership, TLC

CONSTANTS ana, ben, c1, i1, r1, r2

\* Requests are alike.
MCSymmetry == Permutations({r1, r2})
=============================================================================
