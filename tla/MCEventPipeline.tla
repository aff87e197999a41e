-------------------------- MODULE MCEventPipeline --------------------------
\* Small instances of EventPipeline for TLC.
EXTENDS EventPipeline, TLC

CONSTANTS e1, e2, r1, m1, m2, w1, w2, h1, h2

MCShared   == [w \in {w1, w2} |-> "worker-1"]
MCOne      == [w \in {w1} |-> w]

\* Two events of one run that arrive in any order.
MCKindRace == e1 :> "started" @@ e2 :> "failed"
MCRunRace  == e1 :> r1 @@ e2 :> r1

\* A type without a projector and a type nobody knows.
MCKindOdd == e1 :> "unprojected" @@ e2 :> "unknown"
MCRunOdd  == e1 :> None @@ e2 :> None

\* Rows and executions are alike (a run that checks no liveness).
MCSymmetry == Permutations({m1, m2}) \cup Permutations({h1, h2})
=============================================================================
