-------------------------- MODULE IncidentRegister --------------------------
(***************************************************************************)
(* What incidents promise an operator: a failure is counted by a step that *)
(* leaves its incident open or acknowledged, and only members acknowledge  *)
(* and resolve.  The transitions are those of createIncidentStateMachine,  *)
(* but for one: a failure does not reopen an incident that is acknowledged.*)
(***************************************************************************)
EXTENDS Naturals

CONSTANT Fingerprints

VARIABLES
  status,  \* status[f]: "none", "open", "acknowledged" or "resolved"
  count    \* count[f]: how many failures it stands for

vars == <<status, count>>

Init ==
  /\ status = [f \in Fingerprints |-> "none"]
  /\ count = [f \in Fingerprints |-> 0]

Occur(f) ==
  /\ count' = [count EXCEPT ![f] = @ + 1]
  /\ status' = [status EXCEPT ![f] = IF @ = "acknowledged" THEN @ ELSE "open"]

Move(f, from, to) ==
  /\ status[f] \in from
  /\ status' = [status EXCEPT ![f] = to]
  /\ UNCHANGED count

Next ==
  \E f \in Fingerprints :
    \/ Occur(f)
    \/ Move(f, {"open"}, "acknowledged")
    \/ Move(f, {"open", "acknowledged"}, "resolved")

Spec == Init /\ [][Next]_vars
=============================================================================
