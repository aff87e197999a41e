-------------------------- MODULE ApprovalOutcome ---------------------------
(***************************************************************************)
(* What approvals promise their requester: each approval is opened once,   *)
(* resolved at most once, and the outcome is handed to the delivery queue  *)
(* in the same step that fixes it.  The transition table is the one of     *)
(* canTransitionApproval.                                                  *)
(***************************************************************************)
CONSTANT Approvals

VARIABLES
  outcome,    \* outcome[a]: "absent", "pending" or the way a was resolved
  published   \* published[a]: the outcomes handed to the delivery queue

Resolutions == {"approved", "rejected", "expired"}

Init ==
  /\ outcome = [a \in Approvals |-> "absent"]
  /\ published = [a \in Approvals |-> {}]

Open(a) ==
  /\ outcome[a] = "absent"
  /\ outcome' = [outcome EXCEPT ![a] = "pending"]
  /\ UNCHANGED published

\* One transaction may resolve several approvals (the expiry batch).
Resolve(S, o) ==
  /\ \A a \in S : outcome[a] = "pending"
  /\ outcome' = [a \in Approvals |-> IF a \in S THEN o ELSE outcome[a]]
  /\ published' = [a \in Approvals |-> IF a \in S THEN {o} ELSE published[a]]

Next ==
  \/ \E a \in Approvals : Open(a)
  \/ \E S \in SUBSET Approvals, o \in Resolutions : Resolve(S, o)

Spec == Init /\ [][Next]_<<outcome, published>>
=============================================================================
