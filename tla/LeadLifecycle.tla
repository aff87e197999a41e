---------------------------- MODULE LeadLifecycle ----------------------------
(***************************************************************************)
(* The state machine of a lead as packages/core defines it for every       *)
(* caller: which command leads from which status to which.  The database   *)
(* has a table of its own, in apply_lead_status_atomic.                    *)
(***************************************************************************)
CONSTANT Leads

VARIABLE status  \* status[l]: the status of l, or "none"

Commands == {"qualify", "needs_review", "approve", "reject", "convert", "archive"}

From ==
  [qualify      |-> {"received"},
   needs_review |-> {"received"},
   approve      |-> {"qualified", "needs_review"},
   reject       |-> {"qualified", "needs_review"},
   convert      |-> {"approved"},
   archive      |-> {"received", "qualified", "needs_review", "approved", "rejected"}]

To ==
  [qualify |-> "qualified", needs_review |-> "needs_review", approve |-> "approved",
   reject |-> "rejected", convert |-> "converted", archive |-> "archived"]

Init == status = [l \in Leads |-> "none"]

Receive(l) == status[l] = "none" /\ status' = [status EXCEPT ![l] = "received"]

Apply(l, c) == status[l] \in From[c] /\ status' = [status EXCEPT ![l] = To[c]]

Next == \E l \in Leads : Receive(l) \/ \E c \in Commands : Apply(l, c)

Spec == Init /\ [][Next]_status
=============================================================================
