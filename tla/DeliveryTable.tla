--------------------------- MODULE DeliveryTable ----------------------------
(***************************************************************************)
(* What approval_deliveries and email_deliveries promise whoever writes a  *)
(* row: the row is settled at most once, and as delivered only when the    *)
(* other side has accepted its message; nothing but the row's own message  *)
(* is ever handed over; and the message stays what it is until a settled   *)
(* row is deleted.                                                         *)
(*                                                                         *)
(* Leases, retries and lost answers are not seen here: they show only as   *)
(* a message that is handed over again, which changes nothing.             *)
(***************************************************************************)
CONSTANTS
  Items,     \* rows
  Messages,  \* what a row may say
  None       \* no message

VARIABLES
  item,      \* item[i]: how row i stands
  accepted   \* pairs of a row and a message that the other side has accepted

Absent == [state |-> "absent", message |-> None]

\* Rows may have been written before.
Init ==
  /\ item \in [Items -> {Absent} \cup [state : {"open"}, message : Messages]]
  /\ accepted = {}

Add(i, m) ==
  /\ item[i] = Absent
  /\ item' = [item EXCEPT ![i] = [state |-> "open", message |-> m]]
  /\ UNCHANGED accepted

\* A handler that was superseded may hand over a message whose row is settled.
HandOver(i) ==
  /\ item[i] # Absent
  /\ accepted' = accepted \cup {<<i, item[i].message>>}
  /\ UNCHANGED item

Settle(i, outcome) ==
  /\ item[i].state = "open"
  /\ outcome = "delivered" => <<i, item[i].message>> \in accepted
  /\ item' = [item EXCEPT ![i] = [state |-> outcome, message |-> item[i].message]]
  /\ UNCHANGED accepted

\* A row that is used again after that is a new one.
Forget(i) ==
  /\ item[i].state \in {"delivered", "failed"}
  /\ item' = [item EXCEPT ![i] = Absent]
  /\ accepted' = {pair \in accepted : pair[1] # i}

Next ==
  \E i \in Items :
    \/ \E m \in Messages : Add(i, m)
    \/ HandOver(i)
    \/ \E outcome \in {"delivered", "failed"} : Settle(i, outcome)
    \/ Forget(i)

Spec == Init /\ [][Next]_<<item, accepted>>
=============================================================================
