---------------------------- MODULE EventJournal ----------------------------
(***************************************************************************)
(* What the event platform promises the sender of webhooks: an event is    *)
(* journalled once, its projector takes effect at most once and never      *)
(* half, and an event that is projected or unhandled stays so.  A workflow *)
(* run keeps the first terminal state that a projected event gives it.     *)
(***************************************************************************)
EXTENDS Naturals

CONSTANTS Events, Runs, Kind, RunOf

VARIABLES
  state,    \* state[e]: "none" or the status of business_events
  effects,  \* effects[e]: how often the projector of e took effect
  run       \* run[r]: "none" or the status of workflow_runs

vars == <<state, effects, run>>

Open == {"received", "failed"}

Init ==
  /\ state = [e \in Events |-> "none"]
  /\ effects = [e \in Events |-> 0]
  /\ run = [r \in Runs |-> "none"]

Move(e, from, to) == state[e] \in from /\ state' = [state EXCEPT ![e] = to]

Receive(e) == /\ Move(e, {"none"}, IF Kind[e] = "unknown" THEN "unhandled" ELSE "received")
              /\ UNCHANGED <<effects, run>>

Fail(e)    == Move(e, Open, "failed") /\ UNCHANGED <<effects, run>>

Dismiss(e) == /\ Kind[e] = "unprojected"
              /\ Move(e, Open, "unhandled")
              /\ UNCHANGED <<effects, run>>

Apply(e)   == /\ Kind[e] \notin {"unknown", "unprojected"}
              /\ Move(e, Open, "projected")
              /\ effects' = [effects EXCEPT ![e] = @ + 1]
              /\ run' = [r \in Runs |-> IF r = RunOf[e] /\ run[r] \in {"none", "started"}
                                        THEN Kind[e] ELSE run[r]]

Next == \E e \in Events : Receive(e) \/ Fail(e) \/ Dismiss(e) \/ Apply(e)

Spec == Init /\ [][Next]_vars
=============================================================================
