---------------------------- MODULE OrderLifecycle ---------------------------
(***************************************************************************)
(* What the exchange promises the listeners of its event bus about one     *)
(* order: one OrderCreated or one OrderFailure, then fills of an order     *)
(* that is still alive, then at most one of Completed, Cancelled and       *)
(* Triggered, and nothing after it.                                        *)
(***************************************************************************)
CONSTANT Ids

VARIABLE life

Phases == {"none", "failed", "created", "filled", "completed", "cancelled", "triggered"}

Moves(id, from, to) == life[id] \in from /\ life' = [life EXCEPT ![id] = to]

Create(id)   == Moves(id, {"none"}, "created")
Fail(id)     == Moves(id, {"none"}, "failed")
Fill(id)     == Moves(id, {"created", "filled"}, "filled")
Complete(id) == Moves(id, {"filled"}, "completed")
Cancel(id)   == Moves(id, {"created", "filled"}, "cancelled")
Trigger(id)  == Moves(id, {"created"}, "triggered")

Init == life = [id \in Ids |-> "none"]

Next ==
  \E id \in Ids :
    \/ Create(id)
    \/ Fail(id)
    \/ Fill(id)
    \/ Complete(id)
    \/ Cancel(id)
    \/ Trigger(id)

Spec == Init /\ [][Next]_life
=============================================================================
