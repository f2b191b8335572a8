-------------------------- MODULE RequestLifecycle --------------------------
(***************************************************************************)
(* The life of a diagnostic request as its phases tell it                  *)
(* (api/v1alpha1, TroubleshootPhase): it is created, started, finished     *)
(* one way or the other, and removed; nothing is skipped and nothing       *)
(* happens twice.                                                          *)
(***************************************************************************)
CONSTANT Names

VARIABLE phase   \* "absent", or the request's phase; "Pending" is the unset one too

Init == phase = [n \in Names |-> "absent"]

Moves(n, from, to) == phase[n] \in from /\ phase' = [phase EXCEPT ![n] = to]

Create(n) == Moves(n, {"absent"}, "Pending")
Start(n) == Moves(n, {"Pending"}, "Running")
Finish(n) == Moves(n, {"Running"}, "Completed") \/ Moves(n, {"Running"}, "Failed")
Remove(n) == Moves(n, {"Pending", "Running", "Completed", "Failed"}, "absent")

Next == \E n \in Names : Create(n) \/ Start(n) \/ Finish(n) \/ Remove(n)

Spec == Init /\ [][Next]_phase
=============================================================================
