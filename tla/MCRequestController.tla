------------------------ MODULE MCRequestController ------------------------
(* Instances of RequestController for TLC: one request of each kind, or one alone. *)
EXTENDS RequestController
=============================================================================
