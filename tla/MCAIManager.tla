----------------------------- MODULE MCAIManager -----------------------------
(***************************************************************************)
(* TLC instances of AIManager.                                             *)
(***************************************************************************)
EXTENDS AIManager

MCLimit == [w \in Windows |-> 4]
MCDuration == [w \in Windows |-> 1]
MCEstimate == [r \in Requests |-> 2]
=============================================================================
