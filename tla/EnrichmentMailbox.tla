-------------------------- MODULE EnrichmentMailbox --------------------------
(***************************************************************************)
(* What the enrichment queue promises to the checks that use it, with no   *)
(* channel, no map and no in-flight set: a mailbox for each cluster.       *)
(* Submissions of a cluster are numbered.  One handler runs at a time over *)
(* all clusters, a cluster's submissions are handled in order, and one     *)
(* that was accepted is skipped only in favour of a newer one.             *)
(***************************************************************************)
EXTENDS Integers

CONSTANTS Clusters, Idle

VARIABLES accepted,   \* per cluster, the number of its newest accepted submission
          started,    \* per cluster, the number of its newest handled submission
          active      \* the cluster whose submission is being handled, or Idle

mailboxVars == <<accepted, started, active>>

Init ==
  /\ accepted = [c \in Clusters |-> 0]
  /\ started = [c \in Clusters |-> 0]
  /\ active = Idle

\* A newer submission of c is accepted.
Accept(c) ==
  /\ accepted' = [accepted EXCEPT ![c] = accepted'[c]]
  /\ accepted'[c] \in Nat
  /\ accepted[c] < accepted'[c]
  /\ UNCHANGED <<started, active>>

\* The handler starts on an accepted submission of c it has not passed yet.
Start(c) ==
  /\ active = Idle
  /\ started' = [started EXCEPT ![c] = started'[c]]
  /\ started'[c] \in Nat
  /\ started[c] < started'[c] /\ started'[c] <= accepted[c]
  /\ active' = c
  /\ UNCHANGED accepted

Finish ==
  /\ active # Idle
  /\ active' = Idle
  /\ UNCHANGED <<accepted, started>>

Next == (\E c \in Clusters : Accept(c) \/ Start(c)) \/ Finish

Spec == Init /\ [][Next]_mailboxVars
=============================================================================
