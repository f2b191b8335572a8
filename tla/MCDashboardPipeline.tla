------------------------- MODULE MCDashboardPipeline -------------------------
(***************************************************************************)
(* TLC instances of DashboardPipeline.  The bounds are in the .cfg files;  *)
(* clusters, AI configurations, posters and issues are interchangeable.    *)
(***************************************************************************)
EXTENDS DashboardPipeline, TLC

\* Sound for the runs that check no liveness property.
Symmetry ==
  Permutations(Clusters) \cup Permutations(Configs) \cup Permutations(Posters)
    \cup Permutations(Hashes \ {NoIssues})
=============================================================================
