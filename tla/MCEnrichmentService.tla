------------------------- MODULE MCEnrichmentService -------------------------
(***************************************************************************)
(* EnrichmentService for TLC: three clusters share a channel of one slot,  *)
(* so that a request can be in the handler, another in the channel, and    *)
(* the rest wait in pending or are dropped.                                *)
(***************************************************************************)
EXTENDS EnrichmentService
=============================================================================
