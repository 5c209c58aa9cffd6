----------------------------- MODULE MCCampaign ----------------------------
(* A strict campaign, one with reruns and retries, and the latter resumed   *)
(* from another source tree, sequential or in parallel.                     *)
EXTENDS Campaign

Request(rerun, retries, parallel, source) ==
  [rerun |-> rerun, retries |-> retries, parallel |-> parallel, source |-> source]

MCRequests == {Request(FALSE, 1, 2, 1), Request(TRUE, 2, 2, 1), Request(TRUE, 2, 1, 2)}
=============================================================================
