----------------------------- MODULE MCInformers -----------------------------
(***************************************************************************)
(* The informer caches alone, for TLC: the constants come from MCCluster.  *)
(***************************************************************************)
EXTENDS MCCluster
=============================================================================
