--------------------------- MODULE MCCacheRebuild ---------------------------
(* A small instance of CacheRebuild for TLC: one shop read in each way. *)
EXTENDS CacheRebuild, TLC
=============================================================================
