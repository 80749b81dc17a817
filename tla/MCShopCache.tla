---------------------------- MODULE MCShopCache ----------------------------
(* Small instances of ShopCache for TLC; the configurations give the sets. *)
EXTENDS ShopCache, TLC
=============================================================================
