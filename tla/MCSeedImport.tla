---------------------------- MODULE MCSeedImport ----------------------------
(* Small instances of SeedImport for TLC. *)
EXTENDS SeedImport, TLC

CONSTANTS k1, k2, k3, old, new, app

L(id, key, text, liked) == [id |-> id, key |-> key, text |-> text, liked |-> liked]

Files(users, shops, vouchers, blogs) ==
    [t \in Table |->
        CASE t = "tb_user" -> users
          [] t = "tb_shop" -> shops
          [] t = "tb_voucher" -> vouchers
          [] t = "tb_blog" -> blogs]

\* As in the repository: the last two blogs have one natural key, so that the
\* last id is not used.
Shipped ==
    Files(<<L(1, k1, old, 0)>>,
          <<L(1, k1, old, 0)>>,
          <<L(1, k1, old, 0)>>,
          <<L(1, k1, old, 1), L(2, k1, new, Null)>>)

\* Users without an id, with somebody else's, and without a phone.
Broken ==
    Files(<<L(Null, k1, old, 0), L(1, k2, old, 0), L(3, Null, old, 0)>>,
          <<>>,
          <<>>,
          <<L(2, k1, old, 1)>>)

\* The shipped files, corrected and completed.
Fixed ==
    Files(<<L(1, k1, new, 0), L(2, k2, new, 0)>>,
          <<L(1, k1, new, 0)>>,
          <<L(1, k1, new, 0)>>,
          <<L(1, k1, new, 1), L(2, k2, new, 0)>>)

MCFile == {Shipped, Broken, Fixed}

MCShipped == {Shipped}

\* The application registers a user and publishes two blogs.
MCNew ==
    {[table |-> "tb_user", key |-> k2, text |-> app],
     [table |-> "tb_blog", key |-> k2, text |-> app],
     [table |-> "tb_blog", key |-> k3, text |-> app]}
=============================================================================
