----------------------------- MODULE MCSeedFiles -----------------------------
(* Small instances of SeedFiles for TLC. *)
EXTENDS SeedFiles, TLC

CONSTANTS k1, k2, old, new, app, junk

h == "header"

MCChar == {h, Tab, Space, "1", "2", "3", "0", k1, k2, old, new}

Return == <<CarriageReturn>>

\* A header and records of four columns: id, natural key, text and likes.
Header == <<h, Tab, h, Tab, h, Tab, h>>
R(id, key, text, liked) == id \o <<Tab>> \o key \o <<Tab, text, Tab>> \o liked

\* What is in the n-th column of a line: the first character of it.
Column(l, n) ==
    LET In == {i \in DOMAIN l : l[i] # Tab
                    /\ Cardinality({j \in 1 .. i - 1 : l[j] = Tab}) = n - 1}
    IN  IF In = {} THEN Null ELSE l[Min(In)]

NumberOf(c) == CASE c = "1" -> 1 [] c = "2" -> 2 [] c = "3" -> 3 [] OTHER -> 0

\* A word in a column of numbers is loaded as 0, and 0 draws an id as NULL does.
MCLineOf(t, l) ==
    [id |-> IF NumberOf(Column(l, 1)) = 0 THEN Null ELSE NumberOf(Column(l, 1)),
     key |-> IF Column(l, 2) \in {k1, k2, Null} THEN Column(l, 2) ELSE junk,
     text |-> IF Column(l, 3) \in {old, new} THEN Column(l, 3) ELSE junk,
     liked |-> IF Column(l, 4) = Null THEN Null ELSE NumberOf(Column(l, 4))]

Files(users, shops, vouchers, blogs) ==
    [t \in Table |->
        CASE t = "tb_user" -> users
          [] t = "tb_shop" -> shops
          [] t = "tb_voucher" -> vouchers
          [] t = "tb_blog" -> blogs]

\* Users from Windows, a shop with a return in a field, and blogs as in the
\* repository's .bak file, torn apart, the last two with one natural key and no line
\* feed at the end.
Torn ==
    Files(<<Header \o Return, R(<<"1">>, <<k1>>, old, <<"0">>) \o Return, <<>> >>,
          <<Header, <<"1", Tab, k1, Tab, old, CarriageReturn, new, Tab, "0">>, <<>> >>,
          <<Header, R(<<"1">>, <<k1>>, old, <<"0">>), <<>> >>,
          <<Header, <<"1", Tab, k1, Tab, old>>, <<new, Tab, "1">>,
            R(<<"2">>, <<k1>>, new, <<>>)>>)

\* Users without an id, with somebody else's, torn apart and without a phone; nothing
\* for the shops, where the script stops.
Broken ==
    Files(<<Header, R(<<>>, <<k1>>, old, <<"0">>), R(<<"1">>, <<k2>>, old, <<"0">>),
            <<"3", Tab, Tab, old>>, <<new, Tab, "0">>, <<>> >>,
          << <<>> >>,
          <<Header, <<>> >>,
          <<Header, R(<<"2">>, <<k1>>, old, <<"1">>), <<>> >>)

\* The records of the first export, corrected and completed.
Fixed ==
    Files(<<Header, R(<<"1">>, <<k1>>, new, <<"0">>), R(<<"2">>, <<k2>>, new, <<"0">>), <<>> >>,
          <<Header, R(<<"1">>, <<k1>>, new, <<"0">>), <<>> >>,
          <<Header, R(<<"1">>, <<k1>>, new, <<"0">>), <<>> >>,
          <<Header, R(<<"1">>, <<k1>>, new, <<"1">>), R(<<"2">>, <<k2>>, new, <<"0">>), <<>> >>)

MCExport == {Torn, Broken, Fixed}

MCFile == {Loaded(e) : e \in MCExport} \cup {Loaded(CleanAll(e)) : e \in MCExport}

\* The application registers a user and publishes a blog.
MCNew ==
    {[table |-> "tb_user", key |-> k2, text |-> app],
     [table |-> "tb_blog", key |-> k2, text |-> app]}
=============================================================================
