-------------------------- MODULE ShopCacheProofs --------------------------
(***************************************************************************)
(* Proofs about ShopCache, for any numbers of shops, threads, contents and *)
(* calls.                                                                  *)
(*                                                                         *)
(* An answer is recent because what it came from is: a cached string or a  *)
(* row in the hands of a query keeps the history of its shop from being    *)
(* forgotten.  An update deletes the key and never writes it, so its       *)
(* content reaches Redis by way of the committed row alone.                *)
(***************************************************************************)
EXTENDS ShopCache, TLAPS

USE DEF callVars, countVars

Rows == [Shop -> Content \cup {NoRow}]

LEMMA InitIInv == Init => IInv
<1> SUFFICES ASSUME Init PROVE IInv
  OBVIOUS
<1>1. TypeOK
  BY BoundsAssumption DEF Init, TypeOK
<1> QED
  BY <1>1 DEF Init, IInv, CachedIsRecent, FetchedIsRecent, RowIsRecent, UpdatesWriteContent

\* What Remember keeps: the row always, and the rest as long as something of it is
\* cached or in the hands of a query.
LEMMA RememberIs ==
    ASSUME TypeOK, row' \in Rows, Remember
    PROVE  /\ recent' \in [Shop -> SUBSET (Content \cup {NoRow})]
           /\ \A s \in Shop : row'[s] \in recent'[s]
           /\ \A s \in Shop : cache'[s] # Nil => recent[s] \subseteq recent'[s]
           /\ \A t \in Thread : shop'[t] \in Shop /\ pc'[t] = "fill"
                                    => recent[shop'[t]] \subseteq recent'[shop'[t]]
  BY DEF TypeOK, Remember, Forgotten, Rows

\* A step keeps the invariant if what it caches or puts into the hands of a query
\* was recent before, or is the row.
LEMMA RecentStep ==
    ASSUME TypeOK, TypeOK', Remember, UpdatesWriteContent',
           \A s \in Shop : cache'[s] # Nil => Cached(s)' \in recent[s] \cup {row'[s]},
           \A t \in Thread :
               pc'[t] = "fill" => fetched'[t] \in recent[shop'[t]] \cup {row'[shop'[t]]}
    PROVE  IInv'
<1>1. row' \in Rows /\ shop' \in [Thread -> Shop]
  BY DEF TypeOK, Rows
<1>2. RowIsRecent'
  BY <1>1, RememberIs DEF RowIsRecent
<1>3. CachedIsRecent'
  BY <1>1, RememberIs DEF CachedIsRecent
<1>4. FetchedIsRecent'
  BY <1>1, RememberIs DEF FetchedIsRecent
<1> QED
  BY <1>2, <1>3, <1>4 DEF IInv

LEMMA HitKeeps ==
    ASSUME IInv, NEW u \in Thread, NEW r \in Shop, Hit(u, r)
    PROVE  IInv'
<1>1. TypeOK /\ Remember /\ row' \in Rows
  BY DEF Hit, IInv, TypeOK, Rows
<1>2. TypeOK'
  BY <1>1, RememberIs DEF Hit, TypeOK, Cached
<1>3. UpdatesWriteContent'
  BY <1>1 DEF Hit, IInv, TypeOK, UpdatesWriteContent
<1>4. \A s \in Shop : cache'[s] # Nil => Cached(s)' \in recent[s] \cup {row'[s]}
  BY <1>1 DEF Hit, IInv, TypeOK, CachedIsRecent, Cached
<1>5. \A t \in Thread :
          pc'[t] = "fill" => fetched'[t] \in recent[shop'[t]] \cup {row'[shop'[t]]}
  BY <1>1 DEF Hit, IInv, TypeOK, FetchedIsRecent
<1> QED
  BY <1>1, <1>2, <1>3, <1>4, <1>5, RecentStep

LEMMA MissKeeps ==
    ASSUME IInv, NEW u \in Thread, NEW r \in Shop, Miss(u, r)
    PROVE  IInv'
<1>1. TypeOK /\ Remember /\ row' \in Rows
  BY DEF Miss, IInv, TypeOK, Rows
<1>2. TypeOK'
  BY <1>1, RememberIs DEF Miss, TypeOK
<1>3. UpdatesWriteContent'
  BY <1>1 DEF Miss, IInv, TypeOK, UpdatesWriteContent
<1>4. \A s \in Shop : cache'[s] # Nil => Cached(s)' \in recent[s] \cup {row'[s]}
  BY <1>1 DEF Miss, IInv, TypeOK, CachedIsRecent, Cached
<1>5. \A t \in Thread :
          pc'[t] = "fill" => fetched'[t] \in recent[shop'[t]] \cup {row'[shop'[t]]}
  BY <1>1 DEF Miss, IInv, TypeOK, FetchedIsRecent
<1> QED
  BY <1>1, <1>2, <1>3, <1>4, <1>5, RecentStep

LEMMA LoadKeeps ==
    ASSUME IInv, NEW u \in Thread, Load(u)
    PROVE  IInv'
<1>1. TypeOK /\ Remember /\ row' \in Rows
  BY DEF Load, IInv, TypeOK, Rows
<1>2. TypeOK'
  BY <1>1, RememberIs DEF Load, TypeOK
<1>3. UpdatesWriteContent'
  BY <1>1 DEF Load, IInv, TypeOK, UpdatesWriteContent
<1>4. \A s \in Shop : cache'[s] # Nil => Cached(s)' \in recent[s] \cup {row'[s]}
  BY <1>1 DEF Load, IInv, TypeOK, CachedIsRecent, Cached
<1>5. \A t \in Thread :
          pc'[t] = "fill" => fetched'[t] \in recent[shop'[t]] \cup {row'[shop'[t]]}
  BY <1>1 DEF Load, IInv, TypeOK, FetchedIsRecent
<1> QED
  BY <1>1, <1>2, <1>3, <1>4, <1>5, RecentStep

LEMMA FillKeeps ==
    ASSUME IInv, NEW u \in Thread, Fill(u)
    PROVE  IInv'
<1>1. TypeOK /\ Remember /\ row' \in Rows
  BY DEF Fill, IInv, TypeOK, Rows
<1>2. TypeOK'
  BY <1>1, RememberIs DEF Fill, Return, TypeOK
<1>3. UpdatesWriteContent'
  BY <1>1 DEF Fill, Return, IInv, TypeOK, UpdatesWriteContent
<1>4. \A s \in Shop : cache'[s] # Nil => Cached(s)' \in recent[s] \cup {row'[s]}
  BY <1>1, ContentAssumption, MarkersAssumption
  DEF Fill, Return, IInv, TypeOK, CachedIsRecent, FetchedIsRecent, Cached
<1>5. \A t \in Thread :
          pc'[t] = "fill" => fetched'[t] \in recent[shop'[t]] \cup {row'[shop'[t]]}
  BY <1>1 DEF Fill, Return, IInv, TypeOK, FetchedIsRecent
<1> QED
  BY <1>1, <1>2, <1>3, <1>4, <1>5, RecentStep

LEMMA SaveShopKeeps ==
    ASSUME IInv, NEW u \in Thread, NEW r \in Shop, NEW c \in Content, SaveShop(u, r, c)
    PROVE  IInv'
<1>1. TypeOK /\ Remember /\ row' \in Rows
  BY DEF SaveShop, IInv, TypeOK, Rows
<1>2. TypeOK'
  BY <1>1, RememberIs, BoundsAssumption DEF SaveShop, TypeOK
<1>3. UpdatesWriteContent'
  BY <1>1 DEF SaveShop, IInv, TypeOK, UpdatesWriteContent
<1>4. \A s \in Shop : cache'[s] # Nil => Cached(s)' \in recent[s] \cup {row'[s]}
  BY <1>1 DEF SaveShop, IInv, TypeOK, CachedIsRecent, Cached
<1>5. \A t \in Thread :
          pc'[t] = "fill" => fetched'[t] \in recent[shop'[t]] \cup {row'[shop'[t]]}
  BY <1>1 DEF SaveShop, IInv, TypeOK, FetchedIsRecent
<1> QED
  BY <1>1, <1>2, <1>3, <1>4, <1>5, RecentStep

LEMMA SaveKeeps ==
    ASSUME IInv, NEW u \in Thread, NEW r \in Shop, NEW c \in Content, NEW id \in Shop,
           Save(u, r, c, id)
    PROVE  IInv'
<1>1. TypeOK /\ Remember /\ row' \in Rows
  BY DEF Save, IInv, TypeOK, Rows
<1>2. TypeOK'
  BY <1>1, RememberIs, BoundsAssumption DEF Save, TypeOK
<1>3. UpdatesWriteContent'
  BY <1>1 DEF Save, IInv, TypeOK, UpdatesWriteContent
<1>4. \A s \in Shop : cache'[s] # Nil => Cached(s)' \in recent[s] \cup {row'[s]}
  BY <1>1 DEF Save, IInv, TypeOK, CachedIsRecent, Cached
<1>5. \A t \in Thread :
          pc'[t] = "fill" => fetched'[t] \in recent[shop'[t]] \cup {row'[shop'[t]]}
  BY <1>1 DEF Save, IInv, TypeOK, FetchedIsRecent
<1> QED
  BY <1>1, <1>2, <1>3, <1>4, <1>5, RecentStep

LEMMA EvictKeeps ==
    ASSUME IInv, NEW u \in Thread, Evict(u)
    PROVE  IInv'
<1>1. TypeOK /\ Remember /\ row' \in Rows
  BY DEF Evict, IInv, TypeOK, Rows
<1>2. TypeOK'
  BY <1>1, RememberIs DEF Evict, TypeOK
<1>3. UpdatesWriteContent'
  BY <1>1 DEF Evict, IInv, TypeOK, UpdatesWriteContent
<1>4. \A s \in Shop : cache'[s] # Nil => Cached(s)' \in recent[s] \cup {row'[s]}
  BY <1>1 DEF Evict, IInv, TypeOK, CachedIsRecent, Cached
<1>5. \A t \in Thread :
          pc'[t] = "fill" => fetched'[t] \in recent[shop'[t]] \cup {row'[shop'[t]]}
  BY <1>1 DEF Evict, IInv, TypeOK, FetchedIsRecent
<1> QED
  BY <1>1, <1>2, <1>3, <1>4, <1>5, RecentStep

LEMMA CommitKeeps ==
    ASSUME IInv, NEW u \in Thread, Commit(u)
    PROVE  IInv'
<1>1. TypeOK /\ Remember /\ row' \in Rows
  BY DEF Commit, IInv, TypeOK, Rows, UpdatesWriteContent
<1>2. TypeOK'
  BY <1>1, RememberIs DEF Commit, Return, TypeOK
<1>3. UpdatesWriteContent'
  BY <1>1 DEF Commit, Return, IInv, TypeOK, UpdatesWriteContent
<1>4. \A s \in Shop : cache'[s] # Nil => Cached(s)' \in recent[s] \cup {row'[s]}
  BY <1>1 DEF Commit, Return, IInv, TypeOK, CachedIsRecent, Cached
<1>5. \A t \in Thread :
          pc'[t] = "fill" => fetched'[t] \in recent[shop'[t]] \cup {row'[shop'[t]]}
  BY <1>1 DEF Commit, Return, IInv, TypeOK, FetchedIsRecent
<1> QED
  BY <1>1, <1>2, <1>3, <1>4, <1>5, RecentStep

LEMMA CallFailsKeeps ==
    ASSUME IInv, NEW u \in Thread, CallFails(u)
    PROVE  IInv'
<1>1. TypeOK /\ Remember /\ row' \in Rows
  BY DEF CallFails, IInv, TypeOK, Rows
<1>2. TypeOK'
  BY <1>1, RememberIs DEF CallFails, Return, TypeOK
<1>3. UpdatesWriteContent'
  BY <1>1 DEF CallFails, Return, IInv, TypeOK, UpdatesWriteContent
<1>4. \A s \in Shop : cache'[s] # Nil => Cached(s)' \in recent[s] \cup {row'[s]}
  BY <1>1 DEF CallFails, Return, IInv, TypeOK, CachedIsRecent, Cached
<1>5. \A t \in Thread :
          pc'[t] = "fill" => fetched'[t] \in recent[shop'[t]] \cup {row'[shop'[t]]}
  BY <1>1 DEF CallFails, Return, IInv, TypeOK, FetchedIsRecent
<1> QED
  BY <1>1, <1>2, <1>3, <1>4, <1>5, RecentStep

LEMMA ExpireKeeps ==
    ASSUME IInv, NEW r \in Shop, Expire(r)
    PROVE  IInv'
<1>1. TypeOK /\ Remember /\ row' \in Rows
  BY DEF Expire, IInv, TypeOK, Rows
<1>2. TypeOK'
  BY <1>1, RememberIs DEF Expire, TypeOK
<1>3. UpdatesWriteContent'
  BY <1>1 DEF Expire, IInv, TypeOK, UpdatesWriteContent
<1>4. \A s \in Shop : cache'[s] # Nil => Cached(s)' \in recent[s] \cup {row'[s]}
  BY <1>1 DEF Expire, IInv, TypeOK, CachedIsRecent, Cached
<1>5. \A t \in Thread :
          pc'[t] = "fill" => fetched'[t] \in recent[shop'[t]] \cup {row'[shop'[t]]}
  BY <1>1 DEF Expire, IInv, TypeOK, FetchedIsRecent
<1> QED
  BY <1>1, <1>2, <1>3, <1>4, <1>5, RecentStep

\* The invariant is inductive: every query, save, update, failure and expiry of
\* ShopServiceImpl and Redis keeps it.
LEMMA NextKeeps == IInv /\ [Next]_vars => IInv'
<1> SUFFICES ASSUME IInv, [Next]_vars PROVE IInv'
  OBVIOUS
<1>1. CASE \E t \in Thread, s \in Shop : Hit(t, s) \/ Miss(t, s)
  BY <1>1, HitKeeps, MissKeeps
<1>2. CASE \E t \in Thread, s, id \in Shop, c \in Content : Save(t, s, c, id)
  BY <1>2, SaveKeeps
<1>3. CASE \E t \in Thread, s \in Shop, c \in Content : SaveShop(t, s, c)
  BY <1>3, SaveShopKeeps
<1>4. CASE \E t \in Thread : Proceed(t)
  BY <1>4, LoadKeeps, FillKeeps, EvictKeeps, CommitKeeps DEF Proceed
<1>5. CASE \E t \in Thread : CallFails(t)
  BY <1>5, CallFailsKeeps
<1>6. CASE \E s \in Shop : Expire(s)
  BY <1>6, ExpireKeeps
<1>7. CASE UNCHANGED vars
  BY <1>7 DEF vars, IInv, TypeOK, CachedIsRecent, Cached, FetchedIsRecent, RowIsRecent,
              UpdatesWriteContent
<1> QED
  BY <1>1, <1>2, <1>3, <1>4, <1>5, <1>6, <1>7 DEF Next

\* Whatever queries, saves, updates, failures and expiries do, caches and readers hold
\* only what the row has been since its shop was last out of Redis.
THEOREM Invariance == Spec => []IInv
  BY InitIInv, NextKeeps, PTL DEF Spec

\* queryById never answers with what no transaction has committed, nor with what the
\* delete or the TTL has taken out of Redis for good, however its three steps
\* interleave with updateShop, saveShop, rollbacks and expiry.
THEOREM ServedRecently == Spec => ServedIsRecent
<1>1. ASSUME IInv, [Next]_vars, NEW t \in Thread, NEW s \in Shop,
             Hit(t, s) \/ (Fill(t) /\ shop[t] = s)
      PROVE  answer'[t] \in recent'[s]
  <2>1. CachedIsRecent' /\ TypeOK
    BY <1>1, NextKeeps DEF IInv
  <2>2. CASE Hit(t, s)
    <3>1. cache' = cache /\ cache[s] # Nil /\ answer'[t] = Cached(s)
      BY <2>1, <2>2 DEF Hit, TypeOK
    <3> QED
      BY <2>1, <3>1 DEF CachedIsRecent, Cached
  <2>3. CASE Fill(t) /\ shop[t] = s
    <3>1. fetched[t] \in Content \cup {NoRow}
      BY <1>1, <2>3 DEF Fill, IInv, TypeOK, FetchedIsRecent
    <3>2. /\ answer'[t] = fetched[t]
          /\ cache'[s] = IF fetched[t] = NoRow THEN Blank ELSE fetched[t]
      BY <2>1, <2>3 DEF Fill, TypeOK
    <3>3. cache'[s] # Nil /\ Cached(s)' = answer'[t]
      BY <3>1, <3>2, ContentAssumption, MarkersAssumption DEF Cached
    <3> QED
      BY <2>1, <3>3 DEF CachedIsRecent
  <2> QED
    BY <1>1, <2>2, <2>3
<1>2. IInv /\ [Next]_vars
        => [\A t \in Thread, s \in Shop :
              Hit(t, s) \/ (Fill(t) /\ shop[t] = s) => answer'[t] \in recent'[s]]_vars
  BY <1>1
<1> QED
  BY <1>2, Invariance, PTL DEF Spec, ServedIsRecent

\* Every variable of the cache and of its readers and writers keeps to its set.
THEOREM Typing == Spec => []TypeOK
<1>1. IInv => TypeOK
  BY DEF IInv
<1> QED
  BY <1>1, Invariance, PTL
=============================================================================
