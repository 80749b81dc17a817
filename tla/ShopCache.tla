----------------------------- MODULE ShopCache -----------------------------
(***************************************************************************)
(* The cache-aside reads of shops: ShopServiceImpl.queryById through       *)
(* CacheClient.queryWithPassThrough, and the writes that go with them,     *)
(* saveShop and updateShop.                                                *)
(*                                                                         *)
(* tb_shop is its committed rows: a row is the content the last committed  *)
(* transaction gave it.  updateShop deletes the Redis key inside its       *)
(* transaction, so the key is free again before the new row can be seen.   *)
(* Redis keys go when their TTL has passed (30 minutes for a shop, 2 for   *)
(* the empty string that stands for a missing shop).                       *)
(***************************************************************************)
EXTENDS Integers, FiniteSets

CONSTANTS
    Shop,       \* the values of tb_shop.id
    Thread,     \* the HTTP threads
    Content,    \* what a shop may look like, its id aside
    NoRow,      \* there is no such shop
    Blank,      \* the cached empty string
    Nil,        \* no such Redis key; nothing answered or fetched
    MaxUpdates, \* bound on the calls of updateShop
    MaxSaves,   \* bound on the calls of saveShop
    MayFail     \* whether a call may throw between two of its steps

ASSUME ContentAssumption == {NoRow, Blank, Nil} \cap Content = {}
ASSUME MarkersAssumption == NoRow # Blank /\ NoRow # Nil /\ Blank # Nil
ASSUME BoundsAssumption == MaxUpdates \in Nat /\ MaxSaves \in Nat /\ MayFail \in BOOLEAN

VARIABLES
    row,        \* tb_shop, as committed
    cache,      \* cache:shop:<id>
    pc,         \* where a thread is
    shop,       \* the id a thread is asked about, or told to update
    fetched,    \* queryById: the row that was read; updateShop: the new content
    target,     \* updateShop: the id of the row that the commit writes
    loaded,     \* updateShop: the row as merge found it
    answer,     \* what the thread's last queryById found
    updates,    \* number of updateShop calls so far
    saves,      \* number of saveShop calls so far
    recent      \* history: what each row has been since the moment at which
                \* nothing of it was cached or on its way into the cache

callVars == <<shop, fetched, target, loaded>>
countVars == <<updates, saves>>

vars == <<row, cache, pc, callVars, answer, countVars, recent>>

\* Nothing of the row is in Redis, nor in the hands of a query that will put it
\* there.
Forgotten(s) == cache[s] = Nil /\ \A t \in Thread : pc[t] = "fill" => shop[t] # s

\* The last conjunct of each action.
Remember ==
    recent' = [s \in Shop |-> IF Forgotten(s)' THEN {row'[s]} ELSE recent[s] \cup {row'[s]}]

\* The call of t is over, and its locals with it.
Return(t) ==
    /\ pc' = [pc EXCEPT ![t] = "idle"]
    /\ fetched' = [fetched EXCEPT ![t] = Nil]
    /\ loaded' = [loaded EXCEPT ![t] = Nil]
    /\ UNCHANGED <<shop, target>>

----------------------------------------------------------------------------
(* queryById *)

\* What a cached string stands for.
Cached(s) == IF cache[s] = Blank THEN NoRow ELSE cache[s]

\* GET.  A hit, the blank one included, is the answer.
Hit(t, s) ==
    /\ pc[t] = "idle"
    /\ cache[s] # Nil
    /\ answer' = [answer EXCEPT ![t] = Cached(s)]
    /\ UNCHANGED <<row, cache, pc, callVars, countVars>>
    /\ Remember

Miss(t, s) ==
    /\ pc[t] = "idle"
    /\ cache[s] = Nil
    /\ pc' = [pc EXCEPT ![t] = "load"]
    /\ shop' = [shop EXCEPT ![t] = s]
    /\ answer' = [answer EXCEPT ![t] = Nil]
    /\ UNCHANGED <<row, cache, fetched, target, loaded, countVars>>
    /\ Remember

\* Mutant of Load: what an update has not committed yet can be read.
LoadDirty(t) ==
    /\ pc[t] = "load"
    /\ pc' = [pc EXCEPT ![t] = "fill"]
    /\ \E c \in {row[shop[t]]} \cup
               {fetched[u] : u \in {w \in Thread : pc[w] = "commit" /\ target[w] = shop[t]}} :
          fetched' = [fetched EXCEPT ![t] = c]
    /\ UNCHANGED <<row, cache, shop, target, loaded, answer, countVars>>
    /\ Remember

\* dbFallback, a read of the committed row.
Load(t) ==
    /\ pc[t] = "load"
    /\ pc' = [pc EXCEPT ![t] = "fill"]
    /\ fetched' = [fetched EXCEPT ![t] = row[shop[t]]]
    /\ UNCHANGED <<row, cache, shop, target, loaded, answer, countVars>>
    /\ Remember

\* SET with a TTL: the blank string for a missing shop, the shop otherwise.
Fill(t) ==
    /\ pc[t] = "fill"
    /\ cache' = [cache EXCEPT ![shop[t]] = IF fetched[t] = NoRow THEN Blank ELSE fetched[t]]
    /\ answer' = [answer EXCEPT ![t] = fetched[t]]
    /\ Return(t)
    /\ UNCHANGED <<row, countVars>>
    /\ Remember

----------------------------------------------------------------------------
(* saveShop and updateShop *)

\* saveShop: without an id in the body the next free one is inserted; with the
\* id of a row JPA merges into that row.  Neither touches the cache.
SaveShop(t, s, c) ==
    /\ pc[t] = "idle"
    /\ saves < MaxSaves
    /\ \A u \in Thread : pc[u] \in {"evict", "commit"} /\ loaded[u] = NoRow => target[u] # s
    /\ saves' = saves + 1
    /\ row' = [row EXCEPT ![s] = c]
    /\ UNCHANGED <<cache, pc, callVars, answer, updates>>
    /\ Remember

\* updateShop, shopRepository.save(shop): merge reads the row.  If there is none
\* it inserts the shop under the next free id, whatever id the body has.
Save(t, s, c, id) ==
    /\ pc[t] = "idle"
    /\ updates < MaxUpdates
    /\ IF row[s] # NoRow
       THEN id = s
       ELSE /\ row[id] = NoRow
            /\ \A u \in Thread : pc[u] \in {"evict", "commit"} => target[u] # id
    /\ updates' = updates + 1
    /\ pc' = [pc EXCEPT ![t] = "evict"]
    /\ shop' = [shop EXCEPT ![t] = s]
    /\ fetched' = [fetched EXCEPT ![t] = c]
    /\ target' = [target EXCEPT ![t] = id]
    /\ loaded' = [loaded EXCEPT ![t] = row[s]]
    /\ answer' = [answer EXCEPT ![t] = Nil]
    /\ UNCHANGED <<row, cache, saves>>
    /\ Remember

\* Mutant of Evict: the new content is cached instead.
EvictRefreshes(t) ==
    /\ pc[t] = "evict"
    /\ cache' = [cache EXCEPT ![shop[t]] = fetched[t]]
    /\ pc' = [pc EXCEPT ![t] = "commit"]
    /\ UNCHANGED <<row, callVars, answer, countVars>>
    /\ Remember

\* The key of the id in the body is deleted, inside the transaction.
Evict(t) ==
    /\ pc[t] = "evict"
    /\ cache' = [cache EXCEPT ![shop[t]] = Nil]
    /\ pc' = [pc EXCEPT ![t] = "commit"]
    /\ UNCHANGED <<row, callVars, answer, countVars>>
    /\ Remember

\* The transaction flushes and commits: Hibernate writes the whole row, unless
\* the new content is what merge had found.
Commit(t) ==
    /\ pc[t] = "commit"
    /\ row' = IF fetched[t] = loaded[t] THEN row ELSE [row EXCEPT ![target[t]] = fetched[t]]
    /\ Return(t)
    /\ UNCHANGED <<cache, answer, countVars>>
    /\ Remember

\* A call throws, or its process dies: a query ends without an answer, an
\* update is rolled back (unique key, lost connection, Redis not reachable).
CallFails(t) ==
    /\ MayFail
    /\ pc[t] # "idle"
    /\ Return(t)
    /\ UNCHANGED <<row, cache, answer, countVars>>
    /\ Remember

----------------------------------------------------------------------------

\* Mutant of Expire: the blank string was set without a TTL.
ExpireShops(s) ==
    /\ cache[s] \notin {Nil, Blank}
    /\ cache' = [cache EXCEPT ![s] = Nil]
    /\ UNCHANGED <<row, pc, callVars, answer, countVars>>
    /\ Remember

\* The TTL of a key has passed.
Expire(s) ==
    /\ cache[s] # Nil
    /\ cache' = [cache EXCEPT ![s] = Nil]
    /\ UNCHANGED <<row, pc, callVars, answer, countVars>>
    /\ Remember

Init ==
    /\ row \in [Shop -> Content \cup {NoRow}]
    /\ cache = [s \in Shop |-> Nil]
    /\ pc = [t \in Thread |-> "idle"]
    /\ shop \in [Thread -> Shop]
    /\ fetched = [t \in Thread |-> Nil]
    /\ target = shop
    /\ loaded = [t \in Thread |-> Nil]
    /\ answer = [t \in Thread |-> Nil]
    /\ updates = 0
    /\ saves = 0
    /\ recent = [s \in Shop |-> {row[s]}]

\* The rest of a call that has begun.
Proceed(t) == Load(t) \/ Fill(t) \/ Evict(t) \/ Commit(t)

Next ==
    \/ \E t \in Thread :
        \/ \E s \in Shop : Hit(t, s) \/ Miss(t, s)
        \/ \E s, id \in Shop, c \in Content : Save(t, s, c, id)
        \/ \E s \in Shop, c \in Content : SaveShop(t, s, c)
        \/ Proceed(t)
        \/ CallFails(t)
    \/ \E s \in Shop : Expire(s)

Spec == Init /\ [][Next]_vars

\* A call that has begun runs on, and Redis drops a key whose TTL has passed.
\* Nobody is obliged to call.
FairSpec ==
    /\ Spec
    /\ \A t \in Thread : WF_vars(Proceed(t))
    /\ \A s \in Shop : WF_vars(Expire(s))

----------------------------------------------------------------------------
(* Properties *)

\* Every variable keeps to its set: Redis never holds the text of a null.
TypeOK ==
    /\ row \in [Shop -> Content \cup {NoRow}]
    /\ cache \in [Shop -> Content \cup {Blank, Nil}]
    /\ pc \in [Thread -> {"idle", "load", "fill", "evict", "commit"}]
    /\ shop \in [Thread -> Shop]
    /\ fetched \in [Thread -> Content \cup {NoRow, Nil}]
    /\ target \in [Thread -> Shop]
    /\ loaded \in [Thread -> Content \cup {NoRow, Nil}]
    /\ answer \in [Thread -> Content \cup {NoRow, Nil}]
    /\ updates \in 0 .. MaxUpdates
    /\ saves \in 0 .. MaxSaves
    /\ recent \in [Shop -> SUBSET (Content \cup {NoRow})]

\* queryById answers with nothing but what the row has been since the last moment
\* at which it was out of Redis and no query was about to put it back: the content
\* of an update that is rolled back is never shown, "no such shop" is only said of
\* a shop that did not exist, and what the delete or the TTL has taken out comes
\* back only by a query that had read it before.
ServedIsRecent ==
    [][\A t \in Thread, s \in Shop :
          Hit(t, s) \/ (Fill(t) /\ shop[t] = s) => answer'[t] \in recent'[s]]_vars

\* Once the updates are over the cache agrees with tb_shop, and stays so: what
\* a race has left behind goes with its TTL and is not put back.
EventuallyCoherent ==
    <>[](\A s \in Shop : cache[s] # Nil => Cached(s) = row[s])

\* ShopServiceImplTest on updateShop: it writes the row and clears the cache, both at
\* once (the consistency contract).  So when the row has changed, its key is gone or is
\* of the new row already.
UpdateClearsCache ==
    [][\A t \in Thread, s \in Shop :
          Commit(t) /\ shop[t] = s /\ cache'[s] # Nil => Cached(s)' = row'[s]]_vars

----------------------------------------------------------------------------
(* The inductive invariant behind ServedIsRecent *)

CachedIsRecent == \A s \in Shop : cache[s] # Nil => Cached(s) \in recent[s]

FetchedIsRecent == \A t \in Thread : pc[t] = "fill" => fetched[t] \in recent[shop[t]]

RowIsRecent == \A s \in Shop : row[s] \in recent[s]

\* What an update writes is content, never a marker.
UpdatesWriteContent ==
    \A t \in Thread : pc[t] \in {"evict", "commit"} => fetched[t] \in Content

IInv == TypeOK /\ CachedIsRecent /\ FetchedIsRecent /\ RowIsRecent /\ UpdatesWriteContent
=============================================================================
