# CityFlow in TLA+

A verification project for CityFlow, a Spring Boot service with a flash-sale
("seckill") pipeline over Redis, Kafka and MySQL, cached shop pages, logins with
JWT, blogs, and a staged import of seed data. The modules here are translated
from the Java and SQL of the repository; `PROJECT.json` maps each definition to
its lines. `J` below stands for `src/main/java/com/cityflow`.

## 1. Inventory

| Component | State it keeps | Operations | Interacts with |
|---|---|---|---|
| Seckill HTTP path (`J/service/impl/VoucherOrderServiceImpl`) | `seckill:stock:<v>`, `seckill:order:<v>` in Redis | `seckillVoucher` | Redis commands one by one, id generator, Kafka send |
| Order id generator (`J/utils/RedisIdWorker`) | `icr:order:<date>` in Redis | `nextId` | the system clock, Redis |
| Kafka (external) | producer buffer, partition, committed offset, DLT | append, poll, commit | both sides of the pipeline |
| Order consumer (`J/kafka/OrderCreatedConsumer`) | `tb_voucher_order`, `tb_seckill_voucher.stock` | `onOrderCreated` in one transaction | MySQL, error handler |
| Error handling (`J/config/kafka/KafkaErrorHandlingConfig`) | failure count of the record in hand | back-off, dead letter | consumer, DLT |
| Stock preload (`J/kafka/SeckillStockInitializer`) | its list of rows | `preloadStock` at every start | MySQL read, Redis SETNX |
| Voucher administration (`J/service/impl/VoucherServiceImpl`) | voucher rows | `addSeckillVoucher`, `addVoucher`, query | MySQL |
| Shop service (`J/service/impl/ShopServiceImpl`) | `tb_shop` | `queryById`, `saveShop`, `updateShop`, paged reads | cache client, MySQL |
| Cache client (`J/utils/CacheClient`) | `cache:shop:<id>`, `lock:shop:<id>` | pass-through, logical expiry, mutex rebuild | Redis, a pool of 10 threads |
| User service (`J/service/impl/UserServiceImpl`) | `login:code:<phone>`, `tb_user` | `sendCode`, `login` | Redis, MySQL, JWT |
| Authentication (`J/config/security`, `J/utils/*Interceptor`, `UserHolder`) | thread-locals of pooled threads | two filters, two interceptors | every HTTP call |
| Blogs (`J/service/impl/BlogServiceImpl`) | `tb_blog` | save, like, two queries | MySQL, the rows the import merges into |
| Migrations (`src/main/resources/db/migration`) | stage and core tables, AUTO_INCREMENT, Flyway's history | V1 .. V5 | Flyway at start, the application's own inserts |
| TSV cleaning (`ops/flyway/clean_tsv.py`) | files | `main`, `clean_file`, `clean_tsv_text` | an operator runs it, or does not; writes what V3 loads |
| Front end (`ops/nginx/html/cityflow/js/common.js`, `login.html`) | `sessionStorage.token`, the page's `token`, the refresh cookie | two interceptors, login, going from page to page | every HTTP call, through nginx |
| Error responses (`J/config/WebExceptionAdvice`) | - | which answer is 200, 401 or 500 | the front end's interceptors |
| Uploads, skeletons, unused helpers | - | - | - |

What is hard in them:

* **Interleaving.** `seckillVoucher` is five or six separate Redis commands and a
  send, on many threads, without a lock or a script.
* **Crashes.** The process holds state that dies with it (request threads, the
  producer's buffer, the consumer's progress beyond the committed offset) while
  Redis, Kafka and MySQL live on; then everything starts again, the preload too.
* **Unreliable calls.** A Redis command or a COMMIT may take effect and its
  answer be lost; a record may be given up by the producer without anyone
  hearing of it; a record is delivered again after a failure or a crash.
* **Redis itself.** The image runs with its default snapshots, so a restart takes
  the counters back in time; the client repeats commands after a reconnect.
* **Two keys.** The import upserts under a primary and a natural key, may die
  between its commit, its DDL and Flyway's own row, and shares ids with the
  application.
* **Callers that give up.** The front end drops a call after 2 s; the server's
  thread goes on, and its cookie may still arrive.
* **Caches.** A key is deleted inside the transaction that changes the row.
* **Pooled threads and clocks.** Thread-locals that outlive a request; a local
  date-time used as if it were UTC.

What makes each correct: the seckill pipeline sells no unit twice, sells one
unit per user, loses nothing it has accepted, and its two counters agree once
the queue is empty; ids are unique; a cached shop is something `tb_shop` once
held and stops being stale; a login finds or creates exactly one user per phone;
a thread never serves a request with another request's user, and no page reports
as done what was done for a stranger; a like counts; the import keeps both keys,
loses no row and can be repeated. The hazards behind these are listed, each at its line,
in `PROJECT.json`.

## 2. Plan

In the order of importance, each with its proof module. All of it is done.

1. `FlashSale` (what a sale promises), `Seckill` (the whole pipeline, which
   implements it).
2. `RedisIdWorker`: the id that `Seckill` takes from a counter, and `IdSource`, what
   the one asks for and the other gives.
3. `ShopCache`: the pass-through cache with its updates.
4. `CacheRebuild`: `queryWithMutex` and `queryWithLogicalExpire` with their lock,
   its TTL and the rebuild pool.
5. `Account`: codes, logins and find-or-create, and the filters, interceptors and
   thread-locals every request passes.
6. `SeckillFaults`, which extends `Seckill` by a Redis that goes back to its
   snapshot, commands sent twice and records that cannot be decoded.
7. `SeedImport`: V3 to V5 with two unique keys per table, dying starts and
   re-runs, together with the inserts and likes of the application; `CleanTsv`:
   what `clean_tsv.py` makes of a file; `SeedFiles`, which composes the two: the files an
   import finds, cleaned or not, against the docstring of the script.
8. `FrontEnd`, which extends `Account` by the tabs and browsers in front of it.

`Seckill` implements `FlashSale`, and `FrontEnd` implements `Account` in the sense
that its server part takes only `Account`'s steps. `Seckill`, which uses ids, and
`RedisIdWorker`, which makes them, both implement `IdSource`. `ImportIsMerge` compares
the import with `Merged`, a merge described by natural keys alone. `SeedFiles` extends
`SeedImport` and implements it (`FilesAreImported`): it only decides which files an
import finds.

Left for later: two listener threads on several partitions, should the deployment
ever change; references (`user_id`, `shop_id`) between imported rows.

## 3. Modules

### Seckill (with FlashSale)

One action per step that another thread, a crash or a failure can come between.

| Code | Action | Variables |
|---|---|---|
| `GET stock` (52-55) | `GetStock` | `pc` |
| `DECR` (58-59) | `Decr` | `stock`, `claim` |
| `INCR` on "sold out" (61-62), on "already bought" (70-71) | `UndoOver`, `UndoDup` | `stock`, `claim` |
| `SADD` (67-68) | `Sadd` | `bought` |
| `nextId` (75) | `NextId` | `icr`, `orderId` |
| `kafkaTemplate.send` and the answer (79-85) | `Send` | `pending`, `pc` |
| any of these throws | `CallFails`, and the `error` branch of `Answer` and `NextId` | `pc` |
| the producer's I/O thread | `Deliver`, `Expire` | `pending`, `log` |
| `onOrderCreated` and its commit | `Consume` = `Skip`, `Persist` or `Drop` | `orders`, `dbStock`, `position` |
| it throws, `DefaultErrorHandler` | `Retry`, `DeadLetter`, `DeadLetterFails` | `failures`, `dlt`, `position` |
| offset commit (AckMode BATCH) | `CommitOffset` | `committed` |
| `preloadStock` | `PreloadRead`, `PreloadSetnx` | `snapshot`, `stock` |
| `addSeckillVoucher` | `AddSeckillVoucher` | `dbStock` |
| the process dies, docker restarts it | `Crash`, `Restart` | everything held in memory |

Notes on the translation:

* `CallFails` is a call that has had no effect; the `error` branch of `Answer` is
  one that had its effect and lost its answer. In both the request ends with an
  exception and nothing is undone, as in the code, which has no try block.
* The producer's records may reach the partition in any order, which allows more
  than an idempotent producer does. One partition and one listener thread: the
  topic is created by the broker with one partition, and the listener has the
  default concurrency.
* `Throws` covers a rollback and a COMMIT whose answer is lost. The transaction
  itself is atomic, because InnoDB makes it so and the only reader that matters,
  the preload, is a single query.
* `stock` in MySQL is `INT UNSIGNED NOT NULL`, hence `Quantity \subseteq Nat`.
* `claim`, `offered` and `dropped` are history variables; no guard reads
  `claim` or `dropped`.
* Redis keeps its data here; `SeckillFaults` takes that away.

`FlashSale` is the promise: a voucher is offered once, a unit is granted to a new
buyer while there are any, a granted unit is fulfilled at most once. `Seckill`
implements it with `granted <- bought` (SADD is the moment of the grant) and
`fulfilled <-` the users whose order is stored.

`StoresAgree` compares the two stores that have no transaction in common: Redis lacks,
against MySQL, exactly the units of the requests in `Held`, those that took one and
have no order yet or will never have one. `RestIsConsistent` is what remains of it
when nothing fails and nothing is under way (`AtRest`): accepted orders are stored and
the counters are equal.

### SeckillFaults

| What happens | Action | Variables |
|---|---|---|
| BGSAVE | `Save` | `saved` |
| Redis dies and is restarted | `RedisRestarts` | `stock`, `bought` as saved; `forgotten` |
| `nextId` (RedisIdWorker:27-41) with a forgotten count | `NextIdAgain` | `orderId`, `forgotten`, `again` |
| Lettuce sends a command again after a reconnect | `Resend` | `stock`, `bought` or `icr`, a second time |
| a record that is no `OrderCreatedEvent` | `WriteMalformed` | `log` |
| `poll()` with `JsonDeserializer` (application.yaml:70) | `Poll` | that of the listener, or nothing in front of a malformed record |

All other steps are those of `Seckill`. `Poll` is blocked in front of a malformed
record because the exception is thrown inside `poll()`, before there is a record
the error handler could retry or dead-letter: there is no
`ErrorHandlingDeserializer` in the configuration. README.md:142-143 and
docs/DESIGN.md:225-228 of the repository say that bad events never block the main
topic; that holds of records whose handling fails, not of these, and
`DrainsToMalformed` is the exact form.

`ResendsCostOneEach` says what repeated commands can do while Redis keeps its data and
the topic holds events only: the counter of a voucher is off by one unit for each of
them at the most, in either direction, and no more accepted orders than that are dropped
for want of stock. It must hold wherever the repetition falls among the other requests,
the compensating INCRs, the preloads and the crashes, and for the second `DECR` of a
request that was refused as well as for that of one that was not.

The counter `icr:order` is set back with the rest. An id is a second and a count, and
a count that comes again makes an old id when the clock was read in the old second:
by a call that read it before Redis died, whose INCR Lettuce queued and sent
afterwards, or by one that comes when Redis is back within the second. `forgotten`
are the ids whose counts Redis has given and no longer knows of. A call draws one of
them (`NextIdAgain`), or, the clock having moved on, a new one (`NextId`; `icr` numbers
the ids there have been and does not go back). The model has no time: which calls fall
in the second of which is left open, so that it may let an id come again later than the
code can. `existsById` takes the second order with an id for a redelivery of the first
and passes over it, with a log line that calls it a replay: that is `Mistaken`, and
`SettledOrWaiting` says that no record is lost unnoticed in any other way.
docs/DESIGN.md:238-241 rests the idempotency of the consumer on the order id alone.

### RedisIdWorker

`ReadClock` takes the one reading that `nextId` uses for both the high bits and
the day of the key; `Increment` is the INCR and the returned id. The clock may
be set to anything at any time, which covers midnight between the two, the end
of summer time and a corrected clock. `IdOf` is `timestamp << 32 | count` for a
count that fits; the guard `count < CountLimit` is that bound.

`Seckill` has a counter in the place of the whole id. That this is no more than
`RedisIdWorker` gives is `IdSource`: a call is answered once, with an id no other call
got. Both modules implement it (`ImplementsIdSource`), with `answers` the pairs of a
call and its id; with the set of ids alone, an id drawn a second time would look like
a step that changes nothing.

### ShopCache

`Hit`, `Miss`, `Load`, `Fill` are `queryWithPassThrough`, with the blank string
for a missing shop; `Save`, `Evict`, `Commit` are `updateShop`, whose merge,
delete and commit are three moments; `SaveShop` is one transaction whose only
visible moment is its commit. A merge writes the row with the id of the body if
there is one, inserts under a fresh id otherwise, and writes nothing if nothing
changed since it looked. `CallFails` ends a call between any two steps and rolls
an update back. `Expire` is the TTL.

`recent` is history, kept by the last conjunct of each action (`Remember`): what a row
has been since the last moment at which its key was absent and no query stood between
its read and its SET. It says how old an answer may be (`ServedIsRecent`): the race
between a query and an update can leave an old row in Redis, but once the delete or the TTL
has taken it out and no query holds it, no query brings it back.

### CacheRebuild

`queryById` has both methods in comments, as alternatives to the one it calls.
Each key is read in one way, `Logical` naming those of `queryWithLogicalExpire`.

| Code | Action | Variables |
|---|---|---|
| `GET` in `queryWithMutex` (123-134) | `Get` | `pc` |
| `tryLock` (141), sleep and call again | `TryLock`, `TryLockFails` | `lock`, `depth` |
| `dbFallback` and SET (149-158) | `Rebuild`, `RebuildFails` | `cache` |
| `finally`, once per nested call (161-164) | `Unlock` | `lock`, `depth` |
| `GET` in `queryWithLogicalExpire` (79-93) | `GetLogical` | `pc` |
| `tryLock` (97) and `submit` | `TryLockLogical`, `TryLockLogicalFails` | `lock`, `tasks` |
| the task in the pool (102-113) | `RebuildLogical`, `UnlockLogical` | `cache`, `tasks`, `lock` |
| the lock's TTL, a key's TTL or deletion, `expireTime` | `ExpireLock`, `ExpireKey`, `ExpireLogically` | `lock`, `cache` |
| the process dies | `Crash` | `pc`, `tasks` |

The recursion of `queryWithMutex` is `depth`, the number of calls whose `finally`
is still owed; beyond `MaxDepth` it is no longer counted up, which lets a waiter
unlock less often, never more. The `finally` of a call that was refused the lock
deletes it all the same, so callers of `queryWithMutex` do rebuild at once; the
method has no caller in production code, and no property here denies it.
`Rebuild` joins the read of the row with
the SET, because the row does not change here (`ShopCache` has that race); the
lock may expire before or after it. `outlived` notes the keys whose lock expired
under somebody at work.

### Account

| Code | Action | Variables |
|---|---|---|
| `TraceIdFilter` on the way in | `Receive` | `traced`, `request` |
| `JwtAuthenticationFilter` up to the chain | `Authenticate` | `holder`, `context`, `accepted` |
| `authorizeHttpRequests`, the entry point | `Authorize` | `pc` |
| both `preHandle` | `PreHandle`, `PreHandleFails` | `pc` |
| `sendCode` | `SendCode` | `codes` |
| `login` (60-63), (66), `createUserWithPhone` | `CheckCode`, `FindByPhone`, `CreateUserWithPhone` | `phone`, `users`, `tokens` |
| other handlers, refused input | `Handle` | `pc` |
| `afterCompletion` | `AfterCompletion` | `holder` |
| both `finally` blocks | `Leave` | all thread-locals |

Notes on the translation:

* `Path` has one member for each combination of rules the two configurations
  give, and `own` for the handlers that call `UserHolder.getUser().getId()`.
* A signed token is its user id. `Authenticate` may find any token expired, so
  every order of expiry is covered. Whether `genAccess` accepts the null claims it
  is given on line 58 is the library's business; both outcomes are allowed.
* The hash `RefreshTokenInterceptor` reads is written nowhere in the repository, so
  it is always empty; the read itself may fail.
* Spring Security's own filter clears the security context too. It is left out,
  and the property holds without it.
* `login` has no transaction of its own: `findByPhone` and the INSERT are separate
  steps, and the INSERT answers to `uk_user_phone`.

### FrontEnd

| Code | Action | Variables |
|---|---|---|
| request interceptor (common.js) and a page's call | `Send` | `call`, and `Receive` of `Account` |
| response interceptor, `success` | `Fulfil` | `shown` |
| login.html on success | `LoggedIn` | `storage`, `token`, `page`, `cookie` |
| response interceptor, everything else | `Reject` | `call` |
| `axios.defaults.timeout` | `TimeOut` | `call`, perhaps `cookie` |
| a page is loaded, a tab is closed | `Navigate`, `Reopen` | `token`, `storage` |
| what the server answers at each of its steps | `Server`: `Refuse`, `Intercept`, `Run`, `Code_`, `Check`, `SignIn`, `Pass` | `reply`, and a step of `Account` |

* Each tab has one call in flight. Tabs of a browser share the refresh cookie, so
  a tab whose own token has expired acts as whoever logged in last in that
  browser; `DoneForItsBrowser` is therefore about the browser and not the tab.
* The cookie is ignored when there is no access token. `/user/logout` and `/user/me`
  have no handler that succeeds, and no page reads the `X-ACCESS-TOKEN` header of a
  renewed token; there is nothing to model in either.
* The entry point answers 200 without `success`, so an unauthenticated call to a
  protected path is a rejected promise with a message. The 401 of
  `LoginInterceptor` is met by no call of a page, so that the redirect of
  common.js:27-33 does not run; `Reject` and `Navigate` would cover it.
* `error.response` is undefined after a timeout, the interceptor itself throws, and
  the call is rejected all the same (`TimeOut`).

### SeedImport (with CleanTsv)

`Plan` is the three scripts as a sequence of steps; `step` and `line` say how far a
start has come.

| SQL or code | Action | Variables |
|---|---|---|
| V3 `TRUNCATE`, `LOAD DATA` | `Truncate`, `LoadData` | `stage` |
| V4, V5 `INSERT .. SELECT .. ON DUPLICATE KEY UPDATE`, row by row | `MergeRow`, `MergeEnds` | `work`, `autoinc` |
| `COMMIT` | `CommitWork` | `rows` |
| `ALTER TABLE .. AUTO_INCREMENT` | `ResetAutoIncrement` | `autoinc` |
| Flyway's history | `RecordVersion` | `recorded` |
| the start dies or a statement fails | `Crash` | `work`, `step` |
| new files, versions taken out of the history | `Rerun` | `file`, `recorded` |
| `login` of a new phone, `saveShop`, `addVoucher`, `saveBlog` | `Save` | `rows`, `autoinc` |
| `likeBlog` | `LikeBlog` | `rows`, `thanked` |

* `work` is what Flyway's connection sees. AUTO_INCREMENT is outside transactions: ids
  drawn stay drawn after a duplicate or a rollback.
* The application does not serve while Flyway runs, because Flyway runs before the
  web server starts; so `Save` and `LikeBlog` wait for `Serving`.
* `Save` takes bodies without an id, as blog-edit.html sends them. References of a
  row (`user_id`, `shop_id`) are inside its natural key and are not followed; what
  may dangle is a hazard in `PROJECT.json` (V5:37).
* `Merged` is what the import is compared with: each natural key of the file that has no
  row gets one, with the id of its first line, and each row named by the file takes
  the other columns of the last line of its key. `MergeInv` follows it through a start:
  what is committed is the table before or the whole merge, and what the connection
  sees is the merge of the lines so far, on top of either.
* `flyway repair` after a failed statement is folded into `Crash`. The gaps InnoDB's
  bulk inserts may leave in AUTO_INCREMENT are left out; the reset follows them.

### SeedFiles (with CleanTsv)

| Code | Definition | Variables |
|---|---|---|
| `read_text`, universal newlines (69) | `ReadText` | |
| the loop of `clean_tsv_text` (41-59) | `TakeLine`, `Scan`, `Flushed` | |
| `clean_tsv_text`, `clean_file` | `CleanTsvText`, `CleanFile` | |
| `main`, file by file (87-102) | `CleanAll`, `Reached` | |
| V3's column lists and `SET` | `LineOf`, `LinesOf`, `Loaded` | |
| an operator puts another export there and restarts, having cleaned it or not | `Supply` | `exported`, `dataDir`, `cleaned`, `file` |
| the same files again, as they are or cleaned (once more) | `Again` | `dataDir`, `cleaned`, `file` |

* A file is the sequence of lines that its line feeds cut it into, as V3 does; a return
  is a character in a line. `read_text` comes first: it turns a return, alone or before a
  line feed, into a line break, so that `text.replace("\r", "")` on line 24 never finds
  one. A return inside a field becomes a break that the loop mends with a space, unless
  it is in the last column, where it tears a fragment off.
* `clean_file` compares the text, not the bytes: a file that is clean but for its CRLF
  endings is taken for clean and keeps them (`CleanFile`).
* A file without lines has no `expected_cols`; the KeyError of its message ends `main`,
  and the files that come after it by name are not cleaned (`Reached`).
* The cleaning and the restart after it are one step: nothing else looks at the files
  while the application serves. `write_text` is taken as atomic, and a script
  killed between two files, the `.bak` copies, and files replaced while a failed
  start is being repeated are left out.
* `FilesComeWhole` speaks of every table whose file the script got to and did not leave
  with returns in it, and whose records can be put together at all: torn at their start or
  in their last column they cannot, and nothing is claimed of them.

## 4. Runs

| Run | Bounds | Shows |
|---|---|---|
| `seckill_safety` | 3 requests (one user twice), 1 voucher, stock 0..2, 3 retries, 2 crashes, all faults | the safety properties, the inductive invariant, agreement of the two stores, refinement of `FlashSale` and of `IdSource` |
| `seckill_faults` | 2 users, 1 voucher of 0 or 1 unit, 1 retry, failures of Redis and MySQL, 1 crash; 2 of: Redis loss, repeated command, malformed record, each once | a repeated command costs one unit and one order at most; MySQL never oversells, no id is shared but one that Redis forgot, nothing is passed over but for such an id, only a malformed record stops the consumer, every request ends |
| `seckill_nofaults` | same requests, stock 1..2, no faults | accepted orders are stored; the two stocks converge, and are equal whenever nothing is under way |
| `seckill_durability` (violation) | no faults, 1 crash | an accepted order whose event is nowhere |
| `redis_id_worker` | 3 threads, 2 days of 2 seconds, 3 ids a day | unique ids, refinement of `IdSource` |
| `shop_cache` | 2 shops, 2 threads, 2 contents, 2 updates, 1 save, failures | answers were committed, and nothing that had left Redis comes back; stale entries go for good |
| `shop_cache_update` (violation) | 1 shop, 2 threads, 1 update, no failure | an update that commits with the old row back under its key |
| `cache_rebuild` | 1 shop read in each way, 2 threads, 3 calls, depth 2, 1 crash, failures | one logical rebuild at a time; every query ends |
| `front_end` | 2 phones, 1 code, 2 threads, 4 requests, 2 browsers of one tab, failures | `Account`: clean threads, own user, earned tokens; what a page reports was done for its browser |
| `import` | 3 exports, cleaned or not, 2 natural keys, 1 re-run, 1 crash, 1 blog and 1 user of the application, ids up to 5 | both keys and every row survive; an import without clashing ids is a merge, at every line of it; what V3 stages of a cleaned file is its records |
| `import_rerun` (violation) | the shipped files, 1 re-run, no crash | a second import overwrites a row no line names |
| `blog_likes` (violation) | the shipped files, 1 like per blog | a like answered with true that does not count |

Why the bounds are enough for the interesting cases: three requests of two users
for at most two units make every one of them possible in one run: sold out, a
duplicate, a duplicate whose unit is the last one, a unit lost to a failure. Two
crashes allow a redelivery of a redelivered record and a second preload; the
retry count is the code's own 3. `seckill_faults` needs two buyers and one unit, so
that a unit or an id forgotten by Redis is given again, and none at all, so that one
repeated INCR sells a unit that is not there; each fault happens at most
once, at any moment, and any two of them combine (`MaxOfEach`, `MaxFaults`). Failures
of the producer are left to the other runs: they lose a record before it is one. Vouchers do not interact except through the
order of one partition and the id counter, and the safety properties are proved
for any number of them. Liveness keeps one retry, because each retry repeats the
same choice. For ids, two threads in one second and a third across midnight are
the cases; with field widths of 2 and 4 a carry between the fields would show.
In `ShopCache` two threads are one query and one write at each of their steps,
or two writes. In `CacheRebuild` a holder and a waiter are two threads. In
`front_end` four requests are two codes and two logins, or a code, a login, and
two requests of which one follows another user's on the same thread; two
browsers are what it takes to mix two users up. These four requests do not let
the tokens of two users meet in one call, a page's of the one and its browser's cookie of
the other: that takes two codes, two logins and a fifth request, which is beyond
what the run can afford. For that case `OwnRequest` and `DoneForOneself`
(section 5) speak, which bound nothing. `TokensAreEarned` says who may get a token, not that
a code serves once: `login` leaves the code in Redis until its TTL, and so does `CheckCode`.

In `import` the exports are one with blogs as in the repository's `.bak` file, torn apart,
the last two under one natural key, users with CRLF endings and a shop
with a return in a field; a broken one, with ids that are missing or belong to others,
records torn and without a key, and an empty file at which the script stops; and a
corrected one. A record has the four columns that matter, so it may be torn into as many
parts as that; texts of any length are left to the proof. Each export comes first or
second, cleaned or not, once or twice, and the application's blog and user go into the
gaps. `import_rerun` and `blog_likes` start from the shipped files as they are loaded
(`MCShipped`). A line of which V4 or V5 makes nothing has the key `Null`: for the shops
that includes the coordinates, which `WHERE` asks for as well (V4:50).

`CHECK_DEADLOCK FALSE` is in every configuration: with its requests answered,
its queue empty and its crashes used up, the system rests.

**Fairness** (`Fairness` in `Seckill`,
`FaultsFairness` in `SeckillFaults`, `FairSpec` in `ShopCache` and `CacheRebuild`). Weak fairness
of each thread that has begun, of the producer's I/O thread, the listener loop,
the offset commit, the preload, and of the restart (`restart: unless-stopped` in
docker-compose.yml). Nobody is obliged to send a request, no fault or crash is
fair, and the listener is obliged to do something with a record but not to
succeed. `seckill_faults` leaves out the failing recoverer: with it, a record
may fail for ever, and the code has no answer to that. Redis drops a key whose
TTL has passed, be it an entry or a lock. `EveryQueryEnds` holds for a bounded number of
calls: with endless new callers nothing keeps one of them from always being overtaken.

### Findings

1. *Durability* (docs/DESIGN.md:94-96). The send is asynchronous and its future
   dropped, so an accepted order may exist only in the process.
2. *The consistency contract of updateShop* (ShopServiceImplTest.java:28). The
   key is deleted before the commit, so a query that fills it between the two puts the old
   row back for 30 minutes, whether it read that row before the update began or after the
   delete. In the run's trace it had read it before.
3. *The merge goes by natural keys* (docs/DESIGN.md:199-202,
   V5__merge_refs.sql:33). `ON DUPLICATE KEY UPDATE` fires on the primary key as
   well. With the shipped files the id of the last line stays free, the first blog
   saved through the application takes it, and a second import overwrites it.
4. *A like counts* (BlogServiceImpl.java:38). A blog saved through the application has
   NULL likes, and NULL + 1 is NULL.

Smaller things met on the way, without a run of their own: a unit held by a
request that died with the process is never given back, because the preload is
a SETNX; a negative DECR may come from a duplicate call about to return its unit,
so that "sold out" can be premature; a topic with a record that cannot be decoded
stops, and a Redis that comes back within a second, or for a call that it kept waiting,
may answer two orders with one id, of which one is stored (see `SeckillFaults`);
`queryWithMutex` frees locks it does not hold. `clean_tsv.py` does not delete returns, as
lines 3 and 11 of its docstring say: those in a field become line breaks, and a file
that is clean but for CRLF endings keeps them, so that V3 loads a return with the
last column; an empty file ends the script with a KeyError before the files that follow;
and what is saved as `.bak` is the text of the first cleaning only, in which
returns are line feeds already, where line 14 promises the original file.

## 5. Proofs

Assumed throughout: the named `ASSUME`s of the modules, which TLC evaluates in
every run. Each is what the code gives: stocks are naturals, a request names a
user and a voucher, bounds are naturals, markers differ from data, an export is a
file for each table, and a text may hold a space but no return. `Request` need
not be finite.

**SeckillProofs.** `Invariance` proves `Spec => []IInv`, one lemma per action.
The safety properties alone are not inductive, and `IInv` adds what they rest on:

* `Phases`: what a thread has done follows from where it is (a thread before its
  DECR has no claim, one past SADD has a winning one).
* `OneBuyer`: two requests of one user past SADD on one voucher are one request,
  and order ids are at most the counter and distinct. This gives `OneOrderPerUser`
  with `EventsFromRequests`: every event anywhere was made by a request that has
  its id.
* `Loaded`: a claim implies the key, a key implies the row, and a row the
  preload still holds while its key is missing is what was offered. This
  is why a late SETNX is harmless.
* `Conservation` and `UnitsHeld`: a DECR that stays non-negative leaves room for
  one more winner, so winners never exceed the units; each buyer is a winner,
  hence `NoOversell`.
* `DbConservation` with the above gives `NeverDropped`: each order not yet stored
  is a winner's, so MySQL still has a unit for it.
* `PositionIsSettled` is `CommittedIsSettled` at the consumer's position.
* `Finite` keeps the cardinalities meaningful.

`Refinement` proves `Spec => ImplementsFlashSale` from `IInv`: `Sadd` maps to a
grant or a stutter, a storing `Consume`, or a `Throws` whose COMMIT took effect, to
a fulfilment, `AddSeckillVoucher` to an offer, everything else to a stutter.
`DrawsItsIds` does the same for `IdSource`: `NextId` is a draw, because `OneBuyer`
keeps every id at or below the counter, and nothing else touches an id.

`StoresStayInStep` (`StoresAgree`) needs no induction of its own. `Conservation` gives
Redis in terms of claims, `DbConservation` gives MySQL in terms of orders, and the
lemma `StoredClaims` counts the claims whose order is stored: as many as there are
orders, because events come from requests, and ids and buyers are distinct.
`RestConsistent` does need one: that requests pass on everything they accept
(`NothingGoesMissing`: without faults and crashes nobody dies with a unit, a refused
request has given its own back, and what was answered with ok is in the buffer or the
log). At rest the log is settled (`PositionIsSettled`), no record is a dead letter or a
drop, so accepted orders are stored, `Held` is empty, and `StoresAgree` says the rest.

**SeckillFaultsProofs.** `FaultsInvariance` is the invariant that is left when Redis may
forget and miscount: of stock and buyers `FaultsInv` keeps nothing but the types. What
it rests on is that an id belongs to one request unless Redis gave it again
(`IdsAreDrawnOnce`), that only ids given before can be given again, and none before
the first loss (`ForgottenWereGiven`), that every record that decodes is the event of a
request (`OnlyRequestsSell`), that an id is the key of one row (`OneRowPerId`), and that
MySQL's stock is what was offered less the stored orders. `RedisMayForget` then
follows from `WHERE stock > 0` alone, `OrdersAreGenuine` from the ids and the rows.
`NothingPassedOver` is about what the consumer has done with every record below its
position. When it skips one, there is a row with the record's id; both are events
of requests with that id, hence of one request, or the id came again and the record is
`Mistaken`; and neither the row nor the id's having come again is ever undone. The other properties of `Seckill`
(`Conservation`, `OneOrderPerUser`, `NeverDropped`) do not survive these faults.
`RepeatsCostOneEach` (`ResendsCostOneEach`) needs more of the pipeline, as long as nothing is
forgotten (`UnhurtInv`): that threads, buyers and keys are as in `Seckill`, that the counter is
what was offered less the claims, off by the repetitions (`DriftStep`, `DriftResend`), and so
that the winning claims exceed the units by no more than these (`WonStep`). A drop
is final: the row has no stock then, which means that every unit has an order
(`DroppedIsSoldOut`, `SoldOutStep`). So the dropped and the stored together are
winning claims, the stored are as many as the units, and what is left for the dropped is
the number of repetitions (`LetDownBounded`).

**RedisIdWorkerProofs.** `Uniqueness`: the count of an id is at most its day's
counter and no two ids of a day share it (`CountsDiffer`); equal ids have equal
parts (`PartsOfId`), hence an equal day, hence are one. From it `DrawsNewIds` follows:
an `Increment` appends one call whose id is none of those drawn.

**ShopCacheProofs.** `ServedRecently`: what is cached, or fetched and about to be, is
in `recent` (`CachedIsRecent`, `FetchedIsRecent`), because having it there is what keeps the
history from being forgotten, and updates delete the key and never write it. The lemma
`RecentStep` reduces each action to what it caches or fetches.

**CacheRebuildProofs.** `LogicalExclusion`: a task keeps its lock until its own
DEL unless the TTL takes it (`TasksAreLocked`), so a `tryLock` that succeeds finds
no other task of its key. `CallersKeepApart` is needed because the other strategy
deletes locks it does not own, and must be known to stay away from these keys.

**FrontEndProofs**, about `Account`. `LocalsFollowFilter` ties both thread-locals to the flag
`authenticated`: what is in them was accepted, so the `finally` takes it out
(`CleanThreads`), and until the interceptor clears one of them they are equal
(`OwnRequest`). `KeysHold`, `TokensHaveUsers` and `SentCodes` give `EarnedTokens`:
a code is cached only if it was sent, a login passes only with a cached one.

About `FrontEnd`: `FrontInv` adds to `Account`'s `IInv` that tabs and cookies hold only
tokens issued to their own browser (`HeldIsOwn`), that a thread works for one tab
and with what that browser had (`CallsAreOwn`), and that an answer says for whom it was
made (`AnswersAreTrue`). With it every request that is sent carries tokens the
server has issued, which is what `Account` allows its callers:
`FrontImplementsAccount` proves `FrontSpec => Spec`, and `AccountHoldsInFront`
carries the theorems about `Account` over. `DoneForOneself` is the property of
the pages.

**SeedImportProofs.** For any files, including those with clashing ids and lines
without key or id: `KeysAreKept` and `IdentitiesAreKept`. Both need to know that outside a
merge the connection sees what is committed (`WorkIsCommitted`), or the reset of
AUTO_INCREMENT, which reads the committed rows, could fall below an id of a merge
under way; and that a merge under way has a counterpart for each committed row
(`WorkKeepsRows`). `MAX(id)` exists because AUTO_INCREMENT bounds
the ids of a table and `<` is well-founded on the naturals.

`MergeInvariance` and `ImportsMerge` say that an import of files whose ids clash with
nothing is the merge by natural keys. The invariant has three parts besides `IInv`:
the history table agrees with the step (`RecordedSoFar`), a stage table is the file once
it is loaded (`StagedSoFar`), and `MergedSoFar` as described above. The weight is in two
facts about `Merged`. One line more is one `Upsert` more, whether its key is new,
was met in an earlier line, or has a row already, since under `NoClash` the two unique
keys find the same row or none. And `MergeAgain`: the same lines clash with nothing in
the table they were merged into, and merging them again changes nothing there, which
is why a start that dies after its COMMIT and before Flyway's row does no harm.

**SeedFilesProofs.** What `clean_tsv.py` makes of files of any length. `read_text` and the
loop are recursive functions over the lines, so the module first proves that such a
function exists and obeys its equation (`Recursion`), and that what holds for the first
line and is passed on by each holds for the last (`IntervalInduction`). Both follow from
`<` being well-founded on the naturals, stated with sets and functions, not with an
operator as parameter. `CleaningIsIdempotent` rests on an invariant of the loop (`LoopInv`):
what goes out starts with the header and has as many columns as it or more. Only what is
left in the buffer at the end may have fewer, and it is the last line. Such a
text (`Clean`) passes through unchanged (`CleanLinesStay`), so a second cleaning finds
nothing to do. `CleaningRestores` is an induction over the records: with an empty buffer
at the start of a record, every fragment but the last leaves too few columns and stays in
the buffer, and the last one brings out the whole record and empties the buffer again
(`RecordComesOut`).

For the files, `ReadTextIs` says that nothing with a return is left of a file and that
a file without returns is read as it is; `CleanFileIs` and `CleanAllIs` carry the idempotency
over to `clean_file` and to `main`, which gets exactly as far the second time as the
first. `FilesAreImported` shows that `SeedFiles` takes only `SeedImport`'s steps, so
that its theorems hold here too, and `FilesHold` that dataDir is the export or the
export cleaned once and that the import in hand reads it (`FilesInv`). `WholeRecordsAreLoaded`
(`FilesComeWhole`) puts these together: a stage table is what the file holds
(`StagedSoFar`), the file is what the cleaning made of the export, and that is its records.
`FilesInv` is too costly for TLC to evaluate in the `import` run and is only proved.

Only model-checked: liveness (`DrainsToMalformed`, `EveryRequestEnds`,
`AcceptedIsStored`, `Converges`, `EventuallyCoherent`, `EveryQueryEnds`), which is
outside what the proof system does under fairness; and the four
violations, which are counterexamples. Every other property of the passing runs has
its theorem. The type invariants are the first conjunct of
the inductive ones and have no run of their own.

## 6. Not modelled

* The vendored scripts of the front end (vue.js, element.js, axios.min.js), which
  are most of its lines: they are libraries, and what matters of axios (an answer or a
  timeout, by status) is in `FrontEnd`.
* The helpers of common.js that format prices and serialize parameters, footer.js, and
  what the pages draw: layout and text.
* Reads that keep no state (`queryVoucherOfShop`, the paged shop and blog queries),
  uploads, the skeleton classes and unused helpers: no behaviour to check.
* The tables that nobody imports (V1); the `.bak` files and the messages of `clean_tsv.py`.
* Begin and end times of a voucher, which are stored and never checked by the code.
* Two application instances at once, which are outside docker-compose.yml.
* A request that ends in the container's error page is dispatched once more to
  /error, after every thread-local has been cleared; that second pass, which
  carries no user, is left out of `Account`.
