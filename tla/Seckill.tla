------------------------------ MODULE Seckill ------------------------------
(***************************************************************************)
(* The flash-sale (seckill) order pipeline of CityFlow.                    *)
(*                                                                         *)
(*   HTTP thread   VoucherOrderServiceImpl.seckillVoucher: GET stock, DECR *)
(*                 stock, SADD buyer, INCR order id, send to Kafka; INCR   *)
(*                 stock again on the two refusals.                        *)
(*   Kafka         one partition of seckill.order-created, the producer's  *)
(*                 buffer, the consumer's offsets and the DLT topic.       *)
(*   consumer      OrderCreatedConsumer.onOrderCreated in one MySQL        *)
(*                 transaction, behind DefaultErrorHandler.                *)
(*   start         SeckillStockInitializer.preloadStock, SETNX per row.    *)
(*                                                                         *)
(* One process serves all requests and runs the consumer thread (one       *)
(* cityflow-app container); it may crash and be restarted.  Redis, Kafka   *)
(* and MySQL keep their data (SeckillFaults lets Redis forget).            *)
(* An order id is the value of the Redis counter; RedisIdWorker models the *)
(* id proper and shows that two counter values never give one id.          *)
(***************************************************************************)
EXTENDS Integers, FiniteSets, Sequences

CONSTANTS
    User,           \* UserHolder.getUser().getId()
    Voucher,        \* the path variable of POST /voucher-order/seckill/{id}
    Request,        \* the calls of seckillVoucher, each with its user and voucher
    Quantity,       \* what an operator may enter as the stock of a voucher
    Absent,         \* no such Redis key, no such row
    MaxRetries,     \* FixedBackOff(1000L, 3L): redeliveries before the DLT
    MaxCrashes,     \* bound on the number of process crashes
    Faults          \* the dependencies that may fail while the process lives

ASSUME QuantityAssumption == Quantity \subseteq Nat /\ Absent \notin Int
ASSUME RequestAssumption ==
    \A r \in Request : r.user \in User /\ r.voucher \in Voucher
ASSUME RetriesAssumption == MaxRetries \in Nat /\ MaxCrashes \in Nat
ASSUME FaultsAssumption == Faults \subseteq {"redis", "send", "db", "dlt"}

VARIABLES
    stock,          \* seckill:stock:<voucher>, the Redis counter
    bought,         \* seckill:order:<voucher>, the Redis set of buyers
    icr,            \* icr:order:<date>, the Redis order counter
    pc,             \* where the thread of a request is, or how it ended
    claim,          \* history: the sign of `remaining` while a DECR is not undone
    orderId,        \* the local orderId of a request, 0 before nextId
    pending,        \* records in the producer's buffer, not yet in the log
    log,            \* the partition of seckill.order-created
    dlt,            \* seckill.order-created.DLT
    position,       \* how many records of log the consumer has gone past
    committed,      \* the offset the consumer group has committed
    failures,       \* failed deliveries of the record at `position`
    dbStock,        \* tb_seckill_voucher.stock
    orders,         \* the rows of tb_voucher_order
    app,            \* the process: down, booting (preload not begun) or up
    snapshot,       \* the rows preloadStock has read and not yet offered to Redis
    crashes,        \* number of crashes so far
    offered,        \* history: the stock each voucher was created with
    dropped         \* history: ids whose DB decrement found no stock

redisVars    == <<stock, bought, icr>>
requestVars  == <<pc, claim, orderId>>
consumerVars == <<position, committed, failures>>
dbVars       == <<dbStock, orders, dropped, offered>>
processVars  == <<app, snapshot, crashes>>
kafkaVars    == <<pending, log, dlt>>

vars == <<redisVars, requestVars, consumerVars, dbVars, processVars, kafkaVars>>

----------------------------------------------------------------------------
(* Requests *)

Running == {"decr", "undoOver", "sadd", "undoDup", "nextId", "send"}

Ended == {"notFound", "outOfStock", "purchased", "ok", "error", "crashed"}

Phase == {"idle"} \cup Running \cup Ended

Alive == app # "down"

\* The OrderCreatedEvent of a request that has its order id.
Event(r) == [id |-> orderId[r], user |-> r.user, voucher |-> r.voucher]

OrderEvent == [id : Nat, user : User, voucher : Voucher]

\* The thread of r goes on to `next` when Redis answers.  A command may also be
\* carried out and its answer be lost: the call throws and nothing is undone.
Answer(r, next) ==
    \E s \in {next} \cup (IF "redis" \in Faults THEN {"error"} ELSE {}) :
        pc' = [pc EXCEPT ![r] = s]

\* INCR and DECR take a missing key as 0.
Counter(v) == IF stock[v] = Absent THEN 0 ELSE stock[v]

\* Step 1 of seckillVoucher: GET seckill:stock:<voucher>.
GetStock(r) ==
    /\ Alive
    /\ pc[r] = "idle"
    /\ Answer(r, IF stock[r.voucher] = Absent THEN "notFound" ELSE "decr")
    /\ UNCHANGED <<redisVars, claim, orderId, consumerVars, dbVars, processVars, kafkaVars>>

\* Mutant of Decr: the value before the DECR is looked at.
DecrLooksBefore(r) ==
    LET remaining == Counter(r.voucher) - 1
    IN  /\ pc[r] = "decr"
        /\ stock' = [stock EXCEPT ![r.voucher] = remaining]
        /\ claim' = [claim EXCEPT ![r] = IF remaining + 1 < 0 THEN "over" ELSE "won"]
        /\ Answer(r, IF remaining + 1 < 0 THEN "undoOver" ELSE "sadd")
        /\ UNCHANGED <<bought, icr, orderId, consumerVars, dbVars, processVars, kafkaVars>>

\* Mutant of Decr: GET has found the key, so the result is not looked at.
DecrTrustsGet(r) ==
    /\ pc[r] = "decr"
    /\ stock' = [stock EXCEPT ![r.voucher] = Counter(r.voucher) - 1]
    /\ claim' = [claim EXCEPT ![r] = "won"]
    /\ Answer(r, "sadd")
    /\ UNCHANGED <<bought, icr, orderId, consumerVars, dbVars, processVars, kafkaVars>>

\* Step 2: DECR; a negative result goes to the compensating INCR.
Decr(r) ==
    LET remaining == Counter(r.voucher) - 1
    IN  /\ pc[r] = "decr"
        /\ stock' = [stock EXCEPT ![r.voucher] = remaining]
        /\ claim' = [claim EXCEPT ![r] = IF remaining < 0 THEN "over" ELSE "won"]
        /\ Answer(r, IF remaining < 0 THEN "undoOver" ELSE "sadd")
        /\ UNCHANGED <<bought, icr, orderId, consumerVars, dbVars, processVars, kafkaVars>>

\* The INCR that takes a DECR back, after which the request is refused.
Undo(r, from, refusal) ==
    /\ pc[r] = from
    /\ stock' = [stock EXCEPT ![r.voucher] = Counter(r.voucher) + 1]
    /\ claim' = [claim EXCEPT ![r] = "none"]
    /\ Answer(r, refusal)
    /\ UNCHANGED <<bought, icr, orderId, consumerVars, dbVars, processVars, kafkaVars>>

\* Mutant of UndoOver: no compensating INCR.
UndoOverForgets(r) ==
    /\ pc[r] = "undoOver"
    /\ claim' = [claim EXCEPT ![r] = "none"]
    /\ Answer(r, "outOfStock")
    /\ UNCHANGED <<redisVars, orderId, consumerVars, dbVars, processVars, kafkaVars>>

\* Mutant of UndoOver: the thread tries again instead of refusing.
UndoOverSpins(r) == Undo(r, "undoOver", "decr")

UndoOver(r) == Undo(r, "undoOver", "outOfStock")

UndoDup(r) == Undo(r, "undoDup", "purchased")

\* Mutant of Sadd: the result is not looked at.
SaddUnchecked(r) ==
    /\ pc[r] = "sadd"
    /\ bought' = [bought EXCEPT ![r.voucher] = @ \cup {r.user}]
    /\ Answer(r, "nextId")
    /\ UNCHANGED <<stock, icr, claim, orderId, consumerVars, dbVars, processVars, kafkaVars>>

\* Step 3: SADD; 0 (already a member) goes to the compensating INCR.
Sadd(r) ==
    /\ pc[r] = "sadd"
    /\ bought' = [bought EXCEPT ![r.voucher] = @ \cup {r.user}]
    /\ Answer(r, IF r.user \in bought[r.voucher] THEN "undoDup" ELSE "nextId")
    /\ UNCHANGED <<stock, icr, claim, orderId, consumerVars, dbVars, processVars, kafkaVars>>

\* Mutant of NextId: the counter is read, not incremented.
NextIdReads(r) ==
    /\ pc[r] = "nextId"
    /\ pc' = [pc EXCEPT ![r] = "send"]
    /\ orderId' = [orderId EXCEPT ![r] = icr + 1]
    /\ UNCHANGED <<redisVars, claim, consumerVars, dbVars, processVars, kafkaVars>>

\* Step 4a: redisIdWorker.nextId("order").
NextId(r) ==
    /\ pc[r] = "nextId"
    /\ icr' = icr + 1
    /\ \/ /\ pc' = [pc EXCEPT ![r] = "send"]
          /\ orderId' = [orderId EXCEPT ![r] = icr + 1]
       \/ /\ "redis" \in Faults
          /\ pc' = [pc EXCEPT ![r] = "error"]
          /\ UNCHANGED orderId
    /\ UNCHANGED <<stock, bought, claim, consumerVars, dbVars, processVars, kafkaVars>>

\* Step 4b and 5: kafkaTemplate.send only hands the record to the producer's
\* buffer; its future is ignored and the response carries the order id.
Send(r) ==
    /\ pc[r] = "send"
    /\ pending' = pending \cup {Event(r)}
    /\ pc' = [pc EXCEPT ![r] = "ok"]
    /\ UNCHANGED <<redisVars, claim, orderId, consumerVars, dbVars, processVars, log, dlt>>

\* A call throws before it has had an effect: a Redis command that is not
\* carried out, or a send without metadata or buffer space.  No step is undone.
CallFails(r) ==
    /\ \/ "redis" \in Faults /\ pc[r] \in Running \ {"send"}
       \/ "send" \in Faults /\ pc[r] = "send"
    /\ pc' = [pc EXCEPT ![r] = "error"]
    /\ UNCHANGED <<redisVars, claim, orderId, consumerVars, dbVars, processVars, kafkaVars>>

----------------------------------------------------------------------------
(* Kafka: the producer's I/O thread *)

\* A buffered record reaches the partition.  Which one is left open.
Deliver(e) ==
    /\ Alive
    /\ e \in pending
    /\ pending' = pending \ {e}
    /\ log' = Append(log, e)
    /\ UNCHANGED <<redisVars, requestVars, consumerVars, dbVars, processVars, dlt>>

\* delivery.timeout.ms passes: the record is given up, and nobody is told,
\* because seckillVoucher drops the future.
Expire(e) ==
    /\ Alive
    /\ "send" \in Faults
    /\ e \in pending
    /\ pending' = pending \ {e}
    /\ UNCHANGED <<redisVars, requestVars, consumerVars, dbVars, processVars, log, dlt>>

----------------------------------------------------------------------------
(* The consumer thread *)

HasRecord == Alive /\ position < Len(log)

Current == log[position + 1]

\* Mutant of Exists: no idempotency check.
ExistsNever(e) == FALSE

\* Mutant of Exists: the check goes by the voucher.
ExistsByVoucher(e) == \E o \in orders : o.voucher = e.voucher

\* existsById
Exists(e) == \E o \in orders : o.id = e.id

\* Mutant of DecreaseStock: the UPDATE has no AND stock > 0.
DecreaseUnguarded(e) ==
    /\ dbStock[e.voucher] # Absent
    /\ dbStock' = [dbStock EXCEPT ![e.voucher] = @ - 1]

\* decreaseStock: UPDATE .. SET stock = stock - 1 WHERE voucher_id = .. AND stock > 0
DecreaseStock(e) ==
    /\ dbStock[e.voucher] # Absent
    /\ dbStock[e.voucher] > 0
    /\ dbStock' = [dbStock EXCEPT ![e.voucher] = @ - 1]

NoStock(e) == dbStock[e.voucher] = Absent \/ dbStock[e.voucher] = 0

\* onOrderCreated, as one transaction.
Skip(e) ==
    /\ Exists(e)
    /\ UNCHANGED <<dbStock, orders, dropped>>

Persist(e) ==
    /\ ~Exists(e)
    /\ DecreaseStock(e)
    /\ orders' = orders \cup {e}
    /\ UNCHANGED dropped

Drop(e) ==
    /\ ~Exists(e)
    /\ NoStock(e)
    /\ dropped' = dropped \cup {e.id}
    /\ UNCHANGED <<dbStock, orders>>

OnOrderCreated(e) == Skip(e) \/ Persist(e) \/ Drop(e)

Advance == position' = position + 1 /\ failures' = 0

\* The listener returns and the transaction commits.
Consume ==
    /\ HasRecord
    /\ OnOrderCreated(Current)
    /\ Advance
    /\ UNCHANGED <<redisVars, requestVars, committed, offered, processVars, kafkaVars>>

\* The listener throws.  Either the transaction rolled back, or its COMMIT took
\* effect and the answer was lost.
Throws ==
    /\ HasRecord
    /\ "db" \in Faults
    /\ \/ UNCHANGED <<dbStock, orders, dropped>>
       \/ OnOrderCreated(Current)

\* Mutant of Retry: the failed record is gone past.
RetrySkips ==
    /\ Throws
    /\ failures < MaxRetries
    /\ Advance
    /\ UNCHANGED <<redisVars, requestVars, committed, offered, processVars, kafkaVars>>

\* Mutant of Retry: the back-off never ends.
RetryForever ==
    /\ Throws
    /\ failures' = IF failures < MaxRetries THEN failures + 1 ELSE 0
    /\ UNCHANGED <<redisVars, requestVars, position, committed, offered, processVars, kafkaVars>>

\* DefaultErrorHandler seeks back: the record is delivered again.
Retry ==
    /\ Throws
    /\ failures < MaxRetries
    /\ failures' = failures + 1
    /\ UNCHANGED <<redisVars, requestVars, position, committed, offered, processVars, kafkaVars>>

\* The retries are used up: DeadLetterPublishingRecoverer takes the record.
DeadLetter ==
    /\ Throws
    /\ failures = MaxRetries
    /\ dlt' = dlt \cup {Current}
    /\ Advance
    /\ UNCHANGED <<redisVars, requestVars, committed, offered, processVars, pending, log>>

\* The recoverer cannot publish: the count of failures starts again from zero.
DeadLetterFails ==
    /\ Throws
    /\ "dlt" \in Faults
    /\ failures = MaxRetries
    /\ failures' = 0
    /\ UNCHANGED <<redisVars, requestVars, position, committed, offered, processVars, kafkaVars>>

\* Mutant of CommitOffset: the record in hand is committed too.
CommitAhead ==
    /\ Alive
    /\ committed < position
    /\ committed' = position + 1
    /\ UNCHANGED <<redisVars, requestVars, position, failures, dbVars, processVars, kafkaVars>>

\* AckMode BATCH: the container commits what it has gone past, some time later.
CommitOffset ==
    /\ Alive
    /\ committed < position
    /\ committed' = position
    /\ UNCHANGED <<redisVars, requestVars, position, failures, dbVars, processVars, kafkaVars>>

----------------------------------------------------------------------------
(* The process and the operator *)

\* POST /voucher/seckill: the rows are saved, Redis is not touched.
AddSeckillVoucher(v, q) ==
    /\ Alive
    /\ dbStock[v] = Absent
    /\ dbStock' = [dbStock EXCEPT ![v] = q]
    /\ offered' = [offered EXCEPT ![v] = q]
    /\ UNCHANGED <<redisVars, requestVars, consumerVars, orders, dropped, processVars, kafkaVars>>

\* ApplicationReadyEvent: findAll.  Tomcat and the listener already run.
PreloadRead ==
    /\ app = "booting"
    /\ app' = "up"
    /\ snapshot' = dbStock
    /\ UNCHANGED <<redisVars, requestVars, consumerVars, dbVars, crashes, kafkaVars>>

\* Mutant of PreloadSetnx: SET instead of SETNX.
PreloadSet(v) ==
    /\ app = "up"
    /\ snapshot[v] # Absent
    /\ stock' = [stock EXCEPT ![v] = snapshot[v]]
    /\ snapshot' = [snapshot EXCEPT ![v] = Absent]
    /\ UNCHANGED <<bought, icr, requestVars, consumerVars, dbVars, app, crashes, kafkaVars>>

\* setIfAbsent for one row of the snapshot.
PreloadSetnx(v) ==
    /\ app = "up"
    /\ snapshot[v] # Absent
    /\ stock' = [stock EXCEPT ![v] = IF @ = Absent THEN snapshot[v] ELSE @]
    /\ snapshot' = [snapshot EXCEPT ![v] = Absent]
    /\ UNCHANGED <<bought, icr, requestVars, consumerVars, dbVars, app, crashes, kafkaVars>>

\* The process dies: its threads, the producer's buffer, the uncommitted part of
\* the consumer's progress and its failure count are gone.
Crash ==
    /\ Alive
    /\ crashes < MaxCrashes
    /\ crashes' = crashes + 1
    /\ app' = "down"
    /\ snapshot' = [v \in Voucher |-> Absent]
    /\ pc' = [r \in Request |-> IF pc[r] \in Running THEN "crashed" ELSE pc[r]]
    /\ pending' = {}
    /\ position' = committed
    /\ failures' = 0
    /\ UNCHANGED <<redisVars, claim, orderId, committed, dbVars, log, dlt>>

Restart ==
    /\ app = "down"
    /\ app' = "booting"
    /\ UNCHANGED <<redisVars, requestVars, consumerVars, dbVars, snapshot, crashes, kafkaVars>>

----------------------------------------------------------------------------

\* The first start: Redis and Kafka are empty, tb_seckill_voucher may hold rows.
Init ==
    /\ stock = [v \in Voucher |-> Absent]
    /\ bought = [v \in Voucher |-> {}]
    /\ icr = 0
    /\ pc = [r \in Request |-> "idle"]
    /\ claim = [r \in Request |-> "none"]
    /\ orderId = [r \in Request |-> 0]
    /\ pending = {}
    /\ log = <<>>
    /\ dlt = {}
    /\ position = 0
    /\ committed = 0
    /\ failures = 0
    /\ dbStock \in [Voucher -> Quantity \cup {Absent}]
    /\ orders = {}
    /\ app = "booting"
    /\ snapshot = [v \in Voucher |-> Absent]
    /\ crashes = 0
    /\ offered = dbStock
    /\ dropped = {}

SeckillVoucher(r) ==
    \/ GetStock(r) \/ Decr(r) \/ UndoOver(r) \/ Sadd(r) \/ UndoDup(r)
    \/ NextId(r) \/ Send(r) \/ CallFails(r)

Producer == \E e \in pending : Deliver(e) \/ Expire(e)

Listener == Consume \/ Retry \/ DeadLetter \/ DeadLetterFails

Preload == PreloadRead \/ \E v \in Voucher : PreloadSetnx(v)

Next ==
    \/ \E r \in Request : SeckillVoucher(r)
    \/ Producer
    \/ Listener
    \/ CommitOffset
    \/ \E v \in Voucher, q \in Quantity : AddSeckillVoucher(v, q)
    \/ Preload
    \/ Crash
    \/ Restart

Spec == Init /\ [][Next]_vars

\* Threads that have begun run on, the producer's I/O thread, the listener loop
\* and the preload are never starved, and docker restarts the container
\* (restart: unless-stopped).  Nobody is obliged to send a request.
Fairness ==
    /\ \A r \in Request : WF_vars(pc[r] # "idle" /\ SeckillVoucher(r))
    /\ WF_vars(Producer)
    /\ WF_vars(Listener)
    /\ WF_vars(CommitOffset)
    /\ WF_vars(Preload)
    /\ WF_vars(Restart)

FairSpec == Spec /\ Fairness

----------------------------------------------------------------------------
(* Properties *)

\* The DECRs on v that no INCR has taken back, and those that found stock.
ClaimsOn(v) == {r \in Request : r.voucher = v /\ claim[r] # "none"}

OrdersOf(v) == {o \in orders : o.voucher = v}

\* How many units of v there ever were to sell.
Units(v) == IF offered[v] = Absent THEN 0 ELSE offered[v]

Records == {log[k] : k \in 1 .. Len(log)}

\* Every event there is a trace of.
Events == pending \cup Records \cup dlt \cup orders

\* Every variable keeps to its set; the offsets are in order.
TypeOK ==
    /\ stock \in [Voucher -> Int \cup {Absent}]
    /\ bought \in [Voucher -> SUBSET User]
    /\ icr \in Nat
    /\ pc \in [Request -> Phase]
    /\ claim \in [Request -> {"none", "won", "over"}]
    /\ orderId \in [Request -> Nat]
    /\ pending \in SUBSET OrderEvent
    /\ log \in Seq(OrderEvent)
    /\ dlt \in SUBSET OrderEvent
    /\ position \in 0 .. Len(log)
    /\ committed \in 0 .. position
    /\ failures \in 0 .. MaxRetries
    /\ dbStock \in [Voucher -> Nat \cup {Absent}]
    /\ orders \in SUBSET OrderEvent
    /\ app \in {"down", "booting", "up"}
    /\ snapshot \in [Voucher -> Nat \cup {Absent}]
    /\ crashes \in 0 .. MaxCrashes
    /\ offered \in [Voucher -> Nat \cup {Absent}]
    /\ dropped \in SUBSET Nat

\* The Redis counter is always what was offered less the DECRs not undone:
\* no interleaving of requests, restart or preload creates or loses a unit
\* other than in a request that died between its DECR and its end.
Conservation ==
    \A v \in Voucher :
        IF stock[v] = Absent
        THEN ClaimsOn(v) = {}
        ELSE stock[v] + Cardinality(ClaimsOn(v)) = offered[v]

\* No more buyers pass DECR and SADD than there were units, whatever the
\* interleaving of the two commands, and no more orders are stored.
NoOversell ==
    \A v \in Voucher :
        /\ Cardinality(bought[v]) <= Units(v)
        /\ Cardinality(OrdersOf(v)) <= Units(v)

\* One order per user and voucher, although MySQL has no such unique key: two
\* events for the same pair are one event, wherever they are.
OneOrderPerUser ==
    \A e, f \in Events : e.user = f.user /\ e.voucher = f.voucher => e = f

\* Redelivery after a crash, a retry or an unknown COMMIT never takes a second
\* unit from tb_seckill_voucher: what is missing there is exactly the orders.
DbConservation ==
    \A v \in Voucher :
        IF dbStock[v] = Absent
        THEN OrdersOf(v) = {}
        ELSE dbStock[v] + Cardinality(OrdersOf(v)) = offered[v]

\* The pipeline implements FlashSale: SADD grants, the consumer's insert fulfils.
Buyers == [v \in Voucher |-> {o.user : o \in OrdersOf(v)}]

Sale == INSTANCE FlashSale WITH granted <- bought, fulfilled <- Buyers

\* Seen from the outside every interleaving of HTTP threads, crashes and
\* redeliveries is a sequential sale: each step grants one unit to one new
\* buyer, or stores one order for a buyer who holds a unit, or changes nothing.
ImplementsFlashSale == Sale!Spec

\* To the rest of the pipeline NextId is an IdSource, as RedisIdWorker is: the counter
\* that stands for the id here promises no more and no less than the id proper does.
Answers == {[call |-> r, id |-> orderId[r]] : r \in {s \in Request : orderId[s] # 0}}

Ids == INSTANCE IdSource WITH answers <- Answers

ImplementsIdSource == Ids!Spec

\* The requests that hold a unit of v in Redis and have no order in MySQL: under way,
\* queued, given up or dead.
Held(v) == {r \in ClaimsOn(v) : Event(r) \notin orders}

\* Two stores and no transaction across them: however requests, redeliveries and
\* restarts (with a preload from MySQL while orders are still in Kafka) interleave,
\* Redis lacks exactly the units held.  It is never ahead of MySQL.
StoresAgree ==
    \A v \in Voucher : stock[v] # Absent => stock[v] + Cardinality(Held(v)) = dbStock[v]

\* No request is under way and the consumer has caught up.
AtRest ==
    /\ \A r \in Request : pc[r] \notin Running
    /\ pending = {} /\ position = Len(log)

\* What DESIGN.md means by eventual consistency, without the eventually: if nothing
\* fails or crashes, then whenever the pipeline is at rest every accepted order is
\* stored and the counters in Redis and MySQL are equal.
RestIsConsistent ==
    Faults = {} /\ crashes = 0 /\ AtRest =>
        /\ \A r \in Request : pc[r] = "ok" => Event(r) \in orders
        /\ \A v \in Voucher : stock[v] # Absent => stock[v] = dbStock[v]

\* The branch the consumer calls impossible (Redis let the order through, the
\* DB has no stock) is not reached while Redis keeps its data.
NeverDropped == dropped = {}

\* A committed offset is never ahead of the work: each record below it is an
\* order, a dead letter or a logged drop, so a restart skips nothing.
CommittedIsSettled ==
    \A k \in 1 .. committed :
        log[k] \in orders \cup dlt \/ log[k].id \in dropped

\* A request that has begun ends, with an answer or with its process.
EveryRequestEnds == \A r \in Request : pc[r] \in Running ~> pc[r] \in Ended

\* Without faults an accepted order is stored.
AcceptedIsStored == \A r \in Request : pc[r] = "ok" ~> Event(r) \in orders

\* Without faults the Redis and the MySQL counters become equal and stay so.
Converges == <>[](\A v \in Voucher : stock[v] # Absent => stock[v] = dbStock[v])

\* DESIGN.md on durability: once the order is accepted, its event is in Kafka.
AcceptedIsDurable ==
    \A r \in Request : pc[r] = "ok" => Event(r) \in pending \cup Records

----------------------------------------------------------------------------
(* The inductive invariant behind the safety properties *)

\* The request has passed SADD and goes on to publish, or had published.
Buying(r) == pc[r] = "nextId" \/ orderId[r] # 0

WonOn(v) == {r \in Request : r.voucher = v /\ claim[r] = "won"}

\* What a thread has done so far follows from where it is.
PhaseOf(r) ==
    /\ pc[r] \in {"idle", "decr"} => claim[r] = "none"
    /\ pc[r] = "undoOver" => claim[r] = "over"
    /\ pc[r] \in {"sadd", "undoDup", "nextId", "send"} => claim[r] = "won"
    /\ pc[r] \in {"idle", "decr", "undoOver", "sadd", "undoDup", "nextId"}
          => orderId[r] = 0
    /\ pc[r] = "send" => orderId[r] # 0
    /\ orderId[r] # 0 => claim[r] = "won"

Phases == \A r \in Request : PhaseOf(r)

\* SADD lets one request per user and voucher through; ids are never reused.
OneBuyer ==
    /\ \A r \in Request : Buying(r) => r.user \in bought[r.voucher]
    /\ \A r, s \in Request :
          Buying(r) /\ Buying(s) /\ r.user = s.user /\ r.voucher = s.voucher => r = s
    /\ \A r \in Request : orderId[r] <= icr
    /\ \A r, s \in Request : orderId[r] = orderId[s] /\ orderId[r] # 0 => r = s

\* A voucher on sale has its key, and a key has its row.
Loaded ==
    /\ \A r \in Request :
          pc[r] \in Running \/ claim[r] # "none" => stock[r.voucher] # Absent
    /\ \A v \in Voucher : stock[v] # Absent => offered[v] # Absent
    /\ \A v \in Voucher : dbStock[v] = Absent <=> offered[v] = Absent
    /\ \A v \in Voucher :
          snapshot[v] # Absent /\ stock[v] = Absent => snapshot[v] = offered[v]

\* Every event, wherever it is, was made by a request.
EventsFromRequests ==
    \A e \in Events : \E r \in Request : orderId[r] # 0 /\ e = Event(r)

\* Each buyer holds a unit, and no more units are held than there are.
UnitsHeld ==
    /\ \A v \in Voucher : \A u \in bought[v] :
          \E r \in Request : r.voucher = v /\ r.user = u /\ claim[r] = "won"
                              /\ pc[r] \notin {"sadd", "undoDup"}
    /\ \A v \in Voucher : Cardinality(WonOn(v)) <= Units(v)

\* Only finitely much has happened.
Finite ==
    /\ \A v \in Voucher : IsFiniteSet(ClaimsOn(v))
    /\ IsFiniteSet(orders)

PositionIsSettled ==
    \A k \in 1 .. position :
        log[k] \in orders \cup dlt \/ log[k].id \in dropped

\* All of it: what the proofs carry from step to step, and what makes the
\* invariants above hold.
IInv ==
    /\ TypeOK /\ Phases /\ OneBuyer /\ Loaded /\ Conservation /\ UnitsHeld
    /\ EventsFromRequests /\ DbConservation /\ NeverDropped /\ Finite
    /\ PositionIsSettled

\* Without faults and crashes no thread ends with a unit but by being answered "ok",
\* and what was answered so is in the buffer or in the log, never in the DLT.
NothingGoesMissing ==
    Faults = {} /\ crashes = 0 =>
        /\ dlt = {}
        /\ \A r \in Request :
            /\ pc[r] \notin {"error", "crashed"}
            /\ pc[r] \in {"notFound", "outOfStock", "purchased"} => claim[r] = "none"
            /\ pc[r] = "ok" => orderId[r] # 0 /\ Event(r) \in pending \cup Records
=============================================================================
