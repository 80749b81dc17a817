--------------------------- MODULE SeckillProofs ---------------------------
(***************************************************************************)
(* Machine-checked proofs about Seckill, for every value of its constants. *)
(* IInv is inductive: one lemma per conjunct shows that no step breaks it, *)
(* each with one step per action that can.  The theorems follow.           *)
(***************************************************************************)
EXTENDS Seckill, FiniteSetTheorems, TLAPS

USE QuantityAssumption, RequestAssumption, RetriesAssumption, FaultsAssumption

\* Wherever an answer leads, the thread is at `next` or has thrown.
LEMMA AnswerLeads ==
    ASSUME NEW r \in Request, NEW next, Answer(r, next)
    PROVE  \E s \in {next, "error"} : pc' = [pc EXCEPT ![r] = s]
BY DEF Answer

\* The listener's transaction only touches the tables, and only as typed.
LEMMA TransactionTyped ==
    ASSUME TypeOK, NEW e \in OrderEvent,
           OnOrderCreated(e) \/ UNCHANGED <<dbStock, orders, dropped>>
    PROVE  /\ dbStock' \in [Voucher -> Nat \cup {Absent}]
           /\ orders' \in SUBSET OrderEvent
           /\ dropped' \in SUBSET Nat
<1>1. e.id \in Nat /\ e.voucher \in Voucher
    BY DEF OrderEvent
<1>2. CASE Skip(e)
    BY <1>2 DEF Skip, TypeOK
<1>3. CASE Persist(e)
    <2>1. dbStock[e.voucher] \in Nat /\ dbStock[e.voucher] - 1 \in Nat
        BY <1>1, <1>3 DEF Persist, DecreaseStock, TypeOK
    <2>. QED
        BY <1>1, <1>3, <2>1 DEF Persist, DecreaseStock, TypeOK
<1>4. CASE Drop(e)
    BY <1>1, <1>4 DEF Drop, TypeOK
<1>. QED
    BY <1>2, <1>3, <1>4 DEF OnOrderCreated, TypeOK

LEMMA AnswerTyped ==
    ASSUME NEW r \in Request, NEW next \in Phase, pc \in [Request -> Phase],
           Answer(r, next)
    PROVE  pc' \in [Request -> Phase]
<1>1. "error" \in Phase
    BY DEF Phase, Ended
<1>. QED
    BY <1>1, AnswerLeads

LEMMA TypeInit == Init => TypeOK
<1>. SUFFICES ASSUME Init PROVE TypeOK
    OBVIOUS
<1>1. log \in Seq(OrderEvent) /\ Len(log) = 0
    BY DEF Init
<1>2. pc \in [Request -> Phase]
    BY DEF Init, Phase
<1>3. /\ dbStock \in [Voucher -> Nat \cup {Absent}]
      /\ offered \in [Voucher -> Nat \cup {Absent}]
    BY DEF Init
<1>. QED
    BY <1>1, <1>2, <1>3 DEF Init, TypeOK

\* The record the listener is at.
LEMMA CurrentTyped ==
    ASSUME TypeOK, HasRecord
    PROVE  Current \in OrderEvent /\ position + 1 \in 1 .. Len(log)
BY DEF TypeOK, HasRecord, Current

LEMMA TypeStep == TypeOK /\ [Next]_vars => TypeOK'
<1>. SUFFICES ASSUME TypeOK, [Next]_vars PROVE TypeOK'
    OBVIOUS
<1>. USE DEF TypeOK
<1>1. ASSUME NEW r \in Request, SeckillVoucher(r) PROVE TypeOK'
    <2>. USE DEF redisVars, consumerVars, dbVars, processVars, kafkaVars
    <2>0. r.user \in User /\ r.voucher \in Voucher /\ Counter(r.voucher) \in Int
        BY DEF Counter
    <2>9. {"notFound", "outOfStock", "purchased", "ok", "error", "decr", "undoOver",
            "sadd", "undoDup", "nextId", "send"} \subseteq Phase
        BY DEF Phase, Running, Ended
    <2>1. CASE GetStock(r)
        <3>1. pc' \in [Request -> Phase]
            BY <2>1, <2>9, AnswerTyped DEF GetStock
        <3>. QED
            BY <2>1, <3>1 DEF GetStock
    <2>2. CASE Decr(r)
        <3>1. pc' \in [Request -> Phase]
            BY <2>2, <2>9, AnswerTyped DEF Decr
        <3>2. stock' \in [Voucher -> Int \cup {Absent}]
            BY <2>0, <2>2 DEF Decr
        <3>3. claim' \in [Request -> {"none", "won", "over"}]
            BY <2>2 DEF Decr
        <3>. QED
            BY <2>2, <3>1, <3>2, <3>3 DEF Decr
    <2>3. CASE UndoOver(r)
        <3>1. pc' \in [Request -> Phase]
            BY <2>3, <2>9, AnswerTyped DEF UndoOver, Undo
        <3>2. stock' \in [Voucher -> Int \cup {Absent}]
            BY <2>0, <2>3 DEF UndoOver, Undo
        <3>3. claim' \in [Request -> {"none", "won", "over"}]
            BY <2>3 DEF UndoOver, Undo
        <3>. QED
            BY <2>3, <3>1, <3>2, <3>3 DEF UndoOver, Undo
    <2>4. CASE Sadd(r)
        <3>1. pc' \in [Request -> Phase]
            BY <2>4, <2>9, AnswerTyped DEF Sadd
        <3>. QED
            BY <2>0, <2>4, <3>1 DEF Sadd
    <2>5. CASE UndoDup(r)
        <3>1. pc' \in [Request -> Phase]
            BY <2>5, <2>9, AnswerTyped DEF UndoDup, Undo
        <3>2. stock' \in [Voucher -> Int \cup {Absent}]
            BY <2>0, <2>5 DEF UndoDup, Undo
        <3>3. claim' \in [Request -> {"none", "won", "over"}]
            BY <2>5 DEF UndoDup, Undo
        <3>. QED
            BY <2>5, <3>1, <3>2, <3>3 DEF UndoDup, Undo
    <2>6. CASE NextId(r)
        <3>3. PICK s \in {"send", "error"} : pc' = [pc EXCEPT ![r] = s]
            BY <2>6 DEF NextId
        <3>1. pc' \in [Request -> Phase]
            <4>1. pc \in [Request -> Phase] /\ s \in Phase
                BY <2>9
            <4>. QED
                BY <3>3, <4>1
        <3>4. icr' \in Nat /\ icr + 1 \in Nat
            BY <2>6 DEF NextId
        <3>5. orderId' = [orderId EXCEPT ![r] = icr + 1] \/ orderId' = orderId
            BY <2>6 DEF NextId
        <3>2. orderId' \in [Request -> Nat]
            BY <3>4, <3>5
        <3>. QED
            BY <2>6, <3>1, <3>2, <3>4 DEF NextId
    <2>7. CASE Send(r)
        <3>1. Event(r) \in OrderEvent
            BY <2>0 DEF Event, OrderEvent
        <3>. QED
            BY <2>7, <2>9, <3>1 DEF Send
    <2>8. CASE CallFails(r)
        BY <2>8, <2>9 DEF CallFails
    <2>. QED
        BY <1>1, <2>1, <2>2, <2>3, <2>4, <2>5, <2>6, <2>7, <2>8 DEF SeckillVoucher
<1>2. CASE Producer
    <2>. USE DEF redisVars, requestVars, consumerVars, dbVars, processVars
    <2>1. PICK e \in pending : Deliver(e) \/ Expire(e)
        BY <1>2 DEF Producer
    <2>2. CASE Deliver(e)
        <3>1. e \in OrderEvent /\ pending' \in SUBSET OrderEvent
            BY <2>1, <2>2 DEF Deliver
        <3>2. log' \in Seq(OrderEvent) /\ Len(log') = Len(log) + 1
            BY <2>2, <3>1 DEF Deliver
        <3>. QED
            BY <2>2, <3>1, <3>2 DEF Deliver
    <2>3. CASE Expire(e)
        <3>1. pending' \in SUBSET OrderEvent
            BY <2>3 DEF Expire
        <3>. QED
            BY <2>3, <3>1 DEF Expire
    <2>. QED
        BY <2>1, <2>2, <2>3
<1>3. CASE Consume
    BY <1>3, CurrentTyped, TransactionTyped DEF Consume, HasRecord, Advance,
                redisVars, requestVars, processVars, kafkaVars
<1>4. CASE Retry
    BY SMTT(30), <1>4, CurrentTyped, TransactionTyped DEF Retry, Throws,
                redisVars, requestVars, processVars, kafkaVars
<1>5. CASE DeadLetter
    BY <1>5, CurrentTyped, TransactionTyped DEF DeadLetter, Throws, HasRecord, Advance,
                redisVars, requestVars, processVars
<1>6. CASE DeadLetterFails
    BY <1>6, CurrentTyped, TransactionTyped DEF DeadLetterFails, Throws,
                redisVars, requestVars, processVars, kafkaVars
<1>7. CASE CommitOffset
    BY <1>7 DEF CommitOffset, redisVars, requestVars, dbVars, processVars, kafkaVars
<1>8. ASSUME NEW v \in Voucher, NEW q \in Quantity, AddSeckillVoucher(v, q) PROVE TypeOK'
    BY <1>8 DEF AddSeckillVoucher, redisVars, requestVars, consumerVars, processVars, kafkaVars
<1>9. CASE Preload
    <2>. USE DEF redisVars, requestVars, consumerVars, dbVars, kafkaVars
    <2>1. CASE PreloadRead
        BY <2>1 DEF PreloadRead
    <2>2. ASSUME NEW v \in Voucher, PreloadSetnx(v) PROVE TypeOK'
        <3>1. /\ stock' \in [Voucher -> Int \cup {Absent}]
              /\ snapshot' \in [Voucher -> Nat \cup {Absent}]
            BY <2>2 DEF PreloadSetnx
        <3>. QED
            BY <2>2, <3>1 DEF PreloadSetnx
    <2>. QED
        BY <1>9, <2>1, <2>2 DEF Preload
<1>10. CASE Crash
    <2>1. pc' \in [Request -> Phase]
        BY <1>10 DEF Crash, Phase, Ended
    <2>. QED
        BY <1>10, <2>1 DEF Crash, redisVars, dbVars
<1>11. CASE Restart
    BY <1>11 DEF Restart, redisVars, requestVars, consumerVars, dbVars, kafkaVars
<1>12. CASE UNCHANGED vars
    BY <1>12 DEF vars, redisVars, requestVars, consumerVars, dbVars, processVars, kafkaVars
<1>. QED
    BY <1>1, <1>2, <1>3, <1>4, <1>5, <1>6, <1>7, <1>8, <1>9, <1>10, <1>11, <1>12
    DEF Next, Listener

\* Every variable always keeps to its set; in particular the consumer never
\* goes past the end of the log and never commits what it has not gone past.
THEOREM Typing == Spec => []TypeOK
BY TypeInit, TypeStep, PTL DEF Spec

----------------------------------------------------------------------------
(* How a step looks to one request *)

LEMMA RequestVarsMoves ==
    ASSUME [Next]_vars
    PROVE  \/ \E r \in Request : SeckillVoucher(r)
           \/ Crash
           \/ UNCHANGED requestVars
BY DEF Next, vars, Producer, Deliver, Expire, Listener, Consume, Retry, DeadLetter,
       DeadLetterFails, CommitOffset, AddSeckillVoucher, Preload, PreloadRead,
       PreloadSetnx, Restart

\* A step of one request leaves the others where they are.
LEMMA Others ==
    ASSUME TypeOK, NEW r \in Request, SeckillVoucher(r), NEW s \in Request, s # r
    PROVE  pc'[s] = pc[s] /\ claim'[s] = claim[s] /\ orderId'[s] = orderId[s]
<1>. pc \in [Request -> Phase] /\ DOMAIN claim = Request /\ DOMAIN orderId = Request
    BY DEF TypeOK
<1>1. CASE GetStock(r)
    BY <1>1, AnswerLeads DEF GetStock
<1>2. CASE Decr(r)
    BY <1>2, AnswerLeads DEF Decr
<1>3. CASE UndoOver(r) \/ UndoDup(r)
    BY <1>3, AnswerLeads DEF UndoOver, UndoDup, Undo
<1>4. CASE Sadd(r)
    BY <1>4, AnswerLeads DEF Sadd
<1>5. CASE NextId(r)
    BY <1>5 DEF NextId
<1>6. CASE Send(r)
    BY <1>6 DEF Send
<1>7. CASE CallFails(r)
    BY <1>7 DEF CallFails
<1>. QED
    BY <1>1, <1>2, <1>3, <1>4, <1>5, <1>6, <1>7 DEF SeckillVoucher

\* The moves of the request that steps: where its thread goes and what it has
\* then done, for each action.
LEMMA OwnMove ==
    ASSUME TypeOK, NEW r \in Request
    PROVE  /\ GetStock(r) =>
                 /\ pc[r] = "idle" /\ pc'[r] \in {"notFound", "decr", "error"}
                 /\ stock[r.voucher] = Absent => pc'[r] # "decr"
           /\ Decr(r) =>
                 /\ pc[r] = "decr"
                 /\ \/ Counter(r.voucher) <= 0 /\ claim'[r] = "over"
                       /\ pc'[r] \in {"undoOver", "error"}
                    \/ Counter(r.voucher) > 0 /\ claim'[r] = "won"
                       /\ pc'[r] \in {"sadd", "error"}
           /\ UndoOver(r) =>
                 pc[r] = "undoOver" /\ pc'[r] \in {"outOfStock", "error"} /\ claim'[r] = "none"
           /\ UndoDup(r) =>
                 pc[r] = "undoDup" /\ pc'[r] \in {"purchased", "error"} /\ claim'[r] = "none"
           /\ Sadd(r) =>
                 /\ pc[r] = "sadd"
                 /\ \/ r.user \in bought[r.voucher] /\ pc'[r] \in {"undoDup", "error"}
                    \/ r.user \notin bought[r.voucher] /\ pc'[r] \in {"nextId", "error"}
           /\ NextId(r) =>
                 /\ pc[r] = "nextId"
                 /\ \/ pc'[r] = "send" /\ orderId' = [orderId EXCEPT ![r] = icr + 1]
                    \/ pc'[r] = "error" /\ orderId' = orderId
           /\ Send(r) => pc[r] = "send" /\ pc'[r] = "ok"
           /\ CallFails(r) => pc[r] \in Running /\ pc'[r] = "error"
<1>. pc \in [Request -> Phase] /\ claim \in [Request -> {"none", "won", "over"}]
    BY DEF TypeOK
<1>0. Counter(r.voucher) \in Int
    BY DEF Counter, TypeOK
<1>1. ASSUME NEW next, Answer(r, next) PROVE pc'[r] \in {next, "error"}
    BY <1>1, AnswerLeads
<1>2. GetStock(r) =>
          /\ pc[r] = "idle" /\ pc'[r] \in {"notFound", "decr", "error"}
          /\ stock[r.voucher] = Absent => pc'[r] # "decr"
    BY <1>1 DEF GetStock
<1>3. Decr(r) =>
          /\ pc[r] = "decr"
          /\ \/ Counter(r.voucher) <= 0 /\ claim'[r] = "over"
                /\ pc'[r] \in {"undoOver", "error"}
             \/ Counter(r.voucher) > 0 /\ claim'[r] = "won"
                /\ pc'[r] \in {"sadd", "error"}
    BY <1>0, <1>1 DEF Decr
<1>4. /\ UndoOver(r) =>
             pc[r] = "undoOver" /\ pc'[r] \in {"outOfStock", "error"} /\ claim'[r] = "none"
      /\ UndoDup(r) =>
             pc[r] = "undoDup" /\ pc'[r] \in {"purchased", "error"} /\ claim'[r] = "none"
    BY <1>1 DEF UndoOver, UndoDup, Undo
<1>5. Sadd(r) =>
          /\ pc[r] = "sadd"
          /\ \/ r.user \in bought[r.voucher] /\ pc'[r] \in {"undoDup", "error"}
             \/ r.user \notin bought[r.voucher] /\ pc'[r] \in {"nextId", "error"}
    BY <1>1 DEF Sadd
<1>6. NextId(r) =>
          /\ pc[r] = "nextId"
          /\ \/ pc'[r] = "send" /\ orderId' = [orderId EXCEPT ![r] = icr + 1]
             \/ pc'[r] = "error" /\ orderId' = orderId
    BY DEF NextId
<1>7. /\ Send(r) => pc[r] = "send" /\ pc'[r] = "ok"
      /\ CallFails(r) => pc[r] \in Running /\ pc'[r] = "error"
    BY DEF Send, CallFails, Running
<1>. QED
    BY <1>2, <1>3, <1>4, <1>5, <1>6, <1>7

\* What a step of a request leaves alone.
LEMMA OwnFrame ==
    ASSUME NEW r \in Request, SeckillVoucher(r)
    PROVE  /\ claim' = claim \/ Decr(r) \/ UndoOver(r) \/ UndoDup(r)
           /\ stock' = stock \/ Decr(r) \/ UndoOver(r) \/ UndoDup(r)
           /\ (orderId' = orderId /\ icr' = icr) \/ NextId(r)
           /\ bought' = bought \/ Sadd(r)
           /\ offered' = offered /\ dbStock' = dbStock /\ orders' = orders
           /\ snapshot' = snapshot /\ log' = log /\ dlt' = dlt
           /\ pending' = pending \/ Send(r)
<1>. USE DEF redisVars, consumerVars, dbVars, processVars, kafkaVars
<1>1. CASE GetStock(r)
    BY <1>1 DEF GetStock
<1>2. CASE Decr(r)
    BY <1>2 DEF Decr
<1>3. CASE UndoOver(r) \/ UndoDup(r)
    BY <1>3 DEF UndoOver, UndoDup, Undo
<1>4. CASE Sadd(r)
    BY <1>4 DEF Sadd
<1>5. CASE NextId(r)
    BY <1>5 DEF NextId
<1>6. CASE Send(r)
    BY <1>6 DEF Send
<1>7. CASE CallFails(r)
    BY <1>7 DEF CallFails
<1>. QED
    BY <1>1, <1>2, <1>3, <1>4, <1>5, <1>6, <1>7 DEF SeckillVoucher

\* A crash ends the threads; what they had claimed and bought stays.
LEMMA CrashMove ==
    ASSUME TypeOK, Crash, NEW s \in Request
    PROVE  /\ pc'[s] = IF pc[s] \in Running THEN "crashed" ELSE pc[s]
           /\ claim' = claim /\ orderId' = orderId
BY DEF Crash, TypeOK

----------------------------------------------------------------------------
(* Threads and what they have done *)

LEMMA PhasesStep ==
    ASSUME TypeOK, Phases, [Next]_vars
    PROVE  Phases'
<1>1. ASSUME NEW r \in Request, SeckillVoucher(r), NEW s \in Request PROVE PhaseOf(s)'
    <2>0. PhaseOf(r) /\ PhaseOf(s)
        BY DEF Phases
    <2>1. CASE s # r
        BY <1>1, <2>0, <2>1, Others DEF PhaseOf
    <2>2. CASE s = r
        <3>0. claim' = claim \/ Decr(r) \/ UndoOver(r) \/ UndoDup(r)
            BY <1>1, OwnFrame
        <3>1. orderId' = orderId \/ NextId(r)
            BY <1>1, OwnFrame
        <3>2. CASE GetStock(r) \/ CallFails(r) \/ Send(r)
            <4>1. claim' = claim /\ orderId' = orderId
                BY <3>2 DEF GetStock, CallFails, Send
            <4>. QED
                BY <2>0, <2>2, <3>2, <4>1, OwnMove DEF PhaseOf
        <3>3. CASE Decr(r) \/ UndoOver(r) \/ UndoDup(r)
            <4>1. orderId' = orderId
                BY <3>3 DEF Decr, UndoOver, UndoDup, Undo
            <4>. QED
                BY <2>0, <2>2, <3>3, <4>1, OwnMove DEF PhaseOf
        <3>4. CASE Sadd(r)
            <4>1. claim' = claim /\ orderId' = orderId
                BY <3>4 DEF Sadd
            <4>. QED
                BY <2>0, <2>2, <3>4, <4>1, OwnMove DEF PhaseOf
        <3>5. CASE NextId(r)
            <4>1. claim' = claim
                BY <3>5 DEF NextId
            <4>2. icr + 1 # 0 /\ DOMAIN orderId = Request
                BY DEF TypeOK
            <4>. QED
                BY <2>0, <2>2, <3>5, <4>1, <4>2, OwnMove DEF PhaseOf
        <3>. QED
            BY <1>1, <3>2, <3>3, <3>4, <3>5 DEF SeckillVoucher
    <2>. QED
        BY <2>1, <2>2
<1>2. ASSUME Crash, NEW s \in Request PROVE PhaseOf(s)'
    BY <1>2, CrashMove DEF Phases, PhaseOf, Running
<1>3. ASSUME UNCHANGED requestVars PROVE Phases'
    BY <1>3 DEF requestVars, Phases, PhaseOf
<1>. QED
    BY <1>1, <1>2, <1>3, RequestVarsMoves DEF Phases

\* Only SADD with a new member makes a request a buying one.
LEMMA BuyingStep ==
    ASSUME TypeOK, Phases, [Next]_vars, NEW s \in Request, Buying(s)'
    PROVE  \/ Buying(s)
           \/ Sadd(s) /\ s.user \notin bought[s.voucher]
<1>1. ASSUME NEW r \in Request, SeckillVoucher(r)
      PROVE  Buying(s) \/ (Sadd(s) /\ s.user \notin bought[s.voucher])
    <2>1. CASE s # r
        BY <1>1, <2>1, Others DEF Buying
    <2>2. CASE s = r /\ ~Sadd(r) /\ ~NextId(r)
        <3>1. orderId' = orderId
            BY <1>1, <2>2, OwnFrame
        <3>2. pc'[r] # "nextId"
            BY <1>1, <2>2, OwnMove DEF SeckillVoucher
        <3>. QED
            BY <2>2, <3>1, <3>2 DEF Buying
    <2>3. CASE s = r /\ Sadd(r)
        <3>1. orderId' = orderId
            BY <2>3 DEF Sadd
        <3>. QED
            BY <2>3, <3>1, OwnMove DEF Buying
    <2>4. CASE s = r /\ NextId(r)
        BY <2>4, OwnMove DEF Buying
    <2>. QED
        BY <2>1, <2>2, <2>3, <2>4
<1>2. CASE Crash
    BY <1>2, CrashMove DEF Buying
<1>3. CASE UNCHANGED requestVars
    BY <1>3 DEF requestVars, Buying
<1>. QED
    BY <1>1, <1>2, <1>3, RequestVarsMoves

\* bought and icr only change in a request, and only grow.
LEMMA RedisGrows ==
    ASSUME TypeOK, [Next]_vars
    PROVE  /\ \/ UNCHANGED <<bought, icr>>
              \/ \E r \in Request : SeckillVoucher(r)
           /\ icr' >= icr
           /\ \A v \in Voucher : bought[v] \subseteq bought'[v]
<1>1. \/ UNCHANGED <<bought, icr>>
      \/ \E r \in Request : SeckillVoucher(r)
    BY DEF Next, vars, redisVars, Producer, Deliver, Expire, Listener, Consume, Retry,
           DeadLetter, DeadLetterFails, CommitOffset, AddSeckillVoucher, Preload,
           PreloadRead, PreloadSetnx, Crash, Restart
<1>2. ASSUME NEW r \in Request, SeckillVoucher(r)
      PROVE  icr' >= icr /\ \A v \in Voucher : bought[v] \subseteq bought'[v]
    <2>1. icr' >= icr
        <3>1. icr' = icr \/ icr' = icr + 1
            BY <1>2, OwnFrame DEF NextId
        <3>. QED
            BY <3>1 DEF TypeOK
    <2>2. \A v \in Voucher : bought[v] \subseteq bought'[v]
        <3>1. CASE Sadd(r)
            <4>1. /\ bought' = [bought EXCEPT ![r.voucher] = @ \cup {r.user}]
                  /\ DOMAIN bought = Voucher
                BY <3>1 DEF Sadd, TypeOK
            <4>. QED
                BY <4>1
        <3>. QED
            BY <1>2, <3>1, OwnFrame
    <2>. QED
        BY <2>1, <2>2
<1>. QED
    BY <1>1, <1>2 DEF TypeOK

\* The ids handed out stay distinct and below the counter.
LEMMA IdsStep ==
    ASSUME TypeOK, OneBuyer, [Next]_vars, NEW s \in Request
    PROVE  /\ orderId'[s] <= icr'
           /\ \A t \in Request : orderId'[s] = orderId'[t] /\ orderId'[s] # 0 => s = t
<1>0. /\ \A t \in Request : orderId[t] \in Nat /\ orderId[t] <= icr
      /\ \A t, u \in Request : orderId[t] = orderId[u] /\ orderId[t] # 0 => t = u
      /\ icr \in Nat /\ DOMAIN orderId = Request
    BY DEF OneBuyer, TypeOK
<1>1. ASSUME NEW r \in Request, NextId(r)
      PROVE  /\ orderId'[s] <= icr'
             /\ \A t \in Request : orderId'[s] = orderId'[t] /\ orderId'[s] # 0 => s = t
    <2>1. icr' = icr + 1
        BY <1>1 DEF NextId
    <2>2. CASE orderId' = orderId
        BY <1>0, <2>1, <2>2
    <2>3. CASE orderId' = [orderId EXCEPT ![r] = icr + 1]
        BY <1>0, <2>1, <2>3
    <2>. QED
        BY <1>1, <2>2, <2>3, OwnMove
<1>2. CASE orderId' = orderId
    <2>1. icr' \in Nat /\ icr' >= icr
        BY RedisGrows, TypeStep DEF TypeOK
    <2>. QED
        BY <1>0, <1>2, <2>1
<1>3. orderId' = orderId \/ \E r \in Request : NextId(r)
    BY RequestVarsMoves, OwnFrame, CrashMove DEF requestVars
<1>. QED
    BY <1>1, <1>2, <1>3

LEMMA OneBuyerStep ==
    ASSUME TypeOK, Phases, OneBuyer, [Next]_vars
    PROVE  OneBuyer'
<1>1. ASSUME NEW s \in Request, Buying(s)' PROVE s.user \in bought'[s.voucher]
    <2>1. CASE Buying(s)
        BY <2>1, RedisGrows DEF OneBuyer
    <2>2. CASE Sadd(s)
        BY <2>2 DEF Sadd, TypeOK
    <2>. QED
        BY <1>1, <2>1, <2>2, BuyingStep
<1>2. ASSUME NEW s \in Request, NEW t \in Request, Buying(s)', Buying(t)',
             s.user = t.user, s.voucher = t.voucher
      PROVE  s = t
    <2>1. CASE Buying(s) /\ Buying(t)
        BY <1>2, <2>1 DEF OneBuyer
    <2>2. CASE Buying(s) /\ t.user \notin bought[t.voucher]
        BY <1>2, <2>2 DEF OneBuyer
    <2>3. CASE s.user \notin bought[s.voucher] /\ Buying(t)
        BY <1>2, <2>3 DEF OneBuyer
    <2>4. CASE Sadd(s) /\ Sadd(t)
        <3>1. SUFFICES ASSUME s # t PROVE FALSE
            OBVIOUS
        <3>2. pc'[t] = pc[t] /\ orderId'[t] = orderId[t]
            BY <2>4, <3>1, Others DEF SeckillVoucher
        <3>3. pc[t] = "sadd"
            BY <2>4 DEF Sadd
        <3>. QED
            BY <1>2, <3>2, <3>3 DEF Buying, Phases, PhaseOf
    <2>. QED
        BY <1>2, <2>1, <2>2, <2>3, <2>4, BuyingStep
<1>. QED
    BY <1>1, <1>2, IdsStep DEF OneBuyer

----------------------------------------------------------------------------
(* The Redis counter *)

\* How a step changes the counter of v, and the claims on v with it.
CounterMove(v) ==
    \/ /\ stock'[v] = stock[v]
       /\ ClaimsOn(v)' = ClaimsOn(v)
    \/ \E r \in Request :
          /\ Decr(r) /\ r.voucher = v
          /\ stock[v] \in Int /\ stock'[v] = stock[v] - 1
          /\ r \notin ClaimsOn(v) /\ ClaimsOn(v)' = ClaimsOn(v) \cup {r}
    \/ \E r \in Request :
          /\ UndoOver(r) \/ UndoDup(r)
          /\ stock[v] \in Int /\ stock'[v] = stock[v] + 1
          /\ r \in ClaimsOn(v) /\ ClaimsOn(v)' = ClaimsOn(v) \ {r}
    \/ /\ PreloadSetnx(v)
       /\ stock[v] = Absent /\ stock'[v] = snapshot[v] /\ snapshot[v] # Absent
       /\ ClaimsOn(v)' = ClaimsOn(v)

LEMMA CounterMoves ==
    ASSUME TypeOK, Phases, Loaded, [Next]_vars, NEW v \in Voucher
    PROVE  CounterMove(v)
<1>. USE DEF CounterMove
<1>0. /\ DOMAIN stock = Voucher /\ \A w \in Voucher : stock[w] \in Int \cup {Absent}
      /\ claim \in [Request -> {"none", "won", "over"}]
    BY DEF TypeOK
<1>1. ASSUME NEW r \in Request, Decr(r) PROVE CounterMove(v)
    <2>1. stock[r.voucher] # Absent /\ stock[r.voucher] \in Int /\ claim[r] = "none"
        BY <1>0, <1>1 DEF Decr, Loaded, Running, Phases, PhaseOf
    <2>2. stock' = [stock EXCEPT ![r.voucher] = stock[r.voucher] - 1]
        BY <1>1, <2>1 DEF Decr, Counter
    <2>3. claim'[r] # "none" /\ \A s \in Request : s # r => claim'[s] = claim[s]
        BY <1>0, <1>1 DEF Decr
    <2>4. CASE r.voucher = v
        <3>1. r \notin ClaimsOn(v) /\ ClaimsOn(v)' = ClaimsOn(v) \cup {r}
            BY <2>1, <2>3, <2>4 DEF ClaimsOn
        <3>2. stock'[v] = stock[v] - 1
            BY <1>0, <2>2, <2>4
        <3>. QED
            BY <1>1, <2>1, <2>4, <3>1, <3>2
    <2>5. CASE r.voucher # v
        BY <1>0, <2>2, <2>3, <2>5 DEF ClaimsOn
    <2>. QED
        BY <2>4, <2>5
<1>2. ASSUME NEW r \in Request, UndoOver(r) \/ UndoDup(r) PROVE CounterMove(v)
    <2>1. stock[r.voucher] # Absent /\ stock[r.voucher] \in Int /\ claim[r] # "none"
        BY <1>0, <1>2 DEF UndoOver, UndoDup, Undo, Loaded, Running, Phases, PhaseOf
    <2>2. stock' = [stock EXCEPT ![r.voucher] = stock[r.voucher] + 1]
        BY <1>2, <2>1 DEF UndoOver, UndoDup, Undo, Counter
    <2>3. claim'[r] = "none" /\ \A s \in Request : s # r => claim'[s] = claim[s]
        BY <1>0, <1>2 DEF UndoOver, UndoDup, Undo
    <2>4. CASE r.voucher = v
        <3>1. r \in ClaimsOn(v) /\ ClaimsOn(v)' = ClaimsOn(v) \ {r}
            BY <2>1, <2>3, <2>4 DEF ClaimsOn
        <3>2. stock'[v] = stock[v] + 1
            BY <1>0, <2>2, <2>4
        <3>. QED
            BY <1>2, <2>1, <2>4, <3>1, <3>2
    <2>5. CASE r.voucher # v
        BY <1>0, <2>2, <2>3, <2>5 DEF ClaimsOn
    <2>. QED
        BY <2>4, <2>5
<1>3. ASSUME NEW w \in Voucher, PreloadSetnx(w) PROVE CounterMove(v)
    <2>1. /\ stock' = [stock EXCEPT ![w] = IF @ = Absent THEN snapshot[w] ELSE @]
          /\ snapshot[w] # Absent /\ claim' = claim
        BY <1>3 DEF PreloadSetnx, requestVars
    <2>2. ClaimsOn(v)' = ClaimsOn(v)
        BY <2>1 DEF ClaimsOn
    <2>3. CASE w # v \/ stock[v] # Absent
        BY <1>0, <2>1, <2>2, <2>3
    <2>4. CASE w = v /\ stock[v] = Absent
        BY <1>0, <1>3, <2>1, <2>2, <2>4
    <2>. QED
        BY <2>3, <2>4
<1>4. CASE UNCHANGED <<stock, claim>>
    <2>1. stock'[v] = stock[v] /\ ClaimsOn(v)' = ClaimsOn(v)
        BY <1>4 DEF ClaimsOn
    <2>. QED
        BY <2>1
<1>5. \/ UNCHANGED <<stock, claim>>
      \/ \E r \in Request : Decr(r) \/ UndoOver(r) \/ UndoDup(r)
      \/ \E w \in Voucher : PreloadSetnx(w)
    BY OwnFrame
    DEF Next, vars, redisVars, requestVars, Producer, Deliver, Expire, Listener, Consume,
        Retry, DeadLetter, DeadLetterFails, CommitOffset, AddSeckillVoucher, Preload,
        PreloadRead, Crash, Restart
<1>6. CASE \E r \in Request : Decr(r) \/ UndoOver(r) \/ UndoDup(r)
    <2>1. PICK r \in Request : Decr(r) \/ UndoOver(r) \/ UndoDup(r)
        BY <1>6
    <2>2. CASE Decr(r)
        BY <1>1, <2>2
    <2>3. CASE UndoOver(r) \/ UndoDup(r)
        BY <1>2, <2>3
    <2>. QED
        BY <2>1, <2>2, <2>3
<1>. QED
    BY <1>3, <1>4, <1>5, <1>6

\* How a step changes what MySQL holds.
LEMMA DbMoves ==
    ASSUME [Next]_vars
    PROVE  \/ UNCHANGED <<dbStock, orders, dropped, offered>>
           \/ HasRecord /\ OnOrderCreated(Current) /\ offered' = offered
           \/ \E v \in Voucher, q \in Quantity :
                 AddSeckillVoucher(v, q)
BY OwnFrame
DEF Next, vars, dbVars, SeckillVoucher, GetStock, Decr, UndoOver, UndoDup, Undo, Sadd,
    NextId, Send, CallFails, Producer, Deliver, Expire, Listener, Consume, Retry,
    DeadLetter, DeadLetterFails, Throws, CommitOffset, Preload, PreloadRead,
    PreloadSetnx, Crash, Restart

\* What the listener's transaction does to one voucher's row and orders.
LEMMA TransactionMoves ==
    ASSUME TypeOK, HasRecord, OnOrderCreated(Current), NEW v \in Voucher
    PROVE  \/ dbStock'[v] = dbStock[v] /\ OrdersOf(v)' = OrdersOf(v)
           \/ /\ v = Current.voucher /\ dbStock[v] \in Nat /\ dbStock[v] > 0
              /\ dbStock'[v] = dbStock[v] - 1
              /\ Current \notin orders /\ OrdersOf(v)' = OrdersOf(v) \cup {Current}
<1>0. Current \in OrderEvent /\ Current.voucher \in Voucher
    BY CurrentTyped DEF OrderEvent
<1>1. CASE Skip(Current) \/ Drop(Current)
    BY <1>1 DEF Skip, Drop, OrdersOf
<1>2. CASE Persist(Current)
    <2>1. Current \notin orders
        BY <1>2 DEF Persist, Exists
    <2>2. CASE v = Current.voucher
        BY <1>0, <1>2, <2>1, <2>2 DEF Persist, DecreaseStock, OrdersOf, TypeOK
    <2>3. CASE v # Current.voucher
        BY <1>0, <1>2, <2>3 DEF Persist, DecreaseStock, OrdersOf, TypeOK
    <2>. QED
        BY <2>2, <2>3
<1>. QED
    BY <1>1, <1>2 DEF OnOrderCreated

\* offered only changes for a voucher that had no row, and to a number.
LEMMA OfferedMoves ==
    ASSUME TypeOK, Loaded, [Next]_vars, NEW v \in Voucher
    PROVE  \/ offered'[v] = offered[v]
           \/ /\ offered[v] = Absent /\ offered'[v] \in Nat
              /\ dbStock[v] = Absent /\ dbStock'[v] = offered'[v] /\ orders' = orders
              /\ stock[v] = Absent /\ UNCHANGED <<stock, claim>>
<1>1. ASSUME NEW w \in Voucher, NEW q \in Quantity, AddSeckillVoucher(w, q)
      PROVE  \/ offered'[v] = offered[v]
             \/ /\ offered[v] = Absent /\ offered'[v] \in Nat
                /\ dbStock[v] = Absent /\ dbStock'[v] = offered'[v] /\ orders' = orders
                /\ stock[v] = Absent /\ UNCHANGED <<stock, claim>>
    <2>1. /\ dbStock[w] = Absent /\ dbStock' = [dbStock EXCEPT ![w] = q]
          /\ offered' = [offered EXCEPT ![w] = q] /\ orders' = orders
          /\ UNCHANGED <<stock, claim>>
        BY <1>1 DEF AddSeckillVoucher, redisVars, requestVars
    <2>2. offered[w] = Absent /\ stock[w] = Absent /\ q \in Nat
        BY <2>1 DEF Loaded
    <2>3. DOMAIN dbStock = Voucher /\ DOMAIN offered = Voucher
        BY DEF TypeOK
    <2>. QED
        BY <2>1, <2>2, <2>3
<1>. QED
    BY <1>1, DbMoves

LEMMA SnapshotMoves ==
    ASSUME TypeOK, [Next]_vars, NEW v \in Voucher
    PROVE  \/ snapshot'[v] \in {snapshot[v], Absent}
           \/ snapshot' = dbStock /\ UNCHANGED <<stock, offered>>
<1>1. ASSUME NEW w \in Voucher, PreloadSetnx(w) PROVE snapshot'[v] \in {snapshot[v], Absent}
    BY <1>1 DEF PreloadSetnx, TypeOK
<1>2. CASE PreloadRead
    BY <1>2 DEF PreloadRead, redisVars, dbVars
<1>3. CASE Crash
    BY <1>3 DEF Crash
<1>4. \/ snapshot' = snapshot
      \/ PreloadRead \/ Crash \/ \E w \in Voucher : PreloadSetnx(w)
    BY OwnFrame
    DEF Next, vars, processVars, Producer, Deliver, Expire, Listener, Consume,
        Retry, DeadLetter, DeadLetterFails, CommitOffset, AddSeckillVoucher, Preload, Restart
<1>. QED
    BY <1>1, <1>2, <1>3, <1>4

\* A key, once there, stays.
LEMMA KeysStay ==
    ASSUME TypeOK, Phases, Loaded, [Next]_vars, NEW v \in Voucher, stock[v] # Absent
    PROVE  stock'[v] # Absent
<1>1. CounterMove(v)
    BY CounterMoves
<1>2. \A i \in Int : i + 1 # Absent /\ i - 1 # Absent
    OBVIOUS
<1>. QED
    BY <1>1, <1>2 DEF CounterMove

----------------------------------------------------------------------------
(* Events *)

LEMMA RecordsMove ==
    ASSUME TypeOK, [Next]_vars
    PROVE  \/ log' = log
           \/ \E e \in pending : Deliver(e) /\ log' = Append(log, e)
BY OwnFrame
DEF Next, vars, kafkaVars, Producer, Deliver, Expire, Listener, Consume, Retry,
    DeadLetter, DeadLetterFails, CommitOffset, AddSeckillVoucher, Preload, PreloadRead,
    PreloadSetnx, Crash, Restart

\* Events appear in send only; from there they are handed on.
LEMMA EventsMove ==
    ASSUME TypeOK, [Next]_vars, NEW e, e \in Events'
    PROVE  e \in Events \/ \E r \in Request : Send(r) /\ e = Event(r)
<1>1. Records' \subseteq Records \cup pending
    <2>1. CASE log' = log
        BY <2>1 DEF Records
    <2>2. ASSUME NEW d \in pending, log' = Append(log, d) PROVE Records' \subseteq Records \cup pending
        <3>1. log \in Seq(OrderEvent) /\ d \in OrderEvent
            BY DEF TypeOK
        <3>2. /\ Len(log') = Len(log) + 1 /\ log'[Len(log) + 1] = d
              /\ \A k \in 1 .. Len(log) : log'[k] = log[k]
            BY <2>2, <3>1
        <3>3. Len(log) \in Nat
            BY <3>1
        <3>. QED
            BY <3>2, <3>3 DEF Records
    <2>. QED
        BY <2>1, <2>2, RecordsMove
<1>2. pending' \subseteq pending \/ \E r \in Request : Send(r)
    BY OwnFrame
    DEF Next, vars, kafkaVars, Producer, Deliver, Expire, Listener, Consume, Retry,
        DeadLetter, DeadLetterFails, CommitOffset, AddSeckillVoucher, Preload, PreloadRead,
        PreloadSetnx, Crash, Restart
<1>3. ASSUME HasRecord PROVE Current \in Records
    BY <1>3, CurrentTyped DEF Current, Records
<1>4. dlt' \subseteq dlt \cup Records
    <2>1. dlt' = dlt \/ (HasRecord /\ dlt' = dlt \cup {Current})
        BY OwnFrame
        DEF Next, vars, kafkaVars, Producer, Deliver, Expire, Listener, Consume, Retry,
            DeadLetter, DeadLetterFails, Throws, CommitOffset, AddSeckillVoucher, Preload,
            PreloadRead, PreloadSetnx, Crash, Restart
    <2>. QED
        BY <1>3, <2>1
<1>5. orders' \subseteq orders \cup Records
    BY <1>3, DbMoves DEF OnOrderCreated, Skip, Persist, Drop, AddSeckillVoucher
<1>6. ASSUME NEW r \in Request, Send(r) PROVE pending' = pending \cup {Event(r)}
    BY <1>6 DEF Send
<1>. QED
    BY <1>1, <1>2, <1>4, <1>5, <1>6 DEF Events

\* An id, once handed out, stays with its request.
LEMMA IdStable ==
    ASSUME TypeOK, Phases, [Next]_vars, NEW r \in Request, orderId[r] # 0
    PROVE  orderId'[r] = orderId[r] /\ Event(r)' = Event(r)
<1>1. ASSUME NEW s \in Request, SeckillVoucher(s) PROVE orderId'[r] = orderId[r]
    <2>1. CASE s # r
        BY <1>1, <2>1, Others
    <2>2. CASE s = r
        <3>1. ~NextId(r)
            BY OwnMove DEF Phases, PhaseOf
        <3>. QED
            BY <1>1, <2>2, <3>1, OwnFrame
    <2>. QED
        BY <2>1, <2>2
<1>2. orderId'[r] = orderId[r]
    BY <1>1, RequestVarsMoves, CrashMove DEF requestVars
<1>. QED
    BY <1>2 DEF Event

LEMMA EventsStep ==
    ASSUME TypeOK, Phases, EventsFromRequests, [Next]_vars
    PROVE  EventsFromRequests'
<1>. SUFFICES ASSUME NEW e, e \in Events'
              PROVE  \E r \in Request : orderId'[r] # 0 /\ e = Event(r)'
    BY DEF EventsFromRequests
<1>1. PICK r \in Request : orderId[r] # 0 /\ e = Event(r)
    <2>1. CASE e \in Events
        BY <2>1 DEF EventsFromRequests
    <2>2. ASSUME NEW r \in Request, Send(r) PROVE orderId[r] # 0
        BY <2>2 DEF Send, Phases, PhaseOf
    <2>. QED
        BY <2>1, <2>2, EventsMove
<1>. QED
    BY <1>1, IdStable

\* No order without a claim, hence none on a voucher that is not on sale.
LEMMA NoOrdersBeforeSale ==
    ASSUME Phases, Loaded, EventsFromRequests, NEW v \in Voucher, stock[v] = Absent
    PROVE  OrdersOf(v) = {}
<1>. SUFFICES ASSUME NEW o \in orders, o.voucher = v PROVE FALSE
    BY DEF OrdersOf
<1>1. PICK r \in Request : orderId[r] # 0 /\ o = Event(r)
    BY DEF EventsFromRequests, Events
<1>2. r.voucher = v /\ claim[r] # "none"
    BY <1>1 DEF Event, Phases, PhaseOf
<1>. QED
    BY <1>2 DEF Loaded

----------------------------------------------------------------------------
(* Keys, rows and the snapshot of the preload *)

LEMMA LoadedStep ==
    ASSUME TypeOK, Phases, Loaded, EventsFromRequests, DbConservation, [Next]_vars
    PROVE  Loaded'
<1>1. ASSUME NEW s \in Request, pc'[s] \in Running \/ claim'[s] # "none"
      PROVE  stock'[s.voucher] # Absent
    <2>1. stock[s.voucher] # Absent
        <3>1. CASE pc[s] \in Running \/ claim[s] # "none"
            BY <3>1 DEF Loaded
        <3>2. CASE pc[s] \notin Running /\ claim[s] = "none"
            <4>1. PICK r \in Request : SeckillVoucher(r)
                BY <1>1, <3>2, RequestVarsMoves, CrashMove DEF requestVars, Running
            <4>2. s = r
                BY <1>1, <3>2, <4>1, Others
            <4>3. GetStock(s)
                BY <3>2, <4>1, <4>2, OwnMove DEF SeckillVoucher, Running
            <4>4. claim' = claim
                BY <4>3 DEF GetStock
            <4>5. pc'[s] = "decr"
                BY <1>1, <3>2, <4>3, <4>4, OwnMove DEF Running
            <4>. QED
                BY <4>3, <4>5, OwnMove
        <3>. QED
            BY <3>1, <3>2
    <2>. QED
        BY <2>1, KeysStay
<1>2. ASSUME NEW v \in Voucher, stock'[v] # Absent PROVE offered'[v] # Absent
    <2>1. CounterMove(v)
        BY CounterMoves
    <2>2. offered[v] # Absent
        BY <1>2, <2>1 DEF CounterMove, Loaded
    <2>. QED
        BY <2>2, OfferedMoves
<1>3. ASSUME NEW v \in Voucher PROVE dbStock'[v] = Absent <=> offered'[v] = Absent
    <2>1. CASE UNCHANGED <<dbStock, orders, dropped, offered>>
        BY <2>1 DEF Loaded
    <2>2. CASE HasRecord /\ OnOrderCreated(Current) /\ offered' = offered
        <3>1. dbStock'[v] = dbStock[v] \/ (dbStock[v] \in Nat /\ dbStock'[v] = dbStock[v] - 1)
            BY <2>2, TransactionMoves
        <3>2. \A i \in Nat : i # Absent /\ i - 1 # Absent
            OBVIOUS
        <3>. QED
            BY <2>2, <3>1, <3>2 DEF Loaded
    <2>3. ASSUME NEW w \in Voucher, NEW q \in Quantity, AddSeckillVoucher(w, q)
          PROVE  dbStock'[v] = Absent <=> offered'[v] = Absent
        <3>1. /\ dbStock' = [dbStock EXCEPT ![w] = q] /\ offered' = [offered EXCEPT ![w] = q]
              /\ DOMAIN dbStock = Voucher /\ DOMAIN offered = Voucher
            BY <2>3 DEF AddSeckillVoucher, TypeOK
        <3>. QED
            BY <3>1 DEF Loaded
    <2>. QED
        BY <2>1, <2>2, <2>3, DbMoves
<1>4. ASSUME NEW v \in Voucher, snapshot'[v] # Absent, stock'[v] = Absent
      PROVE  snapshot'[v] = offered'[v]
    <2>0. stock[v] = Absent
        BY <1>4, KeysStay
    <2>1. CASE snapshot'[v] \in {snapshot[v], Absent}
        <3>1. snapshot'[v] = snapshot[v] /\ snapshot[v] = offered[v]
            BY <1>4, <2>0, <2>1 DEF Loaded
        <3>. QED
            BY <1>4, <3>1, OfferedMoves
    <2>2. CASE snapshot' = dbStock /\ UNCHANGED <<stock, offered>>
        <3>1. OrdersOf(v) = {}
            BY <2>0, NoOrdersBeforeSale
        <3>2. Cardinality(OrdersOf(v)) = 0
            BY <3>1, FS_EmptySet
        <3>3. dbStock[v] \in Nat /\ dbStock[v] + 0 = offered[v]
            BY <1>4, <2>2, <3>2 DEF DbConservation, TypeOK
        <3>. QED
            BY <2>2, <3>3
    <2>. QED
        BY <2>1, <2>2, SnapshotMoves
<1>. QED
    BY <1>1, <1>2, <1>3, <1>4 DEF Loaded

----------------------------------------------------------------------------
(* Conservation of the units *)

LEMMA ClaimsFinite ==
    ASSUME TypeOK, Phases, Loaded, [Next]_vars, NEW v \in Voucher, IsFiniteSet(ClaimsOn(v))
    PROVE  IsFiniteSet(ClaimsOn(v)')
<1>1. CounterMove(v)
    BY CounterMoves
<1>. QED
    BY <1>1, FS_AddElement, FS_RemoveElement DEF CounterMove

LEMMA ConservationStep ==
    ASSUME TypeOK, Phases, Loaded, Conservation, Finite, [Next]_vars, NEW v \in Voucher
    PROVE  IF stock'[v] = Absent
           THEN ClaimsOn(v)' = {}
           ELSE stock'[v] + Cardinality(ClaimsOn(v)') = offered'[v]
<1>0. /\ IsFiniteSet(ClaimsOn(v)) /\ Cardinality(ClaimsOn(v)) \in Nat
      /\ stock[v] \in Int \cup {Absent}
    BY FS_CardinalityType DEF Finite, TypeOK
<1>1. CASE stock'[v] = stock[v] /\ ClaimsOn(v)' = ClaimsOn(v)
    <2>1. CASE stock[v] = Absent
        BY <1>1, <2>1 DEF Conservation
    <2>2. CASE stock[v] # Absent
        <3>1. offered'[v] = offered[v]
            BY <2>2, OfferedMoves
        <3>. QED
            BY <1>1, <2>2, <3>1 DEF Conservation
    <2>. QED
        BY <2>1, <2>2
<1>2. ASSUME NEW r \in Request, Decr(r), r.voucher = v, stock[v] \in Int,
             stock'[v] = stock[v] - 1, r \notin ClaimsOn(v),
             ClaimsOn(v)' = ClaimsOn(v) \cup {r}
      PROVE  stock'[v] # Absent /\ stock'[v] + Cardinality(ClaimsOn(v)') = offered'[v]
    <2>1. Cardinality(ClaimsOn(v)') = Cardinality(ClaimsOn(v)) + 1
        <3>1. Cardinality(ClaimsOn(v) \cup {r}) = Cardinality(ClaimsOn(v)) + 1
            BY <1>0, <1>2, FS_AddElement
        <3>. QED
            BY <1>2, <3>1
    <2>2. stock[v] # Absent /\ offered'[v] = offered[v]
        BY <1>2, OfferedMoves
    <2>3. stock[v] + Cardinality(ClaimsOn(v)) = offered[v]
        BY <2>2 DEF Conservation
    <2>4. stock[v] - 1 \in Int
        BY <1>2
    <2>. QED
        BY <1>0, <1>2, <2>1, <2>2, <2>3, <2>4
<1>3. ASSUME NEW r \in Request, stock[v] \in Int, stock'[v] = stock[v] + 1,
             r \in ClaimsOn(v), ClaimsOn(v)' = ClaimsOn(v) \ {r}
      PROVE  stock'[v] # Absent /\ stock'[v] + Cardinality(ClaimsOn(v)') = offered'[v]
    <2>1. Cardinality(ClaimsOn(v)') = Cardinality(ClaimsOn(v)) - 1
        BY <1>0, <1>3, FS_RemoveElement
    <2>2. stock[v] # Absent /\ offered'[v] = offered[v]
        BY <1>3, OfferedMoves
    <2>3. stock[v] + Cardinality(ClaimsOn(v)) = offered[v]
        BY <2>2 DEF Conservation
    <2>4. stock[v] + 1 \in Int
        BY <1>3
    <2>. QED
        BY <1>0, <1>3, <2>1, <2>2, <2>3, <2>4
<1>4. ASSUME stock[v] = Absent, stock'[v] = snapshot[v], snapshot[v] # Absent,
             ClaimsOn(v)' = ClaimsOn(v)
      PROVE  stock'[v] # Absent /\ stock'[v] + Cardinality(ClaimsOn(v)') = offered'[v]
    <2>1. ClaimsOn(v)' = {} /\ Cardinality(ClaimsOn(v)') = 0
        BY <1>4, FS_EmptySet DEF Conservation
    <2>2. snapshot[v] = offered[v] /\ snapshot[v] \in Nat /\ offered'[v] = offered[v]
        BY <1>4, OfferedMoves DEF Loaded, TypeOK
    <2>. QED
        BY <1>4, <2>1, <2>2
<1>5. CounterMove(v)
    BY CounterMoves
<1>. QED
    BY <1>1, <1>2, <1>3, <1>4, <1>5 DEF CounterMove

\* The winning claims are some of the claims.
LEMMA WonAreClaims ==
    ASSUME NEW v \in Voucher
    PROVE  WonOn(v) \subseteq ClaimsOn(v)
BY DEF WonOn, ClaimsOn

LEMMA WonBoundStep ==
    ASSUME TypeOK, Phases, Loaded, Conservation, UnitsHeld, Finite, [Next]_vars,
           NEW v \in Voucher
    PROVE  Cardinality(WonOn(v)') <= Units(v)'
<1>0. /\ IsFiniteSet(WonOn(v)) /\ Cardinality(WonOn(v)) \in Nat
      /\ Cardinality(WonOn(v)) <= Units(v) /\ Units(v) \in Nat
    BY FS_Subset, FS_CardinalityType, WonAreClaims DEF Finite, UnitsHeld, Units, TypeOK
<1>1. Units(v)' = Units(v) \/ (Units(v) = 0 /\ Units(v)' \in Nat)
    <2>1. \A i \in Nat : i # Absent
        OBVIOUS
    <2>. QED
        BY <2>1, OfferedMoves DEF Units
<1>2. CASE WonOn(v)' \subseteq WonOn(v)
    <2>1. Cardinality(WonOn(v)') <= Cardinality(WonOn(v)) /\ Cardinality(WonOn(v)') \in Nat
        BY <1>0, <1>2, FS_Subset, FS_CardinalityType
    <2>. QED
        BY <1>0, <1>1, <2>1
<1>3. ASSUME NEW r \in Request, Decr(r), r.voucher = v, Counter(v) > 0
      PROVE  Cardinality(WonOn(v)') <= Units(v)'
    <2>1. stock[v] # Absent /\ stock[v] \in Int /\ stock[v] > 0
        BY <1>3 DEF Counter, TypeOK, Decr, Loaded, Running
    <2>2. stock' = [stock EXCEPT ![v] = stock[v] - 1]
        BY <1>3, <2>1 DEF Decr, Counter
    <2>3. stock'[v] = stock[v] - 1 /\ stock'[v] # Absent
        BY <2>1, <2>2 DEF TypeOK
    <2>4. stock'[v] + Cardinality(ClaimsOn(v)') = offered'[v]
        BY <2>3, ConservationStep
    <2>5. /\ IsFiniteSet(ClaimsOn(v)') /\ Cardinality(ClaimsOn(v)') \in Nat
        BY ClaimsFinite, FS_CardinalityType DEF Finite
    <2>6. WonOn(v)' \subseteq ClaimsOn(v)'
        BY DEF WonOn, ClaimsOn
    <2>7. Cardinality(WonOn(v)') <= Cardinality(ClaimsOn(v)') /\ Cardinality(WonOn(v)') \in Nat
        BY <2>5, <2>6, FS_Subset, FS_CardinalityType
    <2>8. Units(v)' = offered'[v] /\ offered'[v] \in Nat
        <3>1. offered[v] # Absent /\ offered[v] \in Nat
            BY <2>1 DEF Loaded, TypeOK
        <3>2. offered'[v] = offered[v]
            BY <2>1, OfferedMoves
        <3>. QED
            BY <3>1, <3>2 DEF Units
    <2>. QED
        BY <2>1, <2>3, <2>4, <2>5, <2>7, <2>8
<1>4. WonOn(v)' \subseteq WonOn(v) \/ \E r \in Request : Decr(r) /\ r.voucher = v /\ Counter(v) > 0
    <2>. SUFFICES ASSUME NEW s \in Request, s.voucher = v, claim'[s] = "won", claim[s] # "won"
                  PROVE  Decr(s) /\ Counter(v) > 0
        BY DEF WonOn
    <2>1. PICK r \in Request : SeckillVoucher(r)
        BY RequestVarsMoves, CrashMove DEF requestVars
    <2>2. s = r
        BY <2>1, Others
    <2>. QED
        BY <2>1, <2>2, OwnFrame, OwnMove
<1>. QED
    BY <1>2, <1>3, <1>4

LEMMA UnitsHeldStep ==
    ASSUME TypeOK, Phases, Loaded, Conservation, UnitsHeld, Finite, [Next]_vars
    PROVE  UnitsHeld'
<1>1. ASSUME NEW v \in Voucher, NEW u, u \in bought'[v]
      PROVE  \E s \in Request : s.voucher = v /\ s.user = u /\ claim'[s] = "won"
                                /\ pc'[s] \notin {"sadd", "undoDup"}
    <2>1. CASE u \in bought[v]
        <3>1. PICK s \in Request : s.voucher = v /\ s.user = u /\ claim[s] = "won"
                                    /\ pc[s] \notin {"sadd", "undoDup"}
            BY <2>1 DEF UnitsHeld
        <3>2. claim'[s] = "won" /\ pc'[s] \notin {"sadd", "undoDup"}
            <4>1. ASSUME NEW r \in Request, SeckillVoucher(r)
                  PROVE  claim'[s] = "won" /\ pc'[s] \notin {"sadd", "undoDup"}
                <5>1. CASE s # r
                    BY <3>1, <4>1, <5>1, Others
                <5>2. CASE s = r
                    <6>1. ~Decr(r) /\ ~UndoOver(r) /\ ~UndoDup(r) /\ ~Sadd(r)
                        BY <3>1, <5>2, OwnMove DEF Phases, PhaseOf
                    <6>2. claim' = claim
                        BY <4>1, <6>1, OwnFrame
                    <6>3. pc'[r] \notin {"sadd", "undoDup"}
                        BY <4>1, <6>1, OwnMove DEF SeckillVoucher
                    <6>. QED
                        BY <3>1, <5>2, <6>2, <6>3
                <5>. QED
                    BY <5>1, <5>2
            <4>2. CASE Crash
                BY <3>1, <4>2, CrashMove
            <4>3. CASE UNCHANGED requestVars
                BY <3>1, <4>3 DEF requestVars
            <4>. QED
                BY <4>1, <4>2, <4>3, RequestVarsMoves
        <3>. QED
            BY <3>1, <3>2
    <2>2. CASE u \notin bought[v]
        <3>1. PICK r \in Request : SeckillVoucher(r)
            BY <1>1, <2>2, RedisGrows
        <3>2. Sadd(r)
            BY <1>1, <2>2, <3>1, OwnFrame
        <3>3. r.voucher = v /\ r.user = u
            BY <1>1, <2>2, <3>2 DEF Sadd, TypeOK
        <3>4. claim'[r] = "won"
            BY <3>2 DEF Sadd, Phases, PhaseOf
        <3>5. pc'[r] \notin {"sadd", "undoDup"}
            BY <2>2, <3>2, <3>3, OwnMove
        <3>. QED
            BY <3>3, <3>4, <3>5
    <2>. QED
        BY <2>1, <2>2
<1>. QED
    BY <1>1, WonBoundStep DEF UnitsHeld

----------------------------------------------------------------------------
(* MySQL *)

\* Users who each hold a winning claim on v are no more than those claims.
LEMMA HoldersBounded ==
    ASSUME Finite, NEW v \in Voucher, NEW S, \A u \in S : \E r \in WonOn(v) : r.user = u
    PROVE  IsFiniteSet(S) /\ Cardinality(S) <= Cardinality(WonOn(v)) /\ IsFiniteSet(WonOn(v))
<1>1. IsFiniteSet(WonOn(v))
    BY FS_Subset, WonAreClaims DEF Finite
<1>. DEFINE f == [u \in S |-> CHOOSE r \in WonOn(v) : r.user = u]
<1>2. ASSUME NEW u \in S PROVE f[u] \in WonOn(v) /\ f[u].user = u
    OBVIOUS
<1>3. f \in Injection(S, WonOn(v))
    BY <1>2 DEF Injection, IsInjective
<1>. QED
    BY <1>1, <1>3, FS_Injection

LEMMA BuyersBounded ==
    ASSUME UnitsHeld, Finite, NEW v \in Voucher
    PROVE  /\ IsFiniteSet(bought[v]) /\ Cardinality(bought[v]) <= Cardinality(WonOn(v))
           /\ IsFiniteSet(WonOn(v))
<1>1. \A u \in bought[v] : \E r \in WonOn(v) : r.user = u
    BY DEF UnitsHeld, WonOn
<1>. QED
    BY <1>1, HoldersBounded

\* Different events on a voucher belong to different buyers of it.
LEMMA EventsBounded ==
    ASSUME Phases, OneBuyer, EventsFromRequests, UnitsHeld, Finite, NEW v \in Voucher,
           NEW S, S \subseteq Events, \A e \in S : e.voucher = v
    PROVE  IsFiniteSet(S) /\ Cardinality(S) <= Cardinality(bought[v])
<1>. DEFINE f == [e \in S |-> e.user]
<1>1. ASSUME NEW e \in S
      PROVE  \E r \in Request : Buying(r) /\ e = Event(r) /\ r.voucher = v
                                /\ r.user = e.user /\ e.user \in bought[v]
    <2>1. PICK r \in Request : orderId[r] # 0 /\ e = Event(r)
        BY DEF EventsFromRequests
    <2>2. r.voucher = v /\ r.user = e.user
        BY <2>1 DEF Event
    <2>. QED
        BY <2>1, <2>2 DEF Buying, OneBuyer
<1>2. ASSUME NEW d \in S, NEW e \in S, d.user = e.user PROVE d = e
    <2>1. PICK r \in Request : Buying(r) /\ d = Event(r) /\ r.voucher = v /\ r.user = d.user
        BY <1>1
    <2>2. PICK s \in Request : Buying(s) /\ e = Event(s) /\ s.voucher = v /\ s.user = e.user
        BY <1>1
    <2>. QED
        BY <1>2, <2>1, <2>2 DEF OneBuyer
<1>3. f \in Injection(S, bought[v])
    BY <1>1, <1>2 DEF Injection, IsInjective
<1>. QED
    BY <1>3, BuyersBounded, FS_Injection

\* Same order id, same event.
LEMMA IdsNameEvents ==
    ASSUME OneBuyer, EventsFromRequests, NEW d \in Events, NEW e \in Events, d.id = e.id
    PROVE  d = e
<1>1. PICK r \in Request : orderId[r] # 0 /\ d = Event(r)
    BY DEF EventsFromRequests
<1>2. PICK s \in Request : orderId[s] # 0 /\ e = Event(s)
    BY DEF EventsFromRequests
<1>3. orderId[r] = orderId[s]
    BY <1>1, <1>2 DEF Event
<1>. QED
    BY <1>1, <1>2, <1>3 DEF OneBuyer

\* An event that is not stored yet finds stock in its voucher's row.
LEMMA StockForEveryEvent ==
    ASSUME IInv, NEW e \in Events, e.voucher \in Voucher, ~Exists(e)
    PROVE  dbStock[e.voucher] \in Nat /\ dbStock[e.voucher] > 0
<1>. DEFINE v == e.voucher
<1>0. /\ TypeOK /\ Phases /\ OneBuyer /\ Loaded /\ UnitsHeld /\ EventsFromRequests
      /\ DbConservation /\ Finite
    BY DEF IInv
<1>1. PICK r \in Request : orderId[r] # 0 /\ e = Event(r)
    BY <1>0 DEF EventsFromRequests
<1>2. offered[v] # Absent /\ dbStock[v] # Absent
    <2>1. claim[r] # "none" /\ r.voucher = v
        BY <1>0, <1>1 DEF Phases, PhaseOf, Event
    <2>. QED
        BY <1>0, <2>1 DEF Loaded
<1>3. dbStock[v] \in Nat /\ offered[v] \in Nat /\ dbStock[v] + Cardinality(OrdersOf(v)) = offered[v]
    BY <1>0, <1>2 DEF DbConservation, TypeOK
<1>4. e \notin OrdersOf(v) /\ OrdersOf(v) \subseteq Events
    BY DEF Exists, OrdersOf, Events
<1>5. IsFiniteSet(OrdersOf(v)) /\ Cardinality(OrdersOf(v)) \in Nat
    BY <1>0, FS_Subset, FS_CardinalityType DEF Finite, OrdersOf
<1>6. Cardinality(OrdersOf(v) \cup {e}) = Cardinality(OrdersOf(v)) + 1
    BY <1>4, <1>5, FS_AddElement
<1>7. Cardinality(OrdersOf(v) \cup {e}) <= Cardinality(bought[v])
    <2>1. \A d \in OrdersOf(v) \cup {e} : d.voucher = v
        BY DEF OrdersOf
    <2>2. OrdersOf(v) \cup {e} \subseteq Events
        BY <1>4
    <2>. QED
        BY <1>0, <2>1, <2>2, EventsBounded
<1>8. /\ Cardinality(bought[v]) \in Nat /\ Cardinality(WonOn(v)) \in Nat
      /\ Cardinality(bought[v]) <= Cardinality(WonOn(v))
      /\ Cardinality(WonOn(v)) <= offered[v]
    BY <1>0, <1>2, BuyersBounded, FS_CardinalityType DEF UnitsHeld, Units
<1>. QED
    BY <1>3, <1>5, <1>6, <1>7, <1>8

LEMMA DbConservationStep ==
    ASSUME IInv, [Next]_vars
    PROVE  DbConservation'
<1>. SUFFICES ASSUME NEW v \in Voucher
              PROVE  IF dbStock'[v] = Absent
                     THEN OrdersOf(v)' = {}
                     ELSE dbStock'[v] + Cardinality(OrdersOf(v)') = offered'[v]
    BY DEF DbConservation
<1>0. TypeOK /\ Loaded /\ DbConservation /\ Finite
    BY DEF IInv
<1>1. IsFiniteSet(OrdersOf(v)) /\ Cardinality(OrdersOf(v)) \in Nat
    BY <1>0, FS_Subset, FS_CardinalityType DEF Finite, OrdersOf
<1>2. CASE UNCHANGED <<dbStock, orders, dropped, offered>>
    BY <1>0, <1>2 DEF DbConservation, OrdersOf
<1>3. CASE HasRecord /\ OnOrderCreated(Current) /\ offered' = offered
    <2>1. CASE dbStock'[v] = dbStock[v] /\ OrdersOf(v)' = OrdersOf(v)
        BY <1>0, <1>3, <2>1 DEF DbConservation
    <2>2. CASE /\ v = Current.voucher /\ dbStock[v] \in Nat /\ dbStock[v] > 0
               /\ dbStock'[v] = dbStock[v] - 1
               /\ Current \notin orders /\ OrdersOf(v)' = OrdersOf(v) \cup {Current}
        <3>1. Current \notin OrdersOf(v)
            BY <2>2 DEF OrdersOf
        <3>2. Cardinality(OrdersOf(v) \cup {Current}) = Cardinality(OrdersOf(v)) + 1
            BY <1>1, <3>1, FS_AddElement
        <3>3. dbStock[v] # Absent /\ dbStock[v] - 1 # Absent
            BY <2>2
        <3>. QED
            BY <1>0, <1>1, <1>3, <2>2, <3>2, <3>3 DEF DbConservation
    <2>. QED
        BY <1>0, <1>3, <2>1, <2>2, TransactionMoves
<1>4. ASSUME NEW w \in Voucher, NEW q \in Quantity, AddSeckillVoucher(w, q)
      PROVE  IF dbStock'[v] = Absent
             THEN OrdersOf(v)' = {}
             ELSE dbStock'[v] + Cardinality(OrdersOf(v)') = offered'[v]
    <2>1. /\ dbStock[w] = Absent /\ dbStock' = [dbStock EXCEPT ![w] = q]
          /\ offered' = [offered EXCEPT ![w] = q] /\ OrdersOf(v)' = OrdersOf(v)
          /\ DOMAIN dbStock = Voucher /\ DOMAIN offered = Voucher
        BY <1>0, <1>4 DEF AddSeckillVoucher, OrdersOf, TypeOK
    <2>2. CASE w = v
        <3>1. Cardinality(OrdersOf(v)) = 0
            BY <1>0, <2>1, <2>2, FS_EmptySet DEF DbConservation
        <3>2. dbStock'[v] = q /\ offered'[v] = q /\ q \in Nat /\ q # Absent
            BY <2>1, <2>2
        <3>. QED
            BY <2>1, <3>1, <3>2
    <2>3. CASE w # v
        BY <1>0, <2>1, <2>3 DEF DbConservation
    <2>. QED
        BY <2>2, <2>3
<1>. QED
    BY <1>2, <1>3, <1>4, DbMoves

LEMMA NeverDroppedStep ==
    ASSUME IInv, [Next]_vars
    PROVE  NeverDropped'
<1>0. TypeOK /\ NeverDropped
    BY DEF IInv
<1>1. ASSUME HasRecord, OnOrderCreated(Current) PROVE dropped' = dropped
    <2>1. Current \in Events /\ Current.voucher \in Voucher
        BY <1>0, <1>1, CurrentTyped DEF Events, Records, Current, OrderEvent
    <2>2. ~Drop(Current)
        <3>1. SUFFICES ASSUME Drop(Current) PROVE FALSE
            OBVIOUS
        <3>2. ~Exists(Current) /\ NoStock(Current)
            BY <3>1 DEF Drop
        <3>. QED
            BY <2>1, <3>2, StockForEveryEvent DEF NoStock
    <2>. QED
        BY <1>1, <2>2 DEF OnOrderCreated, Skip, Persist
<1>. QED
    BY <1>0, <1>1, DbMoves DEF NeverDropped, AddSeckillVoucher

LEMMA FiniteStep ==
    ASSUME IInv, [Next]_vars
    PROVE  Finite'
<1>0. TypeOK /\ Phases /\ Loaded /\ Finite
    BY DEF IInv
<1>1. ASSUME NEW v \in Voucher PROVE IsFiniteSet(ClaimsOn(v)')
    BY <1>0, ClaimsFinite DEF Finite
<1>2. orders' = orders \/ orders' = orders \cup {Current}
    BY DbMoves DEF OnOrderCreated, Skip, Persist, Drop, AddSeckillVoucher
<1>3. IsFiniteSet(orders')
    BY <1>0, <1>2, FS_AddElement DEF Finite
<1>. QED
    BY <1>1, <1>3 DEF Finite

\* The consumer goes past a record by its transaction or by the DLT; a crash
\* takes it back to the committed offset.
LEMMA PositionMoves ==
    ASSUME [Next]_vars
    PROVE  \/ position' = position
           \/ /\ HasRecord /\ position' = position + 1 /\ log' = log
              /\ OnOrderCreated(Current) \/ Current \in dlt'
           \/ position' = committed /\ log' = log
BY OwnFrame
DEF Next, vars, consumerVars, kafkaVars, SeckillVoucher, GetStock, Decr, UndoOver, UndoDup,
    Undo, Sadd, NextId, Send, CallFails, Producer, Deliver, Expire, Listener, Consume, Retry,
    DeadLetter, DeadLetterFails, Throws, Advance, CommitOffset, AddSeckillVoucher, Preload,
    PreloadRead, PreloadSetnx, Crash, Restart

\* Orders, dead letters and logged drops are for good.
LEMMA SettledStays ==
    ASSUME [Next]_vars
    PROVE  orders \subseteq orders' /\ dlt \subseteq dlt' /\ dropped \subseteq dropped'
<1>1. orders \subseteq orders' /\ dropped \subseteq dropped'
    BY DbMoves DEF OnOrderCreated, Skip, Persist, Drop, AddSeckillVoucher
<1>2. dlt \subseteq dlt'
    BY OwnFrame
    DEF Next, vars, kafkaVars, Producer, Deliver, Expire, Listener, Consume, Retry,
        DeadLetter, DeadLetterFails, CommitOffset, AddSeckillVoucher, Preload,
        PreloadRead, PreloadSetnx, Crash, Restart
<1>. QED
    BY <1>1, <1>2

LEMMA PositionStep ==
    ASSUME IInv, [Next]_vars
    PROVE  PositionIsSettled'
<1>0. TypeOK /\ OneBuyer /\ EventsFromRequests /\ PositionIsSettled
    BY DEF IInv
<1>1. /\ position \in Nat /\ position <= Len(log) /\ committed \in Nat /\ committed <= position
      /\ log \in Seq(OrderEvent)
    BY <1>0 DEF TypeOK
<1>2. ASSUME NEW k \in 1 .. position PROVE log'[k] = log[k]
    <2>1. CASE log' = log
        BY <2>1
    <2>2. ASSUME NEW e \in pending, log' = Append(log, e) PROVE log'[k] = log[k]
        <3>1. k \in 1 .. Len(log) /\ e \in OrderEvent
            BY <1>0, <1>1 DEF TypeOK
        <3>. QED
            BY <1>1, <2>2, <3>1
    <2>. QED
        BY <1>0, <2>1, <2>2, RecordsMove
<1>3. ASSUME NEW k \in 1 .. position
      PROVE  log'[k] \in orders' \cup dlt' \/ log'[k].id \in dropped'
    BY <1>0, <1>2, SettledStays DEF PositionIsSettled
<1>4. ASSUME HasRecord, OnOrderCreated(Current)
      PROVE  Current \in orders' \/ Current.id \in dropped'
    <2>1. CASE Skip(Current)
        <3>1. PICK o \in orders : o.id = Current.id
            BY <2>1 DEF Skip, Exists
        <3>2. Current \in Events /\ o \in Events
            BY <1>0, <1>4, CurrentTyped DEF Events, Records, Current
        <3>3. o = Current
            BY <1>0, <3>1, <3>2, IdsNameEvents
        <3>. QED
            BY <2>1, <3>3 DEF Skip
    <2>2. CASE Persist(Current) \/ Drop(Current)
        BY <2>2 DEF Persist, Drop
    <2>. QED
        BY <1>4, <2>1, <2>2 DEF OnOrderCreated
<1>5. CASE position' = position \/ position' = committed
    BY <1>1, <1>3, <1>5 DEF PositionIsSettled
<1>6. CASE /\ HasRecord /\ position' = position + 1 /\ log' = log
           /\ OnOrderCreated(Current) \/ Current \in dlt'
    <2>1. Current \in orders' \cup dlt' \/ Current.id \in dropped'
        BY <1>4, <1>6
    <2>2. log'[position + 1] = Current
        BY <1>6 DEF Current
    <2>3. \A k \in 1 .. position' : k \in 1 .. position \/ k = position + 1
        BY <1>1, <1>6
    <2>. QED
        BY <1>3, <2>1, <2>2, <2>3 DEF PositionIsSettled
<1>. QED
    BY <1>5, <1>6, PositionMoves

----------------------------------------------------------------------------
(* The theorems *)

LEMMA InvInit == Init => IInv
<1>. SUFFICES ASSUME Init PROVE IInv
    OBVIOUS
<1>1. TypeOK
    BY TypeInit
<1>2. Phases
    BY DEF Init, Phases, PhaseOf
<1>3. Events = {} /\ EventsFromRequests
    BY DEF Init, EventsFromRequests, Events, Records
<1>4. OneBuyer
    BY DEF Init, OneBuyer, Buying
<1>5. Loaded
    BY DEF Init, Loaded, Running
<1>6. \A v \in Voucher : ClaimsOn(v) = {} /\ WonOn(v) = {} /\ OrdersOf(v) = {}
    BY DEF Init, ClaimsOn, WonOn, OrdersOf
<1>7. Finite
    BY <1>6, FS_EmptySet DEF Init, Finite
<1>8. Conservation
    BY <1>6 DEF Init, Conservation
<1>9. UnitsHeld
    <2>1. \A v \in Voucher : bought[v] = {}
        BY DEF Init
    <2>2. \A v \in Voucher : Units(v) \in Nat
        BY <1>1 DEF Units, TypeOK
    <2>. QED
        BY <1>6, <2>1, <2>2, FS_EmptySet DEF UnitsHeld
<1>10. DbConservation
    <2>. SUFFICES ASSUME NEW v \in Voucher, dbStock[v] # Absent
                  PROVE  dbStock[v] + Cardinality(OrdersOf(v)) = offered[v]
        BY <1>6 DEF DbConservation
    <2>1. dbStock[v] \in Nat /\ offered[v] = dbStock[v]
        BY <1>1 DEF Init, TypeOK
    <2>. QED
        BY <1>6, <2>1, FS_EmptySet
<1>11. NeverDropped /\ PositionIsSettled
    BY DEF Init, NeverDropped, PositionIsSettled
<1>. QED
    BY <1>1, <1>2, <1>3, <1>4, <1>5, <1>7, <1>8, <1>9, <1>10, <1>11 DEF IInv

LEMMA InvStep == IInv /\ [Next]_vars => IInv'
<1>. SUFFICES ASSUME IInv, [Next]_vars PROVE IInv'
    OBVIOUS
<1>0. /\ TypeOK /\ Phases /\ OneBuyer /\ Loaded /\ Conservation /\ UnitsHeld
      /\ EventsFromRequests /\ DbConservation /\ Finite
    BY DEF IInv
<1>1. TypeOK'
    BY <1>0, TypeStep
<1>2. Phases' /\ OneBuyer' /\ EventsFromRequests'
    BY <1>0, PhasesStep, OneBuyerStep, EventsStep
<1>3. Loaded' /\ UnitsHeld'
    BY <1>0, LoadedStep, UnitsHeldStep
<1>4. Conservation'
    BY <1>0, ConservationStep DEF Conservation
<1>5. DbConservation' /\ NeverDropped' /\ Finite' /\ PositionIsSettled'
    BY DbConservationStep, NeverDroppedStep, FiniteStep, PositionStep
<1>. QED
    BY <1>1, <1>2, <1>3, <1>4, <1>5 DEF IInv

\* The inductive invariant holds in every reachable state of the pipeline.
THEOREM Invariance == Spec => []IInv
BY InvInit, InvStep, PTL DEF Spec

\* Units are never created or lost by an interleaving of HTTP threads, the
\* preload, crashes and restarts: seckill:stock is what was offered less the
\* DECRs that were not undone.
THEOREM Conserved == Spec => []Conservation
<1>1. IInv => Conservation
    BY DEF IInv
<1>. QED
    BY <1>1, Invariance, PTL

\* DECR followed by SADD in two round trips sells no voucher more often than
\* it was offered, and MySQL stores no more orders than that.
THEOREM NotOversold == Spec => []NoOversell
<1>1. IInv => NoOversell
    <2>. SUFFICES ASSUME IInv, NEW v \in Voucher
                  PROVE  /\ Cardinality(bought[v]) <= Units(v)
                         /\ Cardinality(OrdersOf(v)) <= Units(v)
        BY DEF NoOversell
    <2>0. /\ TypeOK /\ Phases /\ OneBuyer /\ EventsFromRequests /\ UnitsHeld /\ Finite
        BY DEF IInv
    <2>1. /\ Cardinality(bought[v]) \in Nat /\ Cardinality(WonOn(v)) \in Nat
          /\ Cardinality(bought[v]) <= Cardinality(WonOn(v))
          /\ Cardinality(WonOn(v)) <= Units(v) /\ Units(v) \in Nat
        BY <2>0, BuyersBounded, FS_CardinalityType DEF UnitsHeld, Units, TypeOK
    <2>2. OrdersOf(v) \subseteq Events /\ \A e \in OrdersOf(v) : e.voucher = v
        BY DEF OrdersOf, Events
    <2>3. /\ IsFiniteSet(OrdersOf(v)) /\ Cardinality(OrdersOf(v)) <= Cardinality(bought[v])
        BY <2>0, <2>2, EventsBounded
    <2>4. Cardinality(OrdersOf(v)) \in Nat
        BY <2>3, FS_CardinalityType
    <2>. QED
        BY <2>1, <2>3, <2>4
<1>. QED
    BY <1>1, Invariance, PTL

\* One order per user and voucher, in Kafka, in the DLT and in MySQL alike,
\* although only the Redis set guards it.
THEOREM BoughtOnce == Spec => []OneOrderPerUser
<1>1. IInv => OneOrderPerUser
    <2>. SUFFICES ASSUME IInv, NEW d \in Events, NEW e \in Events,
                         d.user = e.user, d.voucher = e.voucher
                  PROVE  d = e
        BY DEF OneOrderPerUser
    <2>0. EventsFromRequests /\ OneBuyer
        BY DEF IInv
    <2>1. PICK r \in Request : orderId[r] # 0 /\ d = Event(r)
        BY <2>0 DEF EventsFromRequests
    <2>2. PICK s \in Request : orderId[s] # 0 /\ e = Event(s)
        BY <2>0 DEF EventsFromRequests
    <2>3. r.user = s.user /\ r.voucher = s.voucher
        BY <2>1, <2>2 DEF Event
    <2>. QED
        BY <2>0, <2>1, <2>2, <2>3 DEF OneBuyer, Buying
<1>. QED
    BY <1>1, Invariance, PTL

\* existsById makes redelivery harmless: MySQL's stock and orders always add up.
THEOREM DbConserved == Spec => []DbConservation
<1>1. IInv => DbConservation
    BY DEF IInv
<1>. QED
    BY <1>1, Invariance, PTL

\* While Redis keeps its data the consumer never meets a row without stock.
THEOREM DropIsUnreachable == Spec => []NeverDropped
<1>1. IInv => NeverDropped
    BY DEF IInv
<1>. QED
    BY <1>1, Invariance, PTL

\* No committed offset skips a record that is not settled.
THEOREM CommitsAreSafe == Spec => []CommittedIsSettled
<1>1. IInv => CommittedIsSettled
    <2>. SUFFICES ASSUME IInv, NEW k \in 1 .. committed
                  PROVE  log[k] \in orders \cup dlt \/ log[k].id \in dropped
        BY DEF CommittedIsSettled
    <2>1. k \in 1 .. position
        BY DEF IInv, TypeOK
    <2>. QED
        BY <2>1 DEF IInv, PositionIsSettled
<1>. QED
    BY <1>1, Invariance, PTL

----------------------------------------------------------------------------
(* The pipeline implements FlashSale *)

LEMMA SaleInit == Init => Sale!Init
BY DEF Init, Sale!Init, Buyers, OrdersOf

\* SADD of a new member is a Grant: its request holds a unit nobody else holds.
LEMMA SaddGrants ==
    ASSUME IInv, NEW r \in Request, Sadd(r), r.user \notin bought[r.voucher]
    PROVE  Sale!Grant(r.user, r.voucher)
<1>. DEFINE v == r.voucher
<1>0. TypeOK /\ Phases /\ Loaded /\ UnitsHeld /\ Finite
    BY DEF IInv
<1>1. /\ bought' = [bought EXCEPT ![v] = @ \cup {r.user}] /\ offered' = offered
      /\ orders' = orders
    BY DEF Sadd, dbVars
<1>2. offered[v] # Absent /\ offered[v] \in Nat /\ Units(v) = offered[v]
    BY <1>0 DEF Sadd, Loaded, Running, TypeOK, Units
<1>3. r \in WonOn(v)
    BY <1>0 DEF Sadd, Phases, PhaseOf, WonOn
<1>4. \A u \in bought[v] \cup {r.user} : \E s \in WonOn(v) : s.user = u
    BY <1>0, <1>3 DEF UnitsHeld, WonOn
<1>5. Cardinality(bought[v] \cup {r.user}) <= Cardinality(WonOn(v)) /\ IsFiniteSet(WonOn(v))
    BY <1>0, <1>4, HoldersBounded
<1>6. IsFiniteSet(bought[v])
    BY <1>0, BuyersBounded
<1>7. Cardinality(bought[v] \cup {r.user}) = Cardinality(bought[v]) + 1
    BY <1>6, FS_AddElement
<1>8. /\ Cardinality(bought[v]) \in Nat /\ Cardinality(WonOn(v)) \in Nat
      /\ Cardinality(WonOn(v)) <= offered[v]
    BY <1>0, <1>2, <1>5, <1>6, FS_CardinalityType DEF UnitsHeld
<1>9. Cardinality(bought[v]) < offered[v]
    BY <1>2, <1>5, <1>7, <1>8
<1>10. Buyers' = Buyers
    BY <1>1 DEF Buyers, OrdersOf
<1>. QED
    <2>1. UNCHANGED <<offered, Buyers>>
        BY <1>1, <1>10
    <2>2. offered[v] # Absent /\ r.user \notin bought[v]
        BY <1>2
    <2>3. Sale!Cardinality(bought[v]) = Cardinality(bought[v])
        BY DEF Sale!Cardinality, Cardinality, IsFiniteSet, Sale!IsFiniteSet
    <2>. QED
        BY <1>1, <1>9, <2>1, <2>2, <2>3 DEF Sale!Grant

\* The consumer's insert is a Fulfil: the buyer holds a unit and had no order.
LEMMA PersistFulfils ==
    ASSUME IInv, HasRecord, Persist(Current), bought' = bought, offered' = offered
    PROVE  Sale!Fulfil(Current.user, Current.voucher)
<1>. DEFINE u == Current.user
            v == Current.voucher
<1>0. TypeOK /\ OneBuyer /\ EventsFromRequests
    BY DEF IInv
<1>1. Current \in Events /\ v \in Voucher
    BY <1>0, CurrentTyped DEF Events, Records, Current, OrderEvent
<1>2. PICK r \in Request : orderId[r] # 0 /\ Current = Event(r)
    BY <1>0, <1>1 DEF EventsFromRequests
<1>3. r.user = u /\ r.voucher = v
    BY <1>2 DEF Event
<1>4. u \in bought[v]
    BY <1>0, <1>2, <1>3 DEF OneBuyer, Buying
<1>5. u \notin Buyers[v]
    <2>. SUFFICES ASSUME NEW o \in orders, o.voucher = v, o.user = u PROVE FALSE
        BY <1>1 DEF Buyers, OrdersOf
    <2>1. PICK s \in Request : orderId[s] # 0 /\ o = Event(s)
        BY <1>0 DEF EventsFromRequests, Events
    <2>2. s = r
        BY <1>0, <1>2, <1>3, <2>1 DEF OneBuyer, Buying, Event
    <2>. QED
        BY <1>2, <2>1, <2>2 DEF Persist, Exists
<1>6. Buyers' = [Buyers EXCEPT ![v] = @ \cup {u}]
    <2>1. orders' = orders \cup {Current}
        BY DEF Persist
    <2>2. ASSUME NEW w \in Voucher
          PROVE  Buyers'[w] = IF w = v THEN Buyers[w] \cup {u} ELSE Buyers[w]
        BY <2>1 DEF Buyers, OrdersOf
    <2>. QED
        BY <1>1, <2>2 DEF Buyers
<1>. QED
    BY <1>4, <1>5, <1>6 DEF Sale!Fulfil

\* Only SADD grants, only the listener and the operator touch the tables.
LEMMA SaleMoves ==
    ASSUME TypeOK, [Next]_vars
    PROVE  \/ UNCHANGED <<bought, offered, orders>>
           \/ \E r \in Request : Sadd(r)
           \/ HasRecord /\ OnOrderCreated(Current) /\ UNCHANGED <<bought, offered>>
           \/ \E v \in Voucher, q \in Quantity : AddSeckillVoucher(v, q)
<1>1. ASSUME NEW r \in Request, SeckillVoucher(r)
      PROVE  UNCHANGED <<bought, offered, orders>> \/ Sadd(r)
    BY <1>1, OwnFrame
<1>2. CASE UNCHANGED <<bought, icr>>
    BY <1>2, DbMoves
<1>. QED
    BY <1>1, <1>2, RedisGrows

LEMMA SaleStep == IInv /\ [Next]_vars => [Sale!Next]_Sale!vars
<1>. SUFFICES ASSUME IInv, [Next]_vars PROVE [Sale!Next]_Sale!vars
    OBVIOUS
<1>0. TypeOK /\ Loaded
    BY DEF IInv
<1>1. CASE UNCHANGED <<bought, offered, orders>>
    BY <1>1 DEF Sale!vars, Buyers, OrdersOf
<1>2. ASSUME NEW r \in Request, Sadd(r) PROVE [Sale!Next]_Sale!vars
    <2>1. CASE r.user \notin bought[r.voucher]
        <3>1. Sale!Grant(r.user, r.voucher)
            BY <1>2, <2>1, SaddGrants
        <3>. QED
            BY <3>1 DEF Sale!Next
    <2>2. CASE r.user \in bought[r.voucher]
        <3>1. bought[r.voucher] \cup {r.user} = bought[r.voucher]
            BY <2>2
        <3>2. bought' = bought
            BY <1>0, <1>2, <3>1 DEF Sadd, TypeOK
        <3>3. offered' = offered /\ orders' = orders
            BY <1>2 DEF Sadd, dbVars
        <3>. QED
            BY <3>2, <3>3 DEF Sale!vars, Buyers, OrdersOf
    <2>. QED
        BY <2>1, <2>2
<1>3. ASSUME HasRecord, OnOrderCreated(Current), UNCHANGED <<bought, offered>>
      PROVE  [Sale!Next]_Sale!vars
    <2>1. CASE Persist(Current)
        <3>1. Sale!Fulfil(Current.user, Current.voucher)
            BY <1>3, <2>1, PersistFulfils
        <3>2. Current.user \in User /\ Current.voucher \in Voucher
            BY <1>0, <1>3, CurrentTyped DEF OrderEvent
        <3>. QED
            BY <3>1, <3>2 DEF Sale!Next
    <2>2. CASE Skip(Current) \/ Drop(Current)
        BY <1>3, <2>2 DEF Skip, Drop, Sale!vars, Buyers, OrdersOf
    <2>. QED
        BY <1>3, <2>1, <2>2 DEF OnOrderCreated
<1>4. ASSUME NEW v \in Voucher, NEW q \in Quantity, AddSeckillVoucher(v, q)
      PROVE  [Sale!Next]_Sale!vars
    <2>1. offered[v] = Absent
        BY <1>0, <1>4 DEF AddSeckillVoucher, Loaded
    <2>2. Sale!Offer(v, q)
        BY <1>4, <2>1 DEF AddSeckillVoucher, redisVars, Sale!Offer, Buyers, OrdersOf
    <2>. QED
        BY <2>2 DEF Sale!Next
<1>. QED
    BY <1>0, <1>1, <1>2, <1>3, <1>4, SaleMoves

\* Whatever the threads, crashes and redeliveries do, what Redis grants and what
\* MySQL stores is a run of FlashSale.
THEOREM Refinement == Spec => ImplementsFlashSale
<1>. QED
    BY SaleInit, SaleStep, Invariance, PTL DEF Spec, ImplementsFlashSale, Sale!Spec

----------------------------------------------------------------------------
(* The two stores *)

\* The claims on v whose order is stored are as many as the orders on v: an order
\* names its request by its id.
LEMMA StoredClaims ==
    ASSUME Phases, OneBuyer, EventsFromRequests, Finite, NEW v \in Voucher
    PROVE  /\ IsFiniteSet(Held(v))
           /\ Cardinality(ClaimsOn(v)) = Cardinality(Held(v)) + Cardinality(OrdersOf(v))
<1>. DEFINE S == {r \in ClaimsOn(v) : Event(r) \in orders}
            f == [r \in S |-> Event(r)]
<1>1. /\ ClaimsOn(v) = Held(v) \cup S /\ Held(v) \cap S = {}
      /\ Held(v) \subseteq ClaimsOn(v) /\ S \subseteq ClaimsOn(v)
    BY DEF Held
<1>2. IsFiniteSet(Held(v)) /\ IsFiniteSet(S)
    BY <1>1, FS_Subset DEF Finite
<1>3. Cardinality(ClaimsOn(v)) = Cardinality(Held(v)) + Cardinality(S)
    <2>1. Cardinality(Held(v) \cup S) =
              Cardinality(Held(v)) + Cardinality(S) - Cardinality(Held(v) \cap S)
        BY <1>2, FS_Union
    <2>2. Cardinality(Held(v) \cap S) = 0
        BY <1>1, FS_EmptySet
    <2>3. Cardinality(Held(v)) \in Nat /\ Cardinality(S) \in Nat
        BY <1>2, FS_CardinalityType
    <2>4. Cardinality(ClaimsOn(v)) = Cardinality(Held(v) \cup S)
        BY <1>1
    <2>. HIDE DEF S
    <2>. QED
        BY <2>1, <2>2, <2>3, <2>4
<1>4. ASSUME NEW r \in S PROVE f[r] \in OrdersOf(v)
    BY DEF ClaimsOn, OrdersOf, Event
<1>5. ASSUME NEW r \in S, NEW s \in S, f[r] = f[s] PROVE r = s
    <2>1. Event(r) \in Events /\ Event(r) = Event(s)
        BY <1>5 DEF Events
    <2>2. PICK q \in Request : orderId[q] # 0 /\ Event(r) = Event(q)
        BY <2>1 DEF EventsFromRequests
    <2>3. orderId[r] = orderId[s] /\ orderId[r] # 0
        BY <2>1, <2>2 DEF Event
    <2>. QED
        BY <2>3 DEF OneBuyer, ClaimsOn
<1>6. ASSUME NEW o \in OrdersOf(v) PROVE \E r \in S : f[r] = o
    <2>1. PICK r \in Request : orderId[r] # 0 /\ o = Event(r)
        BY DEF OrdersOf, Events, EventsFromRequests
    <2>2. r.voucher = v /\ claim[r] # "none"
        BY <2>1 DEF OrdersOf, Event, Phases, PhaseOf
    <2>. QED
        BY <2>1, <2>2 DEF ClaimsOn, OrdersOf
<1>7. f \in Surjection(S, OrdersOf(v)) /\ f \in Injection(S, OrdersOf(v))
    BY <1>4, <1>5, <1>6 DEF Surjection, Injection, IsInjective
<1>8. Cardinality(OrdersOf(v)) = Cardinality(S)
    BY <1>2, <1>7, FS_Surjection
<1>. QED
    BY <1>2, <1>3, <1>8

\* Redis never shows more of a voucher than MySQL still has, and less only by the units
\* that requests hold: although the two are written by different processes at different
\* times, with nothing but the log in between, nothing is counted twice or left out.
THEOREM StoresStayInStep == Spec => []StoresAgree
<1>1. IInv => StoresAgree
    <2>. SUFFICES ASSUME IInv, NEW v \in Voucher, stock[v] # Absent
                  PROVE  stock[v] + Cardinality(Held(v)) = dbStock[v]
        BY DEF StoresAgree
    <2>0. /\ TypeOK /\ Phases /\ OneBuyer /\ EventsFromRequests /\ Finite
          /\ Loaded /\ Conservation /\ DbConservation
        BY DEF IInv
    <2>1. dbStock[v] # Absent /\ dbStock[v] \in Nat /\ stock[v] \in Int
        BY <2>0 DEF Loaded, TypeOK
    <2>2. /\ stock[v] + Cardinality(ClaimsOn(v)) = offered[v]
          /\ dbStock[v] + Cardinality(OrdersOf(v)) = offered[v]
        BY <2>0, <2>1 DEF Conservation, DbConservation
    <2>3. /\ IsFiniteSet(Held(v))
          /\ Cardinality(ClaimsOn(v)) = Cardinality(Held(v)) + Cardinality(OrdersOf(v))
        BY <2>0, StoredClaims
    <2>4. IsFiniteSet(OrdersOf(v))
        BY <2>0, FS_Subset DEF Finite, OrdersOf
    <2>5. Cardinality(Held(v)) \in Nat /\ Cardinality(OrdersOf(v)) \in Nat
        BY <2>3, <2>4, FS_CardinalityType
    <2>. QED
        BY <2>1, <2>2, <2>3, <2>5
<1>. QED
    BY <1>1, Invariance, PTL

----------------------------------------------------------------------------
(* The pipeline at rest *)

\* When nothing fails a call answers, and nobody's DECR is left behind by a refusal.
LEMMA QuietMove ==
    ASSUME TypeOK, Phases, Faults = {}, NEW r \in Request, SeckillVoucher(r)
    PROVE  /\ pc'[r] \notin {"error", "crashed"}
           /\ pc'[r] \in {"notFound", "outOfStock", "purchased"} => claim'[r] = "none"
           /\ pc'[r] = "ok" => Send(r)
<1>1. ASSUME NEW next, Answer(r, next) PROVE pc'[r] = next
    BY <1>1 DEF Answer, TypeOK
<1>2. CASE GetStock(r)
    <2>1. claim' = claim /\ claim[r] = "none"
        BY <1>2 DEF GetStock, Phases, PhaseOf
    <2>. QED
        BY <1>1, <1>2, <2>1 DEF GetStock
<1>3. CASE Decr(r)
    BY <1>1, <1>3 DEF Decr
<1>4. CASE UndoOver(r) \/ UndoDup(r)
    <2>1. claim'[r] = "none"
        BY <1>4, OwnMove
    <2>. QED
        BY <1>1, <1>4, <2>1 DEF UndoOver, UndoDup, Undo
<1>5. CASE Sadd(r)
    BY <1>1, <1>5 DEF Sadd
<1>6. CASE NextId(r)
    BY <1>6 DEF NextId, TypeOK
<1>7. CASE Send(r)
    BY <1>7, OwnMove
<1>8. ~CallFails(r)
    BY DEF CallFails
<1>. QED
    BY <1>2, <1>3, <1>4, <1>5, <1>6, <1>7, <1>8 DEF SeckillVoucher

\* A record handed to the producer stays in its buffer until it is in the log.
LEMMA SentStays ==
    ASSUME TypeOK, [Next]_vars, Faults = {}, ~Crash
    PROVE  pending \cup Records \subseteq pending' \cup Records'
<1>1. ASSUME NEW e \in pending, Deliver(e)
      PROVE  pending \cup Records \subseteq pending' \cup Records'
    <2>1. log \in Seq(OrderEvent) /\ Len(log) \in Nat /\ e \in OrderEvent
        BY DEF TypeOK
    <2>2. /\ Len(log') = Len(log) + 1 /\ log'[Len(log) + 1] = e
          /\ \A k \in 1 .. Len(log) : log'[k] = log[k]
        BY <1>1, <2>1 DEF Deliver
    <2>3. Records \cup {e} \subseteq Records'
        BY <2>1, <2>2 DEF Records
    <2>. QED
        BY <1>1, <2>3 DEF Deliver
<1>2. CASE log' = log /\ pending \subseteq pending'
    BY <1>2 DEF Records
<1>3. (log' = log /\ pending \subseteq pending') \/ \E e \in pending : Deliver(e)
    BY OwnFrame
    DEF Next, vars, kafkaVars, Send, Producer, Deliver, Expire, Listener, Consume, Retry,
        DeadLetter, DeadLetterFails, CommitOffset, AddSeckillVoucher, Preload, PreloadRead,
        PreloadSetnx, Restart
<1>. QED
    BY <1>1, <1>2, <1>3

LEMMA NothingGoesMissingStep ==
    ASSUME IInv, NothingGoesMissing, [Next]_vars
    PROVE  NothingGoesMissing'
<1>. SUFFICES ASSUME Faults = {}, crashes' = 0
              PROVE  NothingGoesMissing'
    BY DEF NothingGoesMissing
<1>0. TypeOK /\ Phases
    BY DEF IInv
<1>1. ~Crash /\ crashes = 0
    <2>1. crashes' = crashes \/ Crash
        BY OwnFrame
        DEF Next, vars, processVars, SeckillVoucher, GetStock, Decr, UndoOver, UndoDup, Undo,
            Sadd, NextId, Send, CallFails, Producer, Deliver, Expire, Listener, Consume, Retry,
            DeadLetter, DeadLetterFails, CommitOffset, AddSeckillVoucher, Preload,
            PreloadRead, PreloadSetnx, Restart
    <2>2. ~Crash
        BY <1>0 DEF Crash, TypeOK
    <2>. QED
        BY <2>1, <2>2
<1>2. dlt' = {}
    <2>1. ~DeadLetter
        BY DEF DeadLetter, Throws
    <2>2. dlt' = dlt \/ DeadLetter
        BY OwnFrame
        DEF Next, vars, kafkaVars, Producer, Deliver, Expire, Listener, Consume, Retry,
            DeadLetterFails, CommitOffset, AddSeckillVoucher, Preload, PreloadRead,
            PreloadSetnx, Crash, Restart
    <2>. QED
        BY <1>1, <2>1, <2>2 DEF NothingGoesMissing
<1>. DEFINE Kept(r) ==
                /\ pc[r] \notin {"error", "crashed"}
                /\ pc[r] \in {"notFound", "outOfStock", "purchased"} => claim[r] = "none"
                /\ pc[r] = "ok" => orderId[r] # 0 /\ Event(r) \in pending \cup Records
<1>3. \A r \in Request : Kept(r)
    BY <1>1 DEF NothingGoesMissing
<1>4. ASSUME NEW r \in Request, UNCHANGED <<pc[r], claim[r], orderId[r]>> PROVE Kept(r)'
    <2>1. Event(r)' = Event(r)
        BY <1>4 DEF Event
    <2>2. pending \cup Records \subseteq pending' \cup Records'
        BY <1>0, <1>1, SentStays
    <2>. QED
        BY <1>3, <1>4, <2>1, <2>2
<1>5. ASSUME NEW r \in Request, SeckillVoucher(r) PROVE Kept(r)'
    <2>1. ASSUME Send(r) PROVE orderId'[r] # 0 /\ Event(r)' \in pending'
        <3>1. orderId' = orderId /\ orderId[r] # 0 /\ pending' = pending \cup {Event(r)}
            BY <1>0, <2>1 DEF Send, Phases, PhaseOf
        <3>. QED
            BY <3>1 DEF Event
    <2>. QED
        BY <1>0, <1>5, <2>1, QuietMove
<1>6. ASSUME NEW r \in Request PROVE Kept(r)'
    <2>1. CASE UNCHANGED requestVars
        BY <1>4, <2>1 DEF requestVars
    <2>2. ASSUME NEW s \in Request, SeckillVoucher(s) PROVE Kept(r)'
        <3>1. CASE s = r
            BY <1>5, <2>2, <3>1
        <3>2. CASE s # r
            BY <1>0, <1>4, <2>2, <3>2, Others
        <3>. QED
            BY <3>1, <3>2
    <2>. QED
        BY <1>1, <2>1, <2>2, RequestVarsMoves
<1>. QED
    BY <1>2, <1>6 DEF NothingGoesMissing

\* Without faults and crashes no order is lost on its way, and no refused request keeps
\* a unit.
LEMMA NothingMissing == Spec => []NothingGoesMissing
<1>1. Init => NothingGoesMissing
    BY DEF Init, NothingGoesMissing
<1>. QED
    BY <1>1, Invariance, NothingGoesMissingStep, PTL DEF Spec

\* What is behind the consumer is stored, unless it is in the DLT.
LEMMA PassedIsStored ==
    ASSUME IInv, dlt = {}, position = Len(log)
    PROVE  Records \subseteq orders
BY DEF IInv, PositionIsSettled, NeverDropped, Records

\* If nothing fails, a pipeline at rest has stored every order it accepted and shows in
\* Redis what MySQL has: the consistency that DESIGN.md promises eventually.
THEOREM RestConsistent == Spec => []RestIsConsistent
<1>1. IInv /\ StoresAgree /\ NothingGoesMissing => RestIsConsistent
    <2>. SUFFICES ASSUME IInv, StoresAgree, NothingGoesMissing, Faults = {}, crashes = 0, AtRest
                  PROVE  /\ \A r \in Request : pc[r] = "ok" => Event(r) \in orders
                         /\ \A v \in Voucher : stock[v] # Absent => stock[v] = dbStock[v]
        BY DEF RestIsConsistent
    <2>1. /\ dlt = {}
          /\ \A r \in Request :
                /\ pc[r] \notin {"error", "crashed"}
                /\ pc[r] \in {"notFound", "outOfStock", "purchased"} => claim[r] = "none"
                /\ pc[r] = "ok" => orderId[r] # 0 /\ Event(r) \in pending \cup Records
        BY DEF NothingGoesMissing
    <2>2. Records \subseteq orders /\ pending = {}
        BY <2>1, PassedIsStored DEF AtRest
    <2>3. \A r \in Request : pc[r] = "ok" => Event(r) \in orders
        BY <2>1, <2>2
    <2>4. ASSUME NEW v \in Voucher, stock[v] # Absent PROVE stock[v] = dbStock[v]
        <3>1. Held(v) = {}
            <4>. SUFFICES ASSUME NEW r \in Request, claim[r] # "none" PROVE Event(r) \in orders
                BY DEF Held, ClaimsOn
            <4>1. pc[r] \in Phase /\ pc[r] \notin Running /\ pc[r] # "idle"
                BY DEF IInv, TypeOK, Phases, PhaseOf, AtRest
            <4>2. pc[r] = "ok"
                BY <2>1, <4>1 DEF Phase, Running, Ended
            <4>. QED
                BY <2>3, <4>2
        <3>2. stock[v] + 0 = dbStock[v] /\ stock[v] \in Int
            BY <2>4, <3>1, FS_EmptySet DEF StoresAgree, IInv, TypeOK
        <3>. QED
            BY <3>2
    <2>. QED
        BY <2>3, <2>4
<1>. QED
    BY <1>1, Invariance, StoresStayInStep, NothingMissing, PTL

----------------------------------------------------------------------------
(* The pipeline draws its ids from an IdSource *)

LEMMA DrawStep == IInv /\ [Next]_vars => [Ids!Draw]_Answers
<1>. SUFFICES ASSUME IInv, [Next]_vars PROVE [Ids!Draw]_Answers
    OBVIOUS
<1>0. /\ TypeOK /\ Phases /\ icr \in Nat /\ orderId \in [Request -> Nat]
      /\ \A r \in Request : orderId[r] <= icr
    BY DEF IInv, TypeOK, OneBuyer
<1>1. ASSUME NEW r \in Request, pc[r] = "nextId", orderId' = [orderId EXCEPT ![r] = icr + 1]
      PROVE  Ids!Draw
    <2>1. orderId[r] = 0
        BY <1>0, <1>1 DEF Phases, PhaseOf
    <2>2. icr + 1 # 0 /\ icr + 1 \notin Ids!Drawn /\ r \notin Ids!Calls
        BY <1>0, <2>1 DEF Answers, Ids!Drawn, Ids!Calls
    <2>3. ASSUME NEW s \in Request
          PROVE  orderId'[s] = IF s = r THEN icr + 1 ELSE orderId[s]
        BY <1>0, <1>1
    <2>4. Answers' = Answers \cup {[call |-> r, id |-> icr + 1]}
        BY <2>1, <2>2, <2>3 DEF Answers
    <2>. QED
        BY <2>2, <2>4 DEF Ids!Draw
<1>2. \/ orderId' = orderId
      \/ \E r \in Request : pc[r] = "nextId" /\ orderId' = [orderId EXCEPT ![r] = icr + 1]
    <2>1. ASSUME NEW r \in Request, SeckillVoucher(r)
          PROVE  \/ orderId' = orderId
                 \/ pc[r] = "nextId" /\ orderId' = [orderId EXCEPT ![r] = icr + 1]
        BY <2>1, OwnFrame DEF NextId
    <2>2. CASE Crash \/ UNCHANGED requestVars
        BY <2>2 DEF Crash, requestVars
    <2>. QED
        BY <2>1, <2>2, RequestVarsMoves
<1>3. CASE orderId' = orderId
    BY <1>3 DEF Answers
<1>. QED
    BY <1>1, <1>2, <1>3

\* No crash, retry or interleaving makes the pipeline use an id twice or take one back:
\* its ids are a run of IdSource, which is what RedisIdWorker is shown to be.
THEOREM DrawsItsIds == Spec => ImplementsIdSource
<1>1. Init => Ids!Init
    BY DEF Init, Ids!Init, Answers
<1>. QED
    BY <1>1, DrawStep, Invariance, PTL DEF Spec, ImplementsIdSource, Ids!Spec
=============================================================================
