------------------------ MODULE SeckillFaultsProofs ------------------------
(***************************************************************************)
(* Machine-checked proofs about SeckillFaults, for every value of its      *)
(* constants.  FaultsInv is inductive; once Redis has forgotten something  *)
(* it says nothing of Redis beyond types.  What a step of the pipeline     *)
(* does is taken from the lemmas of SeckillProofs where they do not rest   *)
(* on the types of Seckill, which a malformed record breaks.               *)
(***************************************************************************)
EXTENDS SeckillFaults, SeckillProofs

USE QuantityAssumption, RequestAssumption, MalformedAssumption, FaultBoundsAssumption

----------------------------------------------------------------------------
(* Steps *)

LEMMA PipelineIsNext == PipelineStep => Next
BY DEF PipelineStep, Next, Poll

\* Where the consumer's tables can change.
LEMMA TablesMove ==
    ASSUME PipelineStep
    PROVE  \/ UNCHANGED <<dbStock, orders, dropped, offered>>
           \/ HasRecord /\ ~Stuck /\ OnOrderCreated(Current) /\ offered' = offered
           \/ \E v \in Voucher, q \in Quantity : AddSeckillVoucher(v, q)
BY OwnFrame
DEF PipelineStep, Poll, dbVars, SeckillVoucher, GetStock, Decr, UndoOver, UndoDup, Undo,
    Sadd, NextId, Send, CallFails, Producer, Deliver, Expire, Listener, Consume, Retry,
    DeadLetter, DeadLetterFails, Throws, CommitOffset, Preload, PreloadRead,
    PreloadSetnx, Crash, Restart

\* The consumer goes past a record that decodes, by its transaction or by the
\* DLT; a crash takes it back to the committed offset.
LEMMA ConsumerMoves ==
    ASSUME PipelineStep
    PROVE  \/ position' = position
           \/ /\ HasRecord /\ ~Stuck /\ position' = position + 1 /\ log' = log
              /\ OnOrderCreated(Current) \/ Current \in dlt'
           \/ position' = committed /\ log' = log
BY OwnFrame
DEF PipelineStep, Poll, consumerVars, kafkaVars, SeckillVoucher, GetStock, Decr, UndoOver,
    UndoDup, Undo, Sadd, NextId, Send, CallFails, Producer, Deliver, Expire, Listener,
    Consume, Retry, DeadLetter, DeadLetterFails, Throws, Advance, CommitOffset,
    AddSeckillVoucher, Preload, PreloadRead, PreloadSetnx, Crash, Restart

\* Records are only added, from the producer's buffer.
LEMMA LogMoves ==
    ASSUME PipelineStep
    PROVE  log' = log \/ \E e \in pending : log' = Append(log, e)
BY OwnFrame
DEF PipelineStep, Poll, kafkaVars, Producer, Deliver, Expire, Listener, Consume, Retry,
    DeadLetter, DeadLetterFails, CommitOffset, AddSeckillVoucher, Preload, PreloadRead,
    PreloadSetnx, Crash, Restart

LEMMA PendingMoves ==
    ASSUME PipelineStep
    PROVE  \/ pending' \subseteq pending
           \/ \E r \in Request : Send(r) /\ pending' = pending \cup {Event(r)}
BY OwnFrame
DEF PipelineStep, Poll, kafkaVars, Send, Producer, Deliver, Expire, Listener, Consume, Retry,
    DeadLetter, DeadLetterFails, CommitOffset, AddSeckillVoucher, Preload, PreloadRead,
    PreloadSetnx, Crash, Restart

Early == {"idle", "decr", "undoOver", "sadd", "undoDup", "nextId"}

\* A step of a request: its thread moves on, and an id is drawn in nextId only.
LEMMA RequestMove ==
    ASSUME NEW r \in Request, SeckillVoucher(r)
    PROVE  \E s \in Phase :
              /\ pc' = [pc EXCEPT ![r] = s]
              /\ \/ /\ UNCHANGED <<icr, orderId>>
                    /\ s # "send" /\ (s \in Early => pc[r] \in Early)
                 \/ /\ pc[r] = "nextId" /\ icr' = icr + 1
                    /\ \/ s = "send" /\ orderId' = [orderId EXCEPT ![r] = icr + 1]
                       \/ s = "error" /\ orderId' = orderId
<1>. USE DEF Early, Phase, Running, Ended, redisVars
<1>1. CASE GetStock(r)
    BY <1>1, AnswerLeads DEF GetStock
<1>2. CASE Decr(r)
    BY <1>2, AnswerLeads DEF Decr
<1>3. CASE UndoOver(r)
    BY <1>3, AnswerLeads DEF UndoOver, Undo
<1>4. CASE UndoDup(r)
    BY <1>4, AnswerLeads DEF UndoDup, Undo
<1>5. CASE Sadd(r)
    BY <1>5, AnswerLeads DEF Sadd
<1>6. CASE NextId(r)
    BY <1>6 DEF NextId
<1>7. CASE Send(r)
    BY <1>7 DEF Send
<1>8. CASE CallFails(r)
    BY <1>8 DEF CallFails
<1>. QED
    BY <1>1, <1>2, <1>3, <1>4, <1>5, <1>6, <1>7, <1>8 DEF SeckillVoucher

LEMMA ThreadsMove ==
    ASSUME PipelineStep
    PROVE  \/ \E r \in Request : SeckillVoucher(r)
           \/ Crash
           \/ UNCHANGED <<pc, orderId, icr>>
BY DEF PipelineStep, Poll, redisVars, requestVars, Producer, Deliver, Expire, Listener, Consume,
       Retry, DeadLetter, DeadLetterFails, CommitOffset, AddSeckillVoucher, Preload,
       PreloadRead, PreloadSetnx, Restart

----------------------------------------------------------------------------
(* Types *)

LEMMA FaultsInitTyped == FaultsInit => FaultsTypeOK
<1>. SUFFICES ASSUME FaultsInit PROVE FaultsTypeOK
    OBVIOUS
<1>1. /\ log \in Seq(OrderEvent \cup {Malformed}) /\ Len(log) = 0
      /\ IsFiniteSet(orders)
    BY FS_EmptySet DEF FaultsInit, Init
<1>2. pc \in [Request -> Phase]
    BY DEF FaultsInit, Init, Phase
<1>3. /\ dbStock \in [Voucher -> Nat \cup {Absent}]
      /\ offered \in [Voucher -> Nat \cup {Absent}]
    BY DEF FaultsInit, Init
<1>4. /\ stock \in [Voucher -> Int \cup {Absent}] /\ bought \in [Voucher -> SUBSET User]
      /\ saved = [stock |-> stock, bought |-> bought, icr |-> 0, forgotten |-> {}]
    BY DEF FaultsInit, Init
<1>. QED
    BY <1>1, <1>2, <1>3, <1>4 DEF FaultsInit, Init, FaultsTypeOK

\* The record that poll() hands to the listener.
LEMMA PolledTyped ==
    ASSUME FaultsTypeOK, HasRecord, ~Stuck
    PROVE  /\ Current \in OrderEvent /\ Current # Malformed
           /\ position + 1 \in 1 .. Len(log)
BY DEF FaultsTypeOK, HasRecord, Stuck, Current

LEMMA PolledTransactionTyped ==
    ASSUME FaultsTypeOK, NEW e \in OrderEvent, OnOrderCreated(e)
    PROVE  /\ dbStock' \in [Voucher -> Nat \cup {Absent}]
           /\ orders' \in SUBSET OrderEvent /\ IsFiniteSet(orders')
<1>1. e.voucher \in Voucher
    BY DEF OrderEvent
<1>2. CASE Skip(e)
    BY <1>2 DEF Skip, FaultsTypeOK
<1>3. CASE Persist(e)
    <2>1. dbStock[e.voucher] \in Nat /\ dbStock[e.voucher] - 1 \in Nat
        BY <1>1, <1>3 DEF Persist, DecreaseStock, FaultsTypeOK
    <2>2. IsFiniteSet(orders \cup {e})
        BY FS_AddElement DEF FaultsTypeOK
    <2>. QED
        BY <1>1, <1>3, <2>1, <2>2 DEF Persist, DecreaseStock, FaultsTypeOK
<1>4. CASE Drop(e)
    BY <1>4 DEF Drop, FaultsTypeOK
<1>. QED
    BY <1>2, <1>3, <1>4 DEF OnOrderCreated

LEMMA TablesTyped ==
    ASSUME FaultsTypeOK, PipelineStep
    PROVE  /\ dbStock' \in [Voucher -> Nat \cup {Absent}]
           /\ offered' \in [Voucher -> Nat \cup {Absent}]
           /\ orders' \in SUBSET OrderEvent /\ IsFiniteSet(orders')
<1>1. CASE UNCHANGED <<dbStock, orders, dropped, offered>>
    BY <1>1 DEF FaultsTypeOK
<1>2. CASE HasRecord /\ ~Stuck /\ OnOrderCreated(Current) /\ offered' = offered
    <2>1. offered' \in [Voucher -> Nat \cup {Absent}]
        BY <1>2 DEF FaultsTypeOK
    <2>. QED
        BY <1>2, <2>1, PolledTyped, PolledTransactionTyped
<1>3. ASSUME NEW v \in Voucher, NEW q \in Quantity, AddSeckillVoucher(v, q)
      PROVE  /\ dbStock' \in [Voucher -> Nat \cup {Absent}]
             /\ offered' \in [Voucher -> Nat \cup {Absent}]
             /\ orders' \in SUBSET OrderEvent /\ IsFiniteSet(orders')
    BY <1>3 DEF AddSeckillVoucher, FaultsTypeOK
<1>. QED
    BY <1>1, <1>2, <1>3, TablesMove

LEMMA LogTyped ==
    ASSUME FaultsTypeOK, PipelineStep
    PROVE  /\ log' \in Seq(OrderEvent \cup {Malformed})
           /\ Len(log') >= Len(log)
           /\ \A k \in 1 .. Len(log) : log'[k] = log[k]
<1>1. CASE log' = log
    BY <1>1 DEF FaultsTypeOK
<1>2. ASSUME NEW e \in pending, log' = Append(log, e)
      PROVE  /\ log' \in Seq(OrderEvent \cup {Malformed})
             /\ Len(log') >= Len(log)
             /\ \A k \in 1 .. Len(log) : log'[k] = log[k]
    <2>1. e \in OrderEvent \cup {Malformed} /\ log \in Seq(OrderEvent \cup {Malformed})
        BY DEF FaultsTypeOK
    <2>. QED
        BY <1>2, <2>1
<1>. QED
    BY <1>1, <1>2, LogMoves

LEMMA PendingTyped ==
    ASSUME FaultsTypeOK, PipelineStep
    PROVE  pending' \in SUBSET OrderEvent
<1>1. ASSUME NEW r \in Request PROVE Event(r) \in OrderEvent
    BY DEF Event, OrderEvent, FaultsTypeOK
<1>. QED
    BY <1>1, PendingMoves DEF FaultsTypeOK

LEMMA OffsetsTyped ==
    ASSUME FaultsTypeOK, PipelineStep
    PROVE  position' \in 0 .. Len(log') /\ committed' \in 0 .. position'
<1>1. /\ position \in Nat /\ committed \in Nat /\ Len(log) \in Nat /\ Len(log') \in Nat
      /\ committed <= position /\ position <= Len(log) /\ Len(log) <= Len(log')
    BY LogTyped DEF FaultsTypeOK
<1>2. \/ committed' = committed
      \/ CommitOffset
    BY OwnFrame
    DEF PipelineStep, Poll, consumerVars, SeckillVoucher, GetStock, Decr, UndoOver, UndoDup,
        Undo, Sadd, NextId, Send, CallFails, Producer, Deliver, Expire, Listener, Consume,
        Retry, DeadLetter, DeadLetterFails, AddSeckillVoucher, Preload, PreloadRead,
        PreloadSetnx, Crash, Restart
<1>3. CASE CommitOffset
    BY <1>1, <1>3 DEF CommitOffset
<1>4. CASE committed' = committed
    BY <1>1, <1>4, ConsumerMoves DEF HasRecord
<1>. QED
    BY <1>2, <1>3, <1>4

LEMMA ThreadsTyped ==
    ASSUME FaultsTypeOK, PipelineStep
    PROVE  icr' \in Nat /\ pc' \in [Request -> Phase] /\ orderId' \in [Request -> Nat]
<1>1. ASSUME NEW r \in Request, SeckillVoucher(r)
      PROVE  icr' \in Nat /\ pc' \in [Request -> Phase] /\ orderId' \in [Request -> Nat]
    <2>1. pc' \in [Request -> Phase]
        BY <1>1, RequestMove DEF FaultsTypeOK
    <2>2. icr' \in Nat /\ icr + 1 \in Nat
        BY <1>1, RequestMove DEF FaultsTypeOK
    <2>3. orderId' = orderId \/ orderId' = [orderId EXCEPT ![r] = icr + 1]
        BY <1>1, RequestMove
    <2>4. orderId' \in [Request -> Nat]
        BY <2>2, <2>3 DEF FaultsTypeOK
    <2>. QED
        BY <2>1, <2>2, <2>4
<1>2. CASE Crash
    <2>1. pc' \in [Request -> Phase]
        BY <1>2 DEF Crash, Phase, Ended, FaultsTypeOK
    <2>. QED
        BY <1>2, <2>1 DEF Crash, redisVars, FaultsTypeOK
<1>3. CASE UNCHANGED <<pc, orderId, icr>>
    BY <1>3 DEF FaultsTypeOK
<1>. QED
    BY <1>1, <1>2, <1>3, ThreadsMove

LEMMA RedisTyped ==
    ASSUME FaultsTypeOK, PipelineStep
    PROVE  /\ stock' \in [Voucher -> Int \cup {Absent}]
           /\ bought' \in [Voucher -> SUBSET User]
           /\ snapshot' \in [Voucher -> Nat \cup {Absent}]
<1>. USE DEF FaultsTypeOK
<1>0. \A v \in Voucher : Counter(v) \in Int
    BY DEF Counter
<1>1. ASSUME NEW r \in Request, SeckillVoucher(r)
      PROVE  /\ stock' \in [Voucher -> Int \cup {Absent}]
             /\ bought' \in [Voucher -> SUBSET User]
             /\ snapshot' \in [Voucher -> Nat \cup {Absent}]
    <2>1. stock' \in [Voucher -> Int \cup {Absent}]
        <3>0. Counter(r.voucher) - 1 \in Int /\ Counter(r.voucher) + 1 \in Int
            BY <1>0
        <3>1. CASE Decr(r)
            BY <3>0, <3>1 DEF Decr
        <3>2. CASE UndoOver(r) \/ UndoDup(r)
            BY <3>0, <3>2 DEF UndoOver, UndoDup, Undo
        <3>. QED
            BY <1>1, <3>1, <3>2, OwnFrame
    <2>2. bought' \in [Voucher -> SUBSET User]
        <3>1. \/ bought' = bought
              \/ bought' = [bought EXCEPT ![r.voucher] = @ \cup {r.user}]
            BY <1>1, OwnFrame DEF Sadd
        <3>2. bought \in [Voucher -> SUBSET User] /\ r.user \in User
            OBVIOUS
        <3>. QED
            BY <3>1, <3>2
    <2>3. snapshot' = snapshot
        BY <1>1, OwnFrame
    <2>. QED
        BY <2>1, <2>2, <2>3
<1>2. ASSUME NEW v \in Voucher, PreloadSetnx(v)
      PROVE  /\ stock' \in [Voucher -> Int \cup {Absent}]
             /\ bought' \in [Voucher -> SUBSET User]
             /\ snapshot' \in [Voucher -> Nat \cup {Absent}]
    BY <1>2 DEF PreloadSetnx
<1>3. CASE PreloadRead \/ Crash
    BY <1>3 DEF PreloadRead, Crash, redisVars
<1>4. \/ UNCHANGED <<stock, bought, snapshot>>
      \/ \E r \in Request : SeckillVoucher(r)
      \/ \E v \in Voucher : PreloadSetnx(v)
      \/ PreloadRead \/ Crash
    BY DEF PipelineStep, Poll, redisVars, processVars, Producer, Deliver, Expire, Listener,
           Consume, Retry, DeadLetter, DeadLetterFails, CommitOffset, AddSeckillVoucher,
           Preload, Restart
<1>. QED
    BY <1>1, <1>2, <1>3, <1>4

\* The steps around the pipeline, each of which touches little.
LEMMA FaultsTyped ==
    ASSUME FaultsTypeOK
    PROVE  /\ Save => FaultsTypeOK'
           /\ RedisRestarts => FaultsTypeOK'
           /\ \A r \in Request : NextIdAgain(r) \/ Resend(r) => FaultsTypeOK'
           /\ WriteMalformed => FaultsTypeOK'
<1>. USE DEF FaultsTypeOK, redisVars, requestVars, consumerVars, dbVars, processVars, kafkaVars
<1>1. Save => FaultsTypeOK'
    BY DEF Save, vars
<1>2. RedisRestarts => FaultsTypeOK'
    <2>. SUFFICES ASSUME RedisRestarts PROVE FaultsTypeOK'
        OBVIOUS
    <2>1. forgotten' \in SUBSET Nat
        BY DEF RedisRestarts
    <2>. QED
        BY <2>1 DEF RedisRestarts
<1>3. ASSUME NEW r \in Request, Resend(r) PROVE FaultsTypeOK'
    <2>1. Counter(r.voucher) - 1 \in Int /\ Counter(r.voucher) + 1 \in Int
        BY DEF Counter
    <2>2. stock' \in [Voucher -> Int \cup {Absent}]
        BY SMTT(30), <1>3, <2>1 DEF Resend
    <2>3. bought' \in [Voucher -> SUBSET User]
        <3>1. \/ bought' = bought
              \/ bought' = [bought EXCEPT ![r.voucher] = @ \cup {r.user}]
            BY <1>3 DEF Resend
        <3>2. r.user \in User
            OBVIOUS
        <3>. QED
            BY <3>1, <3>2
    <2>4. icr' \in Nat
        BY <1>3 DEF Resend
    <2>5. /\ UNCHANGED <<pc, orderId, pending, log, position, committed, dbStock>>
          /\ UNCHANGED <<snapshot, offered, orders, saved, forgotten, again>>
        BY <1>3 DEF Resend
    <2>6. losses' \in Nat /\ malformed' \in Nat /\ resent' \in Nat
        BY <1>3 DEF Resend
    <2>. QED
        BY <2>2, <2>3, <2>4, <2>5, <2>6
<1>4. ASSUME WriteMalformed PROVE FaultsTypeOK'
    <2>1. log' \in Seq(OrderEvent \cup {Malformed}) /\ Len(log') = Len(log) + 1
        BY <1>4 DEF WriteMalformed
    <2>. QED
        BY <1>4, <2>1 DEF WriteMalformed
<1>5. ASSUME NEW r \in Request, NextIdAgain(r) PROVE FaultsTypeOK'
    <2>1. PICK id \in forgotten :
              /\ forgotten' = forgotten \ {id} /\ again' = again \cup {id}
              /\ orderId' = [orderId EXCEPT ![r] = id] \/ orderId' = orderId
              /\ pc' = [pc EXCEPT ![r] = "send"] \/ pc' = [pc EXCEPT ![r] = "error"]
        BY <1>5 DEF NextIdAgain
    <2>2. orderId' \in [Request -> Nat]
        BY <2>1
    <2>3. pc' \in [Request -> Phase]
        BY <2>1 DEF Phase, Running, Ended
    <2>4. /\ UNCHANGED <<stock, bought, icr, pending, log, position, committed, dbStock>>
          /\ UNCHANGED <<snapshot, offered, orders, saved, losses, malformed, resent>>
        BY <1>5 DEF NextIdAgain
    <2>. QED
        BY <2>1, <2>2, <2>3, <2>4
<1>. QED
    BY <1>1, <1>2, <1>3, <1>4, <1>5

LEMMA PipelineTyped ==
    ASSUME FaultsTypeOK, PipelineStep, UNCHANGED faultVars
    PROVE  FaultsTypeOK'
<1>1. UNCHANGED <<saved, forgotten, again, losses, malformed, resent>>
    BY DEF faultVars
<1>. QED
    BY <1>1, RedisTyped, ThreadsTyped, PendingTyped, LogTyped, OffsetsTyped, TablesTyped
    DEF FaultsTypeOK

\* Each step of FaultsNext keeps the types.
LEMMA FaultsTypeStep ==
    ASSUME FaultsTypeOK, [FaultsNext]_allVars
    PROVE  FaultsTypeOK'
<1>1. CASE FaultsNext
    BY <1>1, PipelineTyped, FaultsTyped DEF FaultsNext
<1>2. CASE UNCHANGED allVars
    BY <1>2
    DEF allVars, faultVars, vars, redisVars, requestVars, consumerVars, dbVars, processVars,
        kafkaVars, FaultsTypeOK
<1>. QED
    BY <1>1, <1>2

----------------------------------------------------------------------------
(* The conjuncts of FaultsInv *)

\* What the steps around the pipeline, and stuttering, leave alone.
LEMMA AroundMoves ==
    ASSUME [FaultsNext]_allVars
    PROVE  \/ PipelineStep
           \/ /\ UNCHANGED <<pending, orders, dlt, dropped>>
              /\ UNCHANGED <<dbStock, offered, position, committed>>
              /\ log' = log \/ log' = Append(log, Malformed)
<1>. USE DEF allVars, faultVars, vars, redisVars, requestVars, consumerVars, dbVars,
             processVars, kafkaVars
<1>1. CASE Save \/ UNCHANGED allVars
    BY <1>1 DEF Save
<1>2. CASE RedisRestarts
    BY <1>2 DEF RedisRestarts
<1>3. CASE \E r \in Request : NextIdAgain(r) \/ Resend(r)
    BY <1>3 DEF NextIdAgain, Resend
<1>4. CASE WriteMalformed
    BY <1>4 DEF WriteMalformed
<1>. QED
    BY <1>1, <1>2, <1>3, <1>4 DEF FaultsNext

\* Where ids are drawn: in the pipeline, or again.
LEMMA IdsMove ==
    ASSUME [FaultsNext]_allVars
    PROVE  \/ PipelineStep /\ again' = again
           \/ \E r \in Request : NextIdAgain(r)
           \/ UNCHANGED <<pc, orderId, again>> /\ (icr' = icr \/ icr' = icr + 1)
<1>. USE DEF allVars, faultVars, vars, redisVars, requestVars, consumerVars, dbVars,
             processVars, kafkaVars
<1>1. CASE Save \/ UNCHANGED allVars
    BY <1>1 DEF Save
<1>2. CASE RedisRestarts
    BY <1>2 DEF RedisRestarts
<1>3. CASE \E r \in Request : Resend(r)
    BY <1>3 DEF Resend
<1>4. CASE WriteMalformed
    BY <1>4 DEF WriteMalformed
<1>. QED
    BY <1>1, <1>2, <1>3, <1>4 DEF FaultsNext

\* An id given again was forgotten, and the request that gets it had none.
LEMMA DrawnAgain ==
    ASSUME FaultsTypeOK, ForgottenWereGiven, NEW r \in Request, NextIdAgain(r)
    PROVE  \E id \in 1 .. icr :
              /\ pc[r] = "nextId" /\ icr' = icr
              /\ id \in again' /\ again \subseteq again'
              /\ \/ /\ orderId' = [orderId EXCEPT ![r] = id]
                    /\ pc' = [pc EXCEPT ![r] = "send"]
                 \/ orderId' = orderId /\ pc' = [pc EXCEPT ![r] = "error"]
BY DEF NextIdAgain, ForgottenWereGiven, redisVars

\* An id once drawn is kept.
LEMMA DrawnIdStays ==
    ASSUME FaultsTypeOK, IdsAreDrawnOnce, ForgottenWereGiven, [FaultsNext]_allVars,
           NEW r \in Request, orderId[r] # 0
    PROVE  Event(r)' = Event(r) /\ orderId'[r] = orderId[r]
<1>1. orderId'[r] = orderId[r]
    <2>1. ASSUME NEW s \in Request, SeckillVoucher(s) PROVE orderId'[r] = orderId[r]
        <3>1. \/ orderId' = orderId
              \/ pc[s] = "nextId" /\ orderId' = [orderId EXCEPT ![s] = icr + 1]
            BY <2>1, RequestMove
        <3>2. pc[s] = "nextId" => s # r
            BY DEF IdsAreDrawnOnce
        <3>. QED
            BY <3>1, <3>2 DEF FaultsTypeOK
    <2>2. ASSUME NEW s \in Request, NextIdAgain(s) PROVE orderId'[r] = orderId[r]
        <3>1. s # r
            BY <2>2, DrawnAgain DEF IdsAreDrawnOnce
        <3>2. orderId' = orderId \/ \E id : orderId' = [orderId EXCEPT ![s] = id]
            BY <2>2, DrawnAgain
        <3>. QED
            BY <3>1, <3>2 DEF FaultsTypeOK
    <2>. QED
        BY <2>1, <2>2, IdsMove, ThreadsMove DEF Crash
<1>. QED
    BY <1>1 DEF Event

LEMMA IdsDrawnStep ==
    ASSUME FaultsTypeOK, IdsAreDrawnOnce, ForgottenWereGiven, [FaultsNext]_allVars
    PROVE  IdsAreDrawnOnce'
<1>0. icr \in Nat /\ \A r \in Request : orderId[r] \in Nat
    BY DEF FaultsTypeOK
<1>1. ASSUME NEW r \in Request, SeckillVoucher(r), again' = again PROVE IdsAreDrawnOnce'
    <2>1. PICK s \in Phase :
              /\ pc' = [pc EXCEPT ![r] = s]
              /\ \/ /\ UNCHANGED <<icr, orderId>>
                    /\ s # "send" /\ (s \in Early => pc[r] \in Early)
                 \/ /\ pc[r] = "nextId" /\ icr' = icr + 1
                    /\ \/ s = "send" /\ orderId' = [orderId EXCEPT ![r] = icr + 1]
                       \/ s = "error" /\ orderId' = orderId
        BY <1>1, RequestMove
    <2>2. \A q \in Request : pc'[q] = IF q = r THEN s ELSE pc[q]
        BY <2>1 DEF FaultsTypeOK
    <2>3. CASE UNCHANGED <<icr, orderId>> /\ s # "send" /\ (s \in Early => pc[r] \in Early)
        BY <1>1, <2>2, <2>3 DEF IdsAreDrawnOnce, Early
    <2>4. CASE /\ pc[r] = "nextId" /\ icr' = icr + 1
               /\ s = "send" /\ orderId' = [orderId EXCEPT ![r] = icr + 1]
        <3>1. \A q \in Request : orderId'[q] = IF q = r THEN icr + 1 ELSE orderId[q]
            BY <2>4 DEF FaultsTypeOK
        <3>2. icr + 1 # 0 /\ \A q \in Request : orderId[q] # icr + 1 /\ orderId[q] <= icr + 1
            BY <1>0 DEF IdsAreDrawnOnce
        <3>3. \A q \in Request :
                 pc'[q] \in {"idle", "decr", "undoOver", "sadd", "undoDup", "nextId"}
                    => orderId'[q] = 0
            BY <2>2, <2>4, <3>1 DEF IdsAreDrawnOnce
        <3>4. \A q \in Request : pc'[q] = "send" => orderId'[q] # 0
            BY <2>2, <2>4, <3>1, <3>2 DEF IdsAreDrawnOnce
        <3>5. \A q \in Request : orderId'[q] <= icr'
            BY <1>0, <2>4, <3>1, <3>2
        <3>6. \A p, q \in Request :
                 orderId'[p] = orderId'[q] /\ orderId'[p] # 0 => p = q \/ orderId'[p] \in again'
            BY <1>1, <3>1, <3>2 DEF IdsAreDrawnOnce
        <3>. QED
            BY <3>3, <3>4, <3>5, <3>6 DEF IdsAreDrawnOnce
    <2>5. CASE icr' = icr + 1 /\ s = "error" /\ orderId' = orderId
        BY <1>0, <1>1, <2>2, <2>5 DEF IdsAreDrawnOnce
    <2>. QED
        BY <2>1, <2>3, <2>4, <2>5
<1>2. CASE Crash /\ again' = again
    <2>1. UNCHANGED <<orderId, icr>> /\ \A q \in Request : pc'[q] = pc[q] \/ pc'[q] = "crashed"
        BY <1>2 DEF Crash, redisVars
    <2>. QED
        BY <1>2, <2>1 DEF IdsAreDrawnOnce
<1>3. CASE UNCHANGED <<pc, orderId, again>> /\ (icr' = icr \/ icr' = icr + 1)
    BY <1>0, <1>3 DEF IdsAreDrawnOnce
<1>4. ASSUME NEW r \in Request, NextIdAgain(r) PROVE IdsAreDrawnOnce'
    <2>1. PICK id \in 1 .. icr :
              /\ pc[r] = "nextId" /\ icr' = icr
              /\ id \in again' /\ again \subseteq again'
              /\ \/ /\ orderId' = [orderId EXCEPT ![r] = id]
                    /\ pc' = [pc EXCEPT ![r] = "send"]
                 \/ orderId' = orderId /\ pc' = [pc EXCEPT ![r] = "error"]
        BY <1>4, DrawnAgain
    <2>2. CASE orderId' = orderId /\ pc' = [pc EXCEPT ![r] = "error"]
        <3>1. \A q \in Request : pc'[q] = IF q = r THEN "error" ELSE pc[q]
            BY <2>2 DEF FaultsTypeOK
        <3>2. \A p, q \in Request :
                 orderId[p] = orderId[q] /\ orderId[p] # 0 => p = q \/ orderId[p] \in again'
            BY <2>1 DEF IdsAreDrawnOnce
        <3>3. \A q \in Request :
                 pc'[q] \in {"idle", "decr", "undoOver", "sadd", "undoDup", "nextId"}
                    => orderId[q] = 0
            BY <3>1 DEF IdsAreDrawnOnce
        <3>4. \A q \in Request :
                 (pc'[q] = "send" => orderId[q] # 0) /\ orderId[q] <= icr
            BY <3>1 DEF IdsAreDrawnOnce
        <3>. QED
            BY <2>1, <2>2, <3>2, <3>3, <3>4 DEF IdsAreDrawnOnce
    <2>3. CASE orderId' = [orderId EXCEPT ![r] = id] /\ pc' = [pc EXCEPT ![r] = "send"]
        <3>1. \A q \in Request : /\ pc'[q] = IF q = r THEN "send" ELSE pc[q]
                               /\ orderId'[q] = IF q = r THEN id ELSE orderId[q]
            BY <2>3 DEF FaultsTypeOK
        <3>2. id # 0 /\ id <= icr'
            BY <1>0, <2>1
        <3>3. ASSUME NEW p \in Request, NEW q \in Request,
                     orderId'[p] = orderId'[q], orderId'[p] # 0
              PROVE  p = q \/ orderId'[p] \in again'
            <4>1. CASE p = r \/ q = r
                <5>1. orderId'[p] = id
                    BY <3>1, <3>3, <4>1
                <5>. QED
                    BY <2>1, <5>1
            <4>2. CASE p # r /\ q # r
                <5>1. orderId[p] = orderId[q] /\ orderId[p] # 0 /\ orderId'[p] = orderId[p]
                    BY <3>1, <3>3, <4>2
                <5>. QED
                    BY <2>1, <5>1 DEF IdsAreDrawnOnce
            <4>. QED
                BY <4>1, <4>2
        <3>. QED
            BY <2>1, <3>1, <3>2, <3>3 DEF IdsAreDrawnOnce
    <2>. QED
        BY <2>1, <2>2, <2>3
<1>. QED
    BY <1>1, <1>2, <1>3, <1>4, IdsMove, ThreadsMove

\* Redis forgets nothing it has not given, and that only when it restarts.
LEMMA ForgottenStep ==
    ASSUME FaultsTypeOK, ForgottenWereGiven, [FaultsNext]_allVars
    PROVE  ForgottenWereGiven'
<1>. USE DEF ForgottenWereGiven
<1>0. icr \in Nat /\ losses \in Nat /\ saved.icr \in Nat
    BY DEF FaultsTypeOK
<1>1. CASE PipelineStep /\ UNCHANGED faultVars
    <2>1. icr' = icr \/ icr' = icr + 1
        BY <1>1, ThreadsMove, RequestMove DEF Crash, redisVars
    <2>. QED
        BY <1>0, <1>1, <2>1 DEF faultVars
<1>2. CASE RedisRestarts
    <2>1. /\ losses' = losses + 1 /\ icr' = icr /\ saved' = saved
          /\ forgotten' = saved.forgotten \cup (saved.icr + 1 .. icr)
        BY <1>2 DEF RedisRestarts
    <2>2. forgotten' \subseteq 1 .. icr
        BY <1>0, <2>1
    <2>. QED
        BY <1>0, <2>1, <2>2
<1>3. CASE Save
    BY <1>3 DEF Save, vars, redisVars
<1>4. ASSUME NEW r \in Request, NextIdAgain(r) PROVE ForgottenWereGiven'
    <2>1. /\ UNCHANGED <<icr, saved, losses>>
          /\ forgotten' \subseteq forgotten
        BY <1>4 DEF NextIdAgain, redisVars
    <2>. QED
        BY <2>1
<1>5. ASSUME NEW r \in Request, Resend(r) PROVE ForgottenWereGiven'
    <2>1. /\ UNCHANGED <<forgotten, saved, losses>>
          /\ icr' = icr \/ icr' = icr + 1
        BY <1>5 DEF Resend
    <2>. QED
        BY <1>0, <2>1
<1>6. CASE WriteMalformed \/ UNCHANGED allVars
    BY <1>6 DEF WriteMalformed, allVars, faultVars, vars, redisVars
<1>. QED
    BY <1>1, <1>2, <1>3, <1>4, <1>5, <1>6 DEF FaultsNext

\* What is on its way or stored was there before, or is being sent.
LEMMA OnlyRequestsSellStep ==
    ASSUME FaultsTypeOK, IdsAreDrawnOnce, ForgottenWereGiven, OnlyRequestsSell,
           [FaultsNext]_allVars
    PROVE  OnlyRequestsSell'
<1>. DEFINE Sold == pending \cup Records \cup orders
<1>1. ASSUME NEW e \in Sold', e # Malformed, e \notin Sold
      PROVE  \E r \in Request : orderId[r] # 0 /\ e = Event(r)
    <2>1. ASSUME NEW x PROVE log' = Append(log, x) => Records' \subseteq Records \cup {x}
        BY DEF Records, FaultsTypeOK
    <2>2. Records' \subseteq Records \cup pending \cup {Malformed}
        BY <2>1, AroundMoves, LogMoves DEF Records
    <2>3. orders' \subseteq orders \cup Records
        <3>1. HasRecord => Current \in Records
            BY DEF HasRecord, Current, Records, FaultsTypeOK
        <3>. QED
            BY <3>1, AroundMoves, TablesMove
            DEF OnOrderCreated, Skip, Persist, Drop, AddSeckillVoucher
    <2>4. PICK r \in Request : Send(r) /\ e = Event(r)
        BY <1>1, <2>2, <2>3, AroundMoves, PendingMoves
    <2>5. orderId[r] # 0
        BY <2>4 DEF Send, IdsAreDrawnOnce
    <2>. QED
        BY <2>4, <2>5
<1>2. ASSUME NEW e \in Sold', e # Malformed
      PROVE  \E r \in Request : orderId[r] # 0 /\ e = Event(r)
    BY <1>1, <1>2 DEF OnlyRequestsSell
<1>3. \A r \in Request : orderId[r] # 0 => Event(r)' = Event(r) /\ orderId'[r] = orderId[r]
    BY DrawnIdStays
<1>. QED
    BY <1>2, <1>3 DEF OnlyRequestsSell

\* existsById lets no second row of an id in.
LEMMA OneRowPerIdStep ==
    ASSUME OneRowPerId, [FaultsNext]_allVars
    PROVE  OneRowPerId'
<1>1. \/ orders' = orders
      \/ ~Exists(Current) /\ orders' = orders \cup {Current}
    BY AroundMoves, TablesMove DEF OnOrderCreated, Skip, Persist, Drop, AddSeckillVoucher
<1>. QED
    BY <1>1 DEF OneRowPerId, Exists

\* The row of a voucher and what was offered of it appear together.
LEMMA RowsOfOffersStep ==
    ASSUME FaultsTypeOK, RowsOfOffers, [FaultsNext]_allVars
    PROVE  RowsOfOffers'
<1>1. CASE UNCHANGED <<dbStock, offered>>
    BY <1>1 DEF RowsOfOffers
<1>2. CASE HasRecord /\ ~Stuck /\ OnOrderCreated(Current) /\ offered' = offered
    <2>1. CASE Skip(Current) \/ Drop(Current)
        BY <1>2, <2>1 DEF Skip, Drop, RowsOfOffers
    <2>2. CASE Persist(Current)
        <3>1. Current.voucher \in Voucher
            BY <1>2, PolledTyped DEF OrderEvent
        <3>2. /\ dbStock[Current.voucher] # Absent /\ dbStock[Current.voucher] \in Nat
              /\ dbStock' = [dbStock EXCEPT ![Current.voucher] = dbStock[Current.voucher] - 1]
            BY <2>2, <3>1 DEF Persist, DecreaseStock, FaultsTypeOK
        <3>3. dbStock[Current.voucher] - 1 # Absent
            BY <3>2
        <3>4. \A v \in Voucher : dbStock'[v] = Absent <=> dbStock[v] = Absent
            BY <3>1, <3>2, <3>3 DEF FaultsTypeOK
        <3>. QED
            BY <1>2, <3>4 DEF RowsOfOffers
    <2>. QED
        BY <1>2, <2>1, <2>2 DEF OnOrderCreated
<1>3. ASSUME NEW w \in Voucher, NEW q \in Quantity, AddSeckillVoucher(w, q)
      PROVE  RowsOfOffers'
    <2>1. q # Absent
        OBVIOUS
    <2>. QED
        BY <1>3, <2>1 DEF AddSeckillVoucher, RowsOfOffers, FaultsTypeOK
<1>. QED
    BY <1>1, <1>2, <1>3, AroundMoves, TablesMove

\* What the listener's transaction does to one voucher's row and orders.
LEMMA PolledTransactionMoves ==
    ASSUME FaultsTypeOK, HasRecord, ~Stuck, OnOrderCreated(Current), NEW v \in Voucher
    PROVE  \/ dbStock'[v] = dbStock[v] /\ OrdersOf(v)' = OrdersOf(v)
           \/ /\ v = Current.voucher /\ dbStock[v] \in Nat /\ dbStock[v] > 0
              /\ dbStock'[v] = dbStock[v] - 1
              /\ Current \notin orders /\ OrdersOf(v)' = OrdersOf(v) \cup {Current}
<1>0. Current \in OrderEvent /\ Current.voucher \in Voucher
    BY PolledTyped DEF OrderEvent
<1>1. CASE Skip(Current) \/ Drop(Current)
    BY <1>1 DEF Skip, Drop, OrdersOf
<1>2. CASE Persist(Current)
    <2>1. Current \notin orders
        BY <1>2 DEF Persist, Exists
    <2>2. CASE v = Current.voucher
        BY <1>0, <1>2, <2>1, <2>2 DEF Persist, DecreaseStock, OrdersOf, FaultsTypeOK
    <2>3. CASE v # Current.voucher
        BY <1>0, <1>2, <2>3 DEF Persist, DecreaseStock, OrdersOf, FaultsTypeOK
    <2>. QED
        BY <2>2, <2>3
<1>. QED
    BY <1>1, <1>2 DEF OnOrderCreated

LEMMA RowsConservedStep ==
    ASSUME FaultsTypeOK, RowsOfOffers, DbConservation, [FaultsNext]_allVars
    PROVE  DbConservation'
<1>. SUFFICES ASSUME NEW v \in Voucher
              PROVE  IF dbStock'[v] = Absent
                     THEN OrdersOf(v)' = {}
                     ELSE dbStock'[v] + Cardinality(OrdersOf(v)') = offered'[v]
    BY DEF DbConservation
<1>1. IsFiniteSet(OrdersOf(v)) /\ Cardinality(OrdersOf(v)) \in Nat
    BY FS_Subset, FS_CardinalityType DEF FaultsTypeOK, OrdersOf
<1>2. CASE UNCHANGED <<dbStock, orders, offered>>
    BY <1>2 DEF DbConservation, OrdersOf
<1>3. CASE HasRecord /\ ~Stuck /\ OnOrderCreated(Current) /\ offered' = offered
    <2>1. CASE dbStock'[v] = dbStock[v] /\ OrdersOf(v)' = OrdersOf(v)
        BY <1>3, <2>1 DEF DbConservation
    <2>2. CASE /\ v = Current.voucher /\ dbStock[v] \in Nat /\ dbStock[v] > 0
               /\ dbStock'[v] = dbStock[v] - 1
               /\ Current \notin orders /\ OrdersOf(v)' = OrdersOf(v) \cup {Current}
        <3>1. Current \notin OrdersOf(v)
            BY <2>2 DEF OrdersOf
        <3>2. Cardinality(OrdersOf(v) \cup {Current}) = Cardinality(OrdersOf(v)) + 1
            BY <1>1, <3>1, FS_AddElement
        <3>3. dbStock[v] # Absent /\ dbStock[v] - 1 # Absent
            BY <2>2
        <3>. QED
            BY <1>1, <1>3, <2>2, <3>2, <3>3 DEF DbConservation
    <2>. QED
        BY <1>3, <2>1, <2>2, PolledTransactionMoves
<1>4. ASSUME NEW w \in Voucher, NEW q \in Quantity, AddSeckillVoucher(w, q)
      PROVE  IF dbStock'[v] = Absent
             THEN OrdersOf(v)' = {}
             ELSE dbStock'[v] + Cardinality(OrdersOf(v)') = offered'[v]
    <2>1. /\ dbStock[w] = Absent /\ dbStock' = [dbStock EXCEPT ![w] = q]
          /\ offered' = [offered EXCEPT ![w] = q] /\ OrdersOf(v)' = OrdersOf(v)
          /\ DOMAIN dbStock = Voucher /\ DOMAIN offered = Voucher
        BY <1>4 DEF AddSeckillVoucher, OrdersOf, FaultsTypeOK
    <2>2. CASE w = v
        <3>1. Cardinality(OrdersOf(v)) = 0
            BY <2>1, <2>2, FS_EmptySet DEF DbConservation
        <3>2. dbStock'[v] = q /\ offered'[v] = q /\ q \in Nat /\ q # Absent
            BY <2>1, <2>2
        <3>. QED
            BY <2>1, <3>1, <3>2
    <2>3. CASE w # v
        BY <2>1, <2>3 DEF DbConservation
    <2>. QED
        BY <2>2, <2>3
<1>. QED
    BY <1>2, <1>3, <1>4, AroundMoves, TablesMove

\* The consumer gets past a record only by settling it, and what is settled stays.
LEMMA PassedIsSettledStep ==
    ASSUME FaultsTypeOK, IdsAreDrawnOnce, OnlyRequestsSell, PassedIsSettled,
           [FaultsNext]_allVars
    PROVE  PassedIsSettled'
<1>1. /\ position \in Nat /\ position <= Len(log) /\ committed \in Nat /\ committed <= position
      /\ log \in Seq(OrderEvent \cup {Malformed})
    BY DEF FaultsTypeOK
<1>2. ASSUME NEW k \in 1 .. position PROVE log'[k] = log[k]
    <2>1. k \in 1 .. Len(log)
        BY <1>1
    <2>2. CASE log' = Append(log, Malformed)
        BY <1>1, <2>1, <2>2
    <2>. QED
        BY <2>1, <2>2, AroundMoves, LogTyped
<1>3. orders \subseteq orders' /\ dlt \subseteq dlt' /\ dropped \subseteq dropped'
    BY AroundMoves, PipelineIsNext, SettledStays
<1>0. again \subseteq again'
    BY IdsMove DEF NextIdAgain
<1>4. ASSUME NEW k \in 1 .. position
      PROVE  /\ log'[k] # Malformed
             /\ \/ log'[k] \in orders' \cup dlt' \/ log'[k].id \in dropped'
                \/ Mistaken(log[k])'
    <2>1. log'[k] = log[k]
        BY <1>2
    <2>2. Mistaken(log[k]) => Mistaken(log[k])'
        BY <1>0, <1>3, <2>1 DEF Mistaken
    <2>. QED
        BY <1>3, <2>1, <2>2 DEF PassedIsSettled
<1>5. ASSUME HasRecord, ~Stuck, OnOrderCreated(Current)
      PROVE  \/ Current \in orders' \/ Current.id \in dropped'
             \/ Current.id \in again' /\ \E o \in orders' : o.id = Current.id
    <2>1. CASE Skip(Current)
        <3>1. PICK o \in orders : o.id = Current.id
            BY <2>1 DEF Skip, Exists
        <3>2. /\ Current \in Records /\ Current # Malformed
              /\ o # Malformed
            BY <1>5, PolledTyped DEF Records, Current, FaultsTypeOK
        <3>3. PICK q, r \in Request :
                  orderId[q] # 0 /\ Current = Event(q) /\ orderId[r] # 0 /\ o = Event(r)
            BY <3>2 DEF OnlyRequestsSell
        <3>4. q = r \/ orderId[q] \in again
            BY <3>1, <3>3 DEF Event, IdsAreDrawnOnce
        <3>5. orderId[q] = Current.id
            BY <3>3 DEF Event
        <3>. QED
            BY <1>0, <2>1, <3>1, <3>3, <3>4, <3>5 DEF Skip
    <2>2. CASE Persist(Current) \/ Drop(Current)
        BY <2>2 DEF Persist, Drop
    <2>. QED
        BY <1>5, <2>1, <2>2 DEF OnOrderCreated
<1>6. CASE position' = position \/ position' = committed
    BY <1>1, <1>4, <1>6 DEF PassedIsSettled
<1>7. CASE /\ HasRecord /\ ~Stuck /\ position' = position + 1 /\ log' = log
           /\ OnOrderCreated(Current) \/ Current \in dlt'
    <2>2. log'[position + 1] = Current
        BY <1>7 DEF Current
    <2>1. /\ log'[position + 1] # Malformed
          /\ \/ log'[position + 1] \in orders' \cup dlt' \/ log'[position + 1].id \in dropped'
             \/ /\ log'[position + 1].id \in again'
                /\ \E o \in orders' : o.id = log'[position + 1].id
        BY <1>5, <1>7, <2>2, PolledTyped
    <2>3. \A k \in 1 .. position' : k \in 1 .. position \/ k = position + 1
        BY <1>1, <1>7
    <2>. QED
        BY <1>4, <2>1, <2>3 DEF PassedIsSettled, Mistaken
<1>. QED
    BY <1>6, <1>7, AroundMoves, ConsumerMoves

----------------------------------------------------------------------------
(* While Redis forgets nothing *)

\* Then a step is one of Seckill's or repeats a command.
LEMMA UnhurtMoves ==
    ASSUME Unhurt', FaultsTypeOK, ForgottenWereGiven, [FaultsNext]_allVars
    PROVE  /\ Unhurt
           /\ \/ [Next]_vars /\ resent' = resent
              \/ \E r \in Request : Resend(r)
<1>1. losses \in Nat /\ malformed \in Nat
    BY DEF FaultsTypeOK
<1>2. ~RedisRestarts /\ ~WriteMalformed
    BY <1>1 DEF RedisRestarts, WriteMalformed, Unhurt
<1>3. losses = 0 /\ malformed = 0
    BY <1>2 DEF Unhurt, FaultsNext, Save, NextIdAgain, Resend, allVars, faultVars
<1>4. ASSUME NEW r \in Request PROVE ~NextIdAgain(r)
    BY <1>3 DEF NextIdAgain, ForgottenWereGiven
<1>5. \/ [Next]_vars /\ resent' = resent
      \/ \E r \in Request : Resend(r)
    BY <1>2, <1>4, PipelineIsNext DEF FaultsNext, Save, allVars, faultVars
<1>. QED
    BY <1>3, <1>5 DEF Unhurt

\* What a repeated command moves: a counter by one, or the set of buyers.
LEMMA ResendMoves ==
    ASSUME TypeOK, Loaded, NEW r \in Request, Resend(r)
    PROVE  /\ UNCHANGED <<requestVars, consumerVars, dbVars, processVars, kafkaVars>>
           /\ resent' = resent + 1
           /\ icr' >= icr /\ icr' \in Nat
           /\ bought' \in [Voucher -> SUBSET User]
           /\ \A v \in Voucher : bought[v] \subseteq bought'[v]
           /\ stock' \in [Voucher -> Int \cup {Absent}]
           /\ \A v \in Voucher :
                 \/ stock'[v] = stock[v]
                 \/ stock[v] \in Int /\ stock'[v] \in {stock[v] - 1, stock[v] + 1}
<1>. USE DEF TypeOK
<1>1. /\ UNCHANGED <<requestVars, consumerVars, dbVars, processVars, kafkaVars>>
      /\ resent' = resent + 1
      /\ icr' >= icr /\ icr' \in Nat
    BY DEF Resend
<1>2. /\ bought' \in [Voucher -> SUBSET User]
      /\ \A v \in Voucher : bought[v] \subseteq bought'[v]
    <2>1. \/ bought' = bought
          \/ bought' = [bought EXCEPT ![r.voucher] = @ \cup {r.user}]
        BY DEF Resend
    <2>2. /\ bought \in [Voucher -> SUBSET User]
          /\ r.user \in User /\ r.voucher \in Voucher
        OBVIOUS
    <2>. HIDE DEF TypeOK
    <2>. QED
        BY <2>1, <2>2
<1>3. Counter(r.voucher) = stock[r.voucher] /\ stock[r.voucher] \in Int
    BY DEF Counter, Loaded, Resend
<1>4. \/ stock' = stock
      \/ \E i \in {stock[r.voucher] - 1, stock[r.voucher] + 1} :
            stock' = [stock EXCEPT ![r.voucher] = i]
    BY <1>3 DEF Resend
<1>5. stock \in [Voucher -> Int \cup {Absent}] /\ r.voucher \in Voucher
    OBVIOUS
<1>6. /\ stock' \in [Voucher -> Int \cup {Absent}]
      /\ \A v \in Voucher :
            \/ stock'[v] = stock[v]
            \/ stock[v] \in Int /\ stock'[v] \in {stock[v] - 1, stock[v] + 1}
    <2>. HIDE DEF TypeOK
    <2>1. ASSUME NEW i \in {stock[r.voucher] - 1, stock[r.voucher] + 1},
                 stock' = [stock EXCEPT ![r.voucher] = i]
          PROVE  /\ stock' \in [Voucher -> Int \cup {Absent}]
                 /\ \A v \in Voucher : v # r.voucher => stock'[v] = stock[v]
                 /\ stock'[r.voucher] = i
        <3>1. i \in Int
            BY <1>3
        <3>. QED
            BY <1>5, <2>1, <3>1
    <2>. QED
        BY <1>3, <1>4, <1>5, <2>1
<1>. QED
    BY <1>1, <1>2, <1>6

\* The counter of v is off by no more than the commands repeated.
OffByResent(v) == IF stock[v] = Absent THEN ClaimsOn(v) = {} ELSE Drifts(v)

LEMMA DriftStep ==
    ASSUME TypeOK, Phases, Loaded, Finite, [Next]_vars, resent' = resent, resent \in Nat,
           NEW v \in Voucher, OffByResent(v)
    PROVE  OffByResent(v)'
<1>0. /\ IsFiniteSet(ClaimsOn(v)) /\ Cardinality(ClaimsOn(v)) \in Nat
      /\ stock[v] \in Int \cup {Absent}
      /\ offered[v] \in Nat \cup {Absent}
      /\ stock[v] # Absent => offered[v] \in Nat
    BY FS_CardinalityType DEF Finite, TypeOK, Loaded
<1>1. CASE stock'[v] = stock[v] /\ ClaimsOn(v)' = ClaimsOn(v)
    BY <1>0, <1>1, OfferedMoves DEF OffByResent, Drifts
<1>2. ASSUME NEW r \in Request, Decr(r), r.voucher = v, stock[v] \in Int,
             stock'[v] = stock[v] - 1, r \notin ClaimsOn(v),
             ClaimsOn(v)' = ClaimsOn(v) \cup {r}
      PROVE  OffByResent(v)'
    <2>1. Cardinality(ClaimsOn(v) \cup {r}) = Cardinality(ClaimsOn(v)) + 1
        BY <1>0, <1>2, FS_AddElement
    <2>2. Cardinality(ClaimsOn(v)') = Cardinality(ClaimsOn(v)) + 1
        BY <1>2, <2>1
    <2>3. stock[v] # Absent /\ stock[v] - 1 \in Int /\ stock[v] - 1 # Absent
        BY <1>2
    <2>4. offered'[v] = offered[v]
        BY <2>3, OfferedMoves
    <2>. QED
        BY <1>0, <1>2, <2>2, <2>3, <2>4 DEF OffByResent, Drifts
<1>3. ASSUME NEW r \in Request, stock[v] \in Int, stock'[v] = stock[v] + 1,
             r \in ClaimsOn(v), ClaimsOn(v)' = ClaimsOn(v) \ {r}
      PROVE  OffByResent(v)'
    <2>1. Cardinality(ClaimsOn(v)') = Cardinality(ClaimsOn(v)) - 1
        BY <1>0, <1>3, FS_RemoveElement
    <2>2. stock[v] # Absent /\ stock[v] + 1 \in Int /\ stock[v] + 1 # Absent
        BY <1>3
    <2>3. offered'[v] = offered[v]
        BY <2>2, OfferedMoves
    <2>. QED
        BY <1>0, <1>3, <2>1, <2>2, <2>3 DEF OffByResent, Drifts
<1>4. ASSUME stock[v] = Absent, stock'[v] = snapshot[v], snapshot[v] # Absent,
             ClaimsOn(v)' = ClaimsOn(v)
      PROVE  OffByResent(v)'
    <2>1. ClaimsOn(v)' = {} /\ Cardinality(ClaimsOn(v)') = 0
        BY <1>4, FS_EmptySet DEF OffByResent
    <2>2. snapshot[v] = offered[v] /\ snapshot[v] \in Nat /\ offered'[v] = offered[v]
        BY <1>4, OfferedMoves DEF Loaded, TypeOK
    <2>. QED
        BY <1>4, <2>1, <2>2 DEF OffByResent, Drifts
<1>5. CounterMove(v)
    BY CounterMoves
<1>. QED
    BY <1>1, <1>2, <1>3, <1>4, <1>5 DEF CounterMove

LEMMA DriftResend ==
    ASSUME TypeOK, Loaded, Finite, resent \in Nat, NEW v \in Voucher, OffByResent(v),
           NEW r \in Request, Resend(r)
    PROVE  OffByResent(v)'
<1>0. /\ Cardinality(ClaimsOn(v)) \in Nat
      /\ stock[v] \in Int \cup {Absent}
      /\ stock[v] # Absent => offered[v] \in Nat
    BY FS_CardinalityType DEF Finite, TypeOK, Loaded
<1>1. ClaimsOn(v)' = ClaimsOn(v) /\ offered' = offered /\ resent' = resent + 1
    BY ResendMoves DEF ClaimsOn, requestVars, dbVars
<1>2. CASE stock'[v] = stock[v]
    BY <1>0, <1>1, <1>2 DEF OffByResent, Drifts
<1>3. CASE stock[v] \in Int /\ stock'[v] \in {stock[v] - 1, stock[v] + 1}
    <2>1. stock[v] # Absent /\ stock'[v] # Absent /\ stock'[v] \in Int
        BY <1>3
    <2>. QED
        BY <1>0, <1>1, <1>3, <2>1 DEF OffByResent, Drifts
<1>. QED
    BY <1>2, <1>3, ResendMoves

\* No more DECRs win than there are units and repeated commands.
WonWithin(v) == Cardinality(WonOn(v)) <= Units(v) + resent

LEMMA WonStep ==
    ASSUME TypeOK, Phases, Loaded, Finite, [Next]_vars, resent' = resent, resent \in Nat,
           NEW v \in Voucher, OffByResent(v), WonWithin(v)
    PROVE  WonWithin(v)'
<1>0. /\ IsFiniteSet(WonOn(v)) /\ Cardinality(WonOn(v)) \in Nat
      /\ Cardinality(WonOn(v)) <= Units(v) + resent /\ Units(v) \in Nat
    BY FS_Subset, FS_CardinalityType, WonAreClaims DEF Finite, WonWithin, Units, TypeOK
<1>1. Units(v)' = Units(v) \/ (Units(v) = 0 /\ Units(v)' \in Nat)
    <2>1. \A i \in Nat : i # Absent
        OBVIOUS
    <2>. QED
        BY <2>1, OfferedMoves DEF Units
<1>2. CASE WonOn(v)' \subseteq WonOn(v)
    <2>1. Cardinality(WonOn(v)') <= Cardinality(WonOn(v)) /\ Cardinality(WonOn(v)') \in Nat
        BY <1>0, <1>2, FS_Subset, FS_CardinalityType
    <2>. QED
        BY <1>0, <1>1, <2>1 DEF WonWithin
<1>3. ASSUME NEW r \in Request, Decr(r), r.voucher = v, Counter(v) > 0
      PROVE  WonWithin(v)'
    <2>1. stock[v] # Absent /\ stock[v] \in Int /\ stock[v] > 0
        BY <1>3 DEF Counter, TypeOK, Decr, Loaded, Running
    <2>2. stock' = [stock EXCEPT ![v] = stock[v] - 1]
        BY <1>3, <2>1 DEF Decr, Counter
    <2>3. stock'[v] = stock[v] - 1 /\ stock'[v] # Absent
        BY <2>1, <2>2 DEF TypeOK
    <2>4. Drifts(v)'
        BY <2>3, DriftStep DEF OffByResent
    <2>5. /\ IsFiniteSet(ClaimsOn(v)') /\ Cardinality(ClaimsOn(v)') \in Nat
        BY ClaimsFinite, FS_CardinalityType DEF Finite
    <2>6. WonOn(v)' \subseteq ClaimsOn(v)'
        BY DEF WonOn, ClaimsOn
    <2>7. Cardinality(WonOn(v)') <= Cardinality(ClaimsOn(v)') /\ Cardinality(WonOn(v)') \in Nat
        BY <2>5, <2>6, FS_Subset, FS_CardinalityType
    <2>8. Units(v)' = offered'[v] /\ offered'[v] \in Nat
        <3>1. offered[v] # Absent /\ offered[v] \in Nat
            BY <2>1 DEF Loaded, TypeOK
        <3>2. offered'[v] = offered[v]
            BY <2>1, OfferedMoves
        <3>. QED
            BY <3>1, <3>2 DEF Units
    <2>. QED
        BY <2>1, <2>3, <2>4, <2>5, <2>7, <2>8 DEF Drifts, WonWithin
<1>4. WonOn(v)' \subseteq WonOn(v) \/ \E r \in Request : Decr(r) /\ r.voucher = v /\ Counter(v) > 0
    <2>. SUFFICES ASSUME NEW s \in Request, s.voucher = v, claim'[s] = "won", claim[s] # "won"
                  PROVE  Decr(s) /\ Counter(v) > 0
        BY DEF WonOn
    <2>1. PICK r \in Request : SeckillVoucher(r)
        BY RequestVarsMoves, CrashMove DEF requestVars
    <2>2. s = r
        BY <2>1, Others
    <2>. QED
        BY <2>1, <2>2, OwnFrame, OwnMove
<1>. QED
    BY <1>2, <1>3, <1>4

\* The record at hand is the event of a request, whose winning claim has a row.
LEMMA CurrentHasRow ==
    ASSUME TypeOK, Phases, Loaded, EventsFromRequests, HasRecord
    PROVE  /\ \E q \in Request : orderId[q] # 0 /\ Current = Event(q)
           /\ Current.voucher \in Voucher
           /\ dbStock[Current.voucher] # Absent
<1>1. Current \in Events
    BY CurrentTyped DEF Events, Records, Current
<1>2. PICK q \in Request : orderId[q] # 0 /\ Current = Event(q)
    BY <1>1 DEF EventsFromRequests
<1>3. claim[q] # "none" /\ q.voucher \in Voucher /\ Current.voucher = q.voucher
    BY <1>2 DEF Phases, PhaseOf, Event
<1>. QED
    BY <1>2, <1>3 DEF Loaded

LEMMA SoldOutStep ==
    ASSUME TypeOK, Phases, OneBuyer, Loaded, EventsFromRequests, DroppedIsSoldOut, [Next]_vars
    PROVE  DroppedIsSoldOut'
<1>0. /\ icr \in Nat /\ icr' \in Nat /\ icr <= icr' /\ orderId \in [Request -> Nat]
      /\ dropped \subseteq 1 .. icr
    BY RedisGrows, TypeStep DEF DroppedIsSoldOut, TypeOK
<1>1. dropped' \subseteq 1 .. icr'
    <2>1. CASE HasRecord /\ OnOrderCreated(Current)
        <3>1. PICK q \in Request : orderId[q] # 0 /\ Current = Event(q)
            BY <2>1, CurrentHasRow
        <3>2. Current.id \in 1 .. icr
            BY <1>0, <3>1 DEF Event, OneBuyer
        <3>3. dropped' \subseteq dropped \cup {Current.id}
            BY <2>1 DEF OnOrderCreated, Skip, Persist, Drop
        <3>. QED
            BY <1>0, <3>2, <3>3
    <2>2. CASE dropped' = dropped
        BY <1>0, <2>2
    <2>. QED
        BY <2>1, <2>2, DbMoves DEF AddSeckillVoucher
<1>2. ASSUME NEW r \in Request, orderId'[r] # 0, orderId'[r] \in dropped'
      PROVE  dbStock'[r.voucher] = 0 /\ Event(r)' \notin orders'
    <2>. DEFINE SoldOut == dbStock'[r.voucher] = 0 /\ Event(r)' \notin orders'
    <2>1. CASE orderId'[r] = orderId[r]
        <3>0. Event(r)' = Event(r) /\ r.voucher \in Voucher /\ orderId[r] # 0
            BY <1>2, <2>1 DEF Event
        <3>1. ASSUME orderId[r] \in dropped PROVE dbStock[r.voucher] = 0 /\ Event(r) \notin orders
            BY <3>0, <3>1 DEF DroppedIsSoldOut, LetDown
        <3>2. CASE UNCHANGED <<dbStock, orders, dropped, offered>>
            BY <1>2, <2>1, <3>0, <3>1, <3>2
        <3>3. CASE HasRecord /\ Skip(Current)
            BY <1>2, <2>1, <3>0, <3>1, <3>3 DEF Skip
        <3>4. CASE HasRecord /\ Persist(Current)
            <4>1. dbStock[r.voucher] = 0 /\ Event(r) \notin orders
                BY <1>2, <2>1, <3>1, <3>4 DEF Persist
            <4>2. Current.voucher # r.voucher
                BY <3>4, <4>1 DEF Persist, DecreaseStock
            <4>3. dbStock'[r.voucher] = 0
                BY <3>0, <3>4, <4>1, <4>2 DEF Persist, DecreaseStock, TypeOK
            <4>4. Event(r) # Current
                BY <4>2 DEF Event
            <4>. QED
                BY <3>0, <3>4, <4>1, <4>3, <4>4 DEF Persist
        <3>5. CASE HasRecord /\ Drop(Current)
            <4>1. CASE orderId[r] \in dropped
                BY <3>0, <3>1, <3>5, <4>1 DEF Drop
            <4>2. CASE orderId[r] \notin dropped
                <5>1. orderId[r] = Current.id
                    BY <1>2, <2>1, <3>5, <4>2 DEF Drop
                <5>2. PICK q \in Request : orderId[q] # 0 /\ Current = Event(q)
                    BY <3>5, CurrentHasRow
                <5>3. q = r
                    BY <3>0, <5>1, <5>2 DEF Event, OneBuyer
                <5>4. Current.voucher = r.voucher
                    BY <5>2, <5>3 DEF Event
                <5>5. dbStock[r.voucher] = 0
                    BY <3>5, <5>4, CurrentHasRow DEF Drop, NoStock
                <5>6. Event(r) \notin orders
                    BY <3>5, <5>2, <5>3 DEF Drop, Exists
                <5>. QED
                    BY <3>0, <3>5, <5>5, <5>6 DEF Drop
            <4>. QED
                BY <4>1, <4>2
        <3>6. ASSUME NEW w \in Voucher, NEW q \in Quantity, AddSeckillVoucher(w, q)
              PROVE  SoldOut
            <4>1. dbStock[r.voucher] = 0 /\ Event(r) \notin orders
                BY <1>2, <2>1, <3>1, <3>6 DEF AddSeckillVoucher
            <4>2. w # r.voucher
                BY <3>6, <4>1 DEF AddSeckillVoucher
            <4>. QED
                BY <3>0, <3>6, <4>1, <4>2 DEF AddSeckillVoucher, TypeOK
        <3>. QED
            BY <3>2, <3>3, <3>4, <3>5, <3>6, DbMoves DEF OnOrderCreated
    <2>2. CASE orderId'[r] # orderId[r]
        <3>1. PICK s \in Request : SeckillVoucher(s)
            BY <2>2, RequestVarsMoves, CrashMove DEF requestVars
        <3>2. NextId(s) /\ s = r
            BY <2>2, <3>1, Others, OwnFrame
        <3>3. orderId'[r] = icr + 1 /\ dropped' = dropped
            BY <1>0, <2>2, <3>2 DEF NextId, dbVars
        <3>. QED
            BY <1>0, <1>2, <3>3
    <2>. QED
        BY <2>1, <2>2
<1>. QED
    BY <1>1, <1>2 DEF DroppedIsSoldOut, LetDown

LEMMA UnhurtNext ==
    ASSUME UnhurtInv, Unhurt, FaultsTypeOK, DbConservation, [Next]_vars, resent' = resent
    PROVE  UnhurtInv'
<1>0. /\ TypeOK /\ Phases /\ OneBuyer /\ Loaded /\ EventsFromRequests /\ Finite
      /\ DroppedIsSoldOut /\ resent \in Nat
      /\ \A v \in Voucher : OffByResent(v) /\ WonWithin(v)
    BY DEF UnhurtInv, FaultsTypeOK, OffByResent, WonWithin
<1>1. TypeOK' /\ Phases' /\ OneBuyer' /\ EventsFromRequests' /\ Loaded'
    BY <1>0, TypeStep, PhasesStep, OneBuyerStep, EventsStep, LoadedStep
<1>2. Finite'
    <2>1. \A v \in Voucher : IsFiniteSet(ClaimsOn(v)')
        BY <1>0, ClaimsFinite DEF Finite
    <2>2. orders' = orders \/ orders' = orders \cup {Current}
        BY DbMoves DEF OnOrderCreated, Skip, Persist, Drop, AddSeckillVoucher
    <2>3. IsFiniteSet(orders')
        BY <1>0, <2>2, FS_AddElement DEF Finite
    <2>. QED
        BY <2>1, <2>3 DEF Finite
<1>3. ASSUME NEW v \in Voucher PROVE OffByResent(v)' /\ WonWithin(v)'
    BY <1>0, DriftStep, WonStep
<1>4. DroppedIsSoldOut'
    BY <1>0, SoldOutStep
<1>. QED
    BY <1>1, <1>2, <1>3, <1>4 DEF UnhurtInv, OffByResent, WonWithin

LEMMA UnhurtResend ==
    ASSUME UnhurtInv, Unhurt, FaultsTypeOK, NEW r \in Request, Resend(r)
    PROVE  UnhurtInv'
<1>0. /\ TypeOK /\ Phases /\ OneBuyer /\ Loaded /\ EventsFromRequests /\ Finite
      /\ DroppedIsSoldOut /\ resent \in Nat
      /\ \A v \in Voucher : OffByResent(v) /\ WonWithin(v)
    BY DEF UnhurtInv, FaultsTypeOK, OffByResent, WonWithin
<1>. USE DEF requestVars, consumerVars, dbVars, processVars, kafkaVars
<1>1. /\ UNCHANGED <<requestVars, consumerVars, dbVars, processVars, kafkaVars>>
      /\ resent' = resent + 1 /\ icr' >= icr /\ icr' \in Nat
      /\ bought' \in [Voucher -> SUBSET User]
      /\ \A v \in Voucher : bought[v] \subseteq bought'[v]
      /\ stock' \in [Voucher -> Int \cup {Absent}]
      /\ \A v \in Voucher :
            \/ stock'[v] = stock[v]
            \/ stock[v] \in Int /\ stock'[v] \in {stock[v] - 1, stock[v] + 1}
    BY <1>0, ResendMoves
<1>2. TypeOK'
    BY <1>0, <1>1 DEF TypeOK
<1>3. Phases' /\ EventsFromRequests'
    BY <1>0, <1>1 DEF Phases, PhaseOf, EventsFromRequests, Events, Records, Event
<1>4. OneBuyer'
    <2>1. \A s \in Request : orderId[s] \in Nat /\ icr \in Nat
        BY <1>0 DEF TypeOK
    <2>. QED
        BY <1>0, <1>1, <2>1 DEF OneBuyer, Buying
<1>5. Loaded'
    <2>1. ASSUME NEW v \in Voucher PROVE stock'[v] = Absent <=> stock[v] = Absent
        <3>1. CASE stock[v] \in Int /\ stock'[v] \in {stock[v] - 1, stock[v] + 1}
            <4>1. stock'[v] \in Int
                BY <3>1
            <4>. QED
                BY <3>1, <4>1
        <3>. QED
            BY <1>1, <3>1
    <2>. QED
        BY <1>0, <1>1, <2>1 DEF Loaded
<1>6. Finite'
    BY <1>0, <1>1 DEF Finite, ClaimsOn
<1>7. ASSUME NEW v \in Voucher PROVE OffByResent(v)' /\ WonWithin(v)'
    <2>1. /\ WonOn(v)' = WonOn(v) /\ Units(v)' = Units(v) /\ Units(v) \in Nat
          /\ Cardinality(WonOn(v)) \in Nat
        BY <1>0, <1>1, WonAreClaims, FS_Subset, FS_CardinalityType
        DEF WonOn, Units, TypeOK, Finite
    <2>. QED
        BY <1>0, <1>1, <2>1, DriftResend DEF WonWithin
<1>8. DroppedIsSoldOut'
    <2>1. icr \in Nat
        BY <1>0 DEF TypeOK
    <2>. QED
        BY <1>0, <1>1, <2>1 DEF DroppedIsSoldOut, LetDown, Event
<1>. QED
    BY <1>2, <1>3, <1>4, <1>5, <1>6, <1>7, <1>8 DEF UnhurtInv, OffByResent, WonWithin

LEMMA UnhurtStep ==
    ASSUME UnhurtInv, FaultsTypeOK, ForgottenWereGiven, DbConservation, [FaultsNext]_allVars
    PROVE  UnhurtInv'
<1>1. CASE Unhurt'
    BY <1>1, UnhurtMoves, UnhurtNext, UnhurtResend
<1>2. CASE ~Unhurt'
    BY <1>2 DEF UnhurtInv
<1>. QED
    BY <1>1, <1>2

LEMMA UnhurtInit == FaultsInit => UnhurtInv
<1>. SUFFICES ASSUME FaultsInit PROVE UnhurtInv
    OBVIOUS
<1>1. IInv
    BY InvInit DEF FaultsInit
<1>2. /\ resent = 0 /\ dropped = {} /\ \A v \in Voucher : stock[v] = Absent
      /\ \A v \in Voucher : Units(v) \in Nat
    BY <1>1 DEF FaultsInit, Init, Units, IInv, TypeOK
<1>3. \A v \in Voucher : ClaimsOn(v) = {}
    BY <1>1, <1>2 DEF IInv, Conservation
<1>4. ASSUME NEW v \in Voucher PROVE Cardinality(WonOn(v)) <= Units(v) + resent
    <2>1. WonOn(v) = {}
        BY <1>3, WonAreClaims
    <2>. QED
        BY <1>2, <2>1, FS_EmptySet
<1>5. DroppedIsSoldOut
    BY <1>2 DEF DroppedIsSoldOut, LetDown
<1>. QED
    BY <1>1, <1>2, <1>3, <1>4, <1>5 DEF UnhurtInv, IInv

\* The requests let down and those with an order hold winning claims, each its own.
LEMMA LetDownBounded ==
    ASSUME FaultsInv, Unhurt, NEW v \in Voucher
    PROVE  Cardinality(LetDown(v)) <= resent
<1>0. /\ FaultsTypeOK /\ OnlyRequestsSell /\ DbConservation /\ RowsOfOffers
      /\ TypeOK /\ Phases /\ Finite /\ DroppedIsSoldOut /\ resent \in Nat
      /\ Cardinality(WonOn(v)) <= Units(v) + resent
    BY DEF FaultsInv, UnhurtInv, FaultsTypeOK
<1>. DEFINE W == WonOn(v)
            L == LetDown(v)
            B == {r \in W : Event(r) \in orders}
            f == [o \in OrdersOf(v) |-> CHOOSE r \in B : o = Event(r)]
<1>1. IsFiniteSet(W) /\ L \subseteq W /\ B \subseteq W
    BY <1>0, FS_Subset, WonAreClaims DEF Finite, LetDown, WonOn, Phases, PhaseOf
<1>2. /\ IsFiniteSet(L) /\ IsFiniteSet(B) /\ IsFiniteSet(L \cup B)
      /\ Cardinality(W) \in Nat /\ Cardinality(L) \in Nat /\ Cardinality(B) \in Nat
      /\ Cardinality(L \cup B) <= Cardinality(W)
    <2>1. L \cup B \subseteq W
        BY <1>1
    <2>. HIDE DEF W, L, B
    <2>. QED
        BY <1>1, <2>1, FS_Subset, FS_CardinalityType
<1>3. L \cap B = {}
    BY <1>0 DEF DroppedIsSoldOut
<1>4. Cardinality(L \cup B) = Cardinality(L) + Cardinality(B)
    <2>. HIDE DEF W, L, B
    <2>1. Cardinality(L \cup B) = Cardinality(L) + Cardinality(B) - Cardinality(L \cap B)
        BY <1>2, FS_Union
    <2>2. Cardinality(L \cap B) = 0
        BY <1>3, FS_EmptySet
    <2>3. Cardinality(L) \in Nat /\ Cardinality(B) \in Nat
        BY <1>2
    <2>. QED
        BY <2>1, <2>2, <2>3
<1>5. ASSUME NEW o \in OrdersOf(v) PROVE f[o] \in B /\ o = Event(f[o])
    <2>1. o \in orders /\ o # Malformed /\ o.voucher = v
        BY <1>0 DEF OrdersOf, FaultsTypeOK
    <2>2. PICK r \in Request : orderId[r] # 0 /\ o = Event(r)
        BY <1>0, <2>1 DEF OnlyRequestsSell
    <2>3. r \in B
        BY <1>0, <2>1, <2>2 DEF WonOn, Event, Phases, PhaseOf
    <2>. HIDE DEF B
    <2>. QED
        BY <2>2, <2>3
<1>6. Cardinality(OrdersOf(v)) <= Cardinality(B)
    <2>1. f \in Injection(OrdersOf(v), B)
        <3>. HIDE DEF B
        <3>. QED
            BY <1>5 DEF Injection, IsInjective
    <2>. HIDE DEF f, B
    <2>. QED
        BY <1>2, <2>1, FS_Injection
<1>7. CASE L = {}
    BY <1>0, <1>7, FS_EmptySet
<1>8. CASE L # {}
    <2>1. dbStock[v] = 0 /\ dbStock[v] # Absent
        BY <1>0, <1>8 DEF DroppedIsSoldOut
    <2>2. /\ offered[v] # Absent /\ offered[v] \in Nat
          /\ dbStock[v] + Cardinality(OrdersOf(v)) = offered[v]
        BY <1>0, <2>1 DEF DbConservation, RowsOfOffers, TypeOK
    <2>3. Cardinality(OrdersOf(v)) \in Nat
        BY <1>0, FS_Subset, FS_CardinalityType DEF Finite, OrdersOf
    <2>4. Units(v) = Cardinality(OrdersOf(v))
        BY <2>1, <2>2, <2>3 DEF Units
    <2>. HIDE DEF W, L, B, f
    <2>5. Cardinality(W) <= Units(v) + resent
        BY <1>0 DEF W
    <2>6. Cardinality(L) <= resent
        BY <1>0, <1>2, <1>4, <1>6, <2>3, <2>4, <2>5
    <2>. QED
        BY <2>6 DEF L
<1>. QED
    BY <1>7, <1>8

----------------------------------------------------------------------------
(* The theorems *)

LEMMA FaultsInvInit == FaultsInit => FaultsInv
<1>. SUFFICES ASSUME FaultsInit PROVE FaultsInv
    OBVIOUS
<1>1. FaultsTypeOK
    BY FaultsInitTyped
<1>2. IdsAreDrawnOnce /\ ForgottenWereGiven
    BY DEF FaultsInit, Init, IdsAreDrawnOnce, ForgottenWereGiven
<1>3. OnlyRequestsSell /\ OneRowPerId /\ PassedIsSettled
    BY DEF FaultsInit, Init, OnlyRequestsSell, OneRowPerId, Records, PassedIsSettled
<1>4. RowsOfOffers
    BY DEF FaultsInit, Init, RowsOfOffers
<1>5. DbConservation
    <2>1. \A v \in Voucher : OrdersOf(v) = {}
        BY DEF FaultsInit, Init, OrdersOf
    <2>2. \A v \in Voucher : dbStock[v] = Absent \/ dbStock[v] \in Nat
        BY DEF FaultsInit, Init
    <2>3. offered = dbStock
        BY DEF FaultsInit, Init
    <2>. QED
        BY <2>1, <2>2, <2>3, FS_EmptySet DEF DbConservation
<1>. QED
    BY <1>1, <1>2, <1>3, <1>4, <1>5, UnhurtInit DEF FaultsInv

\* FaultsInv holds however often Redis forgets, a command is repeated or a record
\* does not decode, for any number of vouchers, requests and faults.
THEOREM FaultsInvariance == FaultsSpec => []FaultsInv
<1>1. FaultsInv /\ [FaultsNext]_allVars => FaultsInv'
    BY FaultsTypeStep, IdsDrawnStep, ForgottenStep, OnlyRequestsSellStep, OneRowPerIdStep,
       RowsOfOffersStep, RowsConservedStep, PassedIsSettledStep, UnhurtStep DEF FaultsInv
<1>. QED
    BY <1>1, FaultsInvInit, PTL DEF FaultsSpec

\* The consumer's UPDATE alone keeps MySQL from selling more than there is, when
\* Redis has let through any number of buyers.
THEOREM RedisMayForget == FaultsSpec => []SoldWithinUnits
<1>1. FaultsInv => SoldWithinUnits
    <2>. SUFFICES ASSUME FaultsInv, NEW v \in Voucher
                  PROVE  /\ dbStock[v] # Absent => dbStock[v] >= 0
                         /\ Cardinality(OrdersOf(v)) <= Units(v)
        BY DEF SoldWithinUnits
    <2>1. FaultsTypeOK /\ RowsOfOffers /\ DbConservation
        BY DEF FaultsInv
    <2>2. IsFiniteSet(OrdersOf(v)) /\ Cardinality(OrdersOf(v)) \in Nat
        BY <2>1, FS_Subset, FS_CardinalityType DEF FaultsTypeOK, OrdersOf
    <2>3. CASE dbStock[v] = Absent
        <3>1. OrdersOf(v) = {} /\ Units(v) = 0
            BY <2>1, <2>3 DEF DbConservation, RowsOfOffers, Units
        <3>. QED
            BY <2>3, <3>1, FS_EmptySet
    <2>4. CASE dbStock[v] # Absent
        <3>1. dbStock[v] \in Nat /\ offered[v] \in Nat /\ offered[v] # Absent
            BY <2>1, <2>4 DEF FaultsTypeOK, RowsOfOffers
        <3>2. dbStock[v] + Cardinality(OrdersOf(v)) = offered[v]
            BY <2>1, <2>4 DEF DbConservation
        <3>. QED
            BY <2>2, <3>1, <3>2 DEF Units
    <2>. QED
        BY <2>3, <2>4
<1>. QED
    BY <1>1, FaultsInvariance, PTL

\* An order in MySQL is exactly what some request was answered with, alone with its
\* id in the table, and no two requests are answered with one id but for those that
\* Redis gives again after forgetting it.
THEOREM OrdersAreGenuine == FaultsSpec => []StoredWasSold
<1>1. FaultsInv => StoredWasSold
    <2>. SUFFICES ASSUME FaultsInv PROVE StoredWasSold
        OBVIOUS
    <2>1. \A o \in orders : \E r \in Request : orderId[r] # 0 /\ o = Event(r)
        BY DEF FaultsInv, FaultsTypeOK, OnlyRequestsSell
    <2>2. \A r, s \in Request :
             orderId[r] = orderId[s] /\ orderId[r] # 0 => r = s \/ orderId[r] \in again
        BY DEF FaultsInv, IdsAreDrawnOnce
    <2>3. \A o, p \in orders : o.id = p.id => o = p
        BY DEF FaultsInv, OneRowPerId
    <2>. QED
        BY <2>1, <2>2, <2>3 DEF StoredWasSold
<1>. QED
    BY <1>1, FaultsInvariance, PTL

\* No committed offset goes past a record that was neither stored, dead-lettered
\* nor logged, except one whose id Redis gave twice and that was taken for the order
\* of that id; and none goes past a record that does not decode.
THEOREM NothingPassedOver == FaultsSpec => []SettledOrWaiting
<1>1. FaultsInv => SettledOrWaiting
    <2>. SUFFICES ASSUME FaultsInv, NEW k \in 1 .. committed
                  PROVE  /\ log[k] # Malformed
                         /\ \/ log[k] \in orders \cup dlt \/ log[k].id \in dropped
                            \/ Mistaken(log[k])
        BY DEF SettledOrWaiting
    <2>1. k \in 1 .. position
        BY DEF FaultsInv, FaultsTypeOK
    <2>. QED
        BY <2>1 DEF FaultsInv, PassedIsSettled
<1>. QED
    BY <1>1, FaultsInvariance, PTL

\* As long as Redis forgets nothing, the commands that Lettuce repeats are all that can
\* go wrong with its counter, and each costs one unit or one order at the most, in
\* however many requests, crashes and preloads it happens.
THEOREM RepeatsCostOneEach == FaultsSpec => []ResendsCostOneEach
<1>1. FaultsInv => ResendsCostOneEach
    BY LetDownBounded DEF FaultsInv, UnhurtInv, ResendsCostOneEach
<1>. QED
    BY <1>1, FaultsInvariance, PTL
=============================================================================
