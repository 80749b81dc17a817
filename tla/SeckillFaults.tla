--------------------------- MODULE SeckillFaults ---------------------------
(***************************************************************************)
(* The pipeline of Seckill with three things that happen around it:        *)
(*                                                                         *)
(*   - Redis (redis:7-alpine with its default RDB snapshots and no append- *)
(*     only file) dies and comes back with what its last snapshot held,    *)
(*     the counter of order ids included;                                  *)
(*   - Lettuce, which puts a command back into its queue when a connection *)
(*     is lost, sends again what Redis has already carried out;            *)
(*   - a record that JsonDeserializer cannot decode is in the topic.       *)
(*                                                                         *)
(* An id is a second and a count.  A count that comes again makes an old   *)
(* id only if the clock was read in the old second: before Redis died, the *)
(* INCR being carried across by Lettuce, or after, Redis being back within *)
(* the second.  The model has no clock, so any later call may be in it.    *)
(* As in Seckill an id is a number; icr is how many there have been.       *)
(***************************************************************************)
EXTENDS Seckill

CONSTANTS
    Malformed,      \* a record value that is not an OrderCreatedEvent
    MaxOfEach,      \* bound on each of the three faults below
    MaxFaults       \* bound on all of them together

ASSUME MalformedAssumption == Malformed \notin OrderEvent
ASSUME FaultBoundsAssumption == MaxOfEach \in Nat /\ MaxFaults \in Nat

VARIABLES
    saved,          \* the last RDB snapshot: what Redis held at that moment
    forgotten,      \* the ids whose counts Redis has given and no longer knows of
    again,          \* history: the ids it has given again
    losses,         \* number of Redis crashes so far
    malformed,      \* number of malformed records written so far
    resent          \* number of commands sent again so far

faultVars == <<saved, forgotten, again, losses, malformed, resent>>

allVars == <<vars, faultVars>>

----------------------------------------------------------------------------
(* Redis *)

\* One more of a fault that has happened n times is within the bounds.
MayHappen(n) == n < MaxOfEach /\ losses + malformed + resent < MaxFaults

\* BGSAVE, at a time of Redis' choosing.
Save ==
    /\ MayHappen(losses)
    /\ saved' = [stock |-> stock, bought |-> bought, icr |-> icr, forgotten |-> forgotten]
    /\ UNCHANGED <<vars, forgotten, again, losses, malformed, resent>>

\* Redis dies and docker restarts it (restart: unless-stopped).  Its clients
\* reconnect; nothing in the application notices.
RedisRestarts ==
    /\ MayHappen(losses)
    /\ losses' = losses + 1
    /\ stock' = saved.stock
    /\ bought' = saved.bought
    /\ forgotten' = saved.forgotten \cup (saved.icr + 1 .. icr)
    /\ UNCHANGED <<icr, requestVars, consumerVars, dbVars, processVars, kafkaVars>>
    /\ UNCHANGED <<saved, again, malformed, resent>>

\* NextId with a count that Redis has forgotten giving, in the second it gave it in.
NextIdAgain(r) ==
    /\ pc[r] = "nextId"
    /\ \E id \in forgotten :
          /\ forgotten' = forgotten \ {id}
          /\ again' = again \cup {id}
          /\ \/ /\ pc' = [pc EXCEPT ![r] = "send"]
                /\ orderId' = [orderId EXCEPT ![r] = id]
             \/ /\ "redis" \in Faults
                /\ pc' = [pc EXCEPT ![r] = "error"]
                /\ UNCHANGED orderId
    /\ UNCHANGED <<redisVars, claim, consumerVars, dbVars, processVars, kafkaVars>>
    /\ UNCHANGED <<saved, losses, malformed, resent>>

\* A command of r that Redis has carried out is sent again: its effect is there
\* already, the thread sees the answer to the second one.
Resend(r) ==
    /\ pc[r] \in Running
    /\ MayHappen(resent)
    /\ resent' = resent + 1
    /\ \/ /\ pc[r] = "decr"
          /\ stock' = [stock EXCEPT ![r.voucher] = Counter(r.voucher) - 1]
          /\ UNCHANGED <<bought, icr>>
       \/ /\ pc[r] \in {"undoOver", "undoDup"}
          /\ stock' = [stock EXCEPT ![r.voucher] = Counter(r.voucher) + 1]
          /\ UNCHANGED <<bought, icr>>
       \/ /\ pc[r] = "sadd"
          /\ bought' = [bought EXCEPT ![r.voucher] = @ \cup {r.user}]
          /\ UNCHANGED <<stock, icr>>
       \/ /\ pc[r] = "nextId"
          /\ icr' = icr + 1
          /\ UNCHANGED <<stock, bought>>
    /\ UNCHANGED <<requestVars, consumerVars, dbVars, processVars, kafkaVars>>
    /\ UNCHANGED <<saved, forgotten, again, losses, malformed>>

----------------------------------------------------------------------------
(* The topic and the consumer *)

\* Somebody writes a record that does not decode: a hand-written one, or one of
\* a release with another event class.
WriteMalformed ==
    /\ MayHappen(malformed)
    /\ malformed' = malformed + 1
    /\ log' = Append(log, Malformed)
    /\ UNCHANGED <<redisVars, requestVars, consumerVars, dbVars, processVars, pending, dlt>>
    /\ UNCHANGED <<saved, forgotten, again, losses, resent>>

\* The consumer is in front of a record that does not decode.
Stuck == position < Len(log) /\ Current = Malformed

\* Mutant of Poll: the records of a batch are decoded one by one in the listener,
\* and one that fails is logged and gone past.
PollSkipsMalformed ==
    \/ ~Stuck /\ Listener
    \/ /\ Alive /\ Stuck
       /\ Advance
       /\ UNCHANGED <<redisVars, requestVars, committed, dbVars, processVars, kafkaVars>>

\* poll() decodes: with JsonDeserializer configured directly, a malformed record
\* makes poll() itself throw.  DefaultErrorHandler refuses the exception, the
\* container logs it and polls again from the same position.
Poll == ~Stuck /\ Listener

----------------------------------------------------------------------------

FaultsInit ==
    /\ Init
    /\ saved = [stock |-> stock, bought |-> bought, icr |-> 0, forgotten |-> {}]
    /\ forgotten = {}
    /\ again = {}
    /\ losses = 0
    /\ malformed = 0
    /\ resent = 0

\* The steps of Seckill, with poll() in front of the listener.
PipelineStep ==
    \/ \E r \in Request : SeckillVoucher(r)
    \/ Producer
    \/ Poll
    \/ CommitOffset
    \/ \E v \in Voucher, q \in Quantity : AddSeckillVoucher(v, q)
    \/ Preload
    \/ Crash
    \/ Restart

FaultsNext ==
    \/ PipelineStep /\ UNCHANGED faultVars
    \/ Save
    \/ RedisRestarts
    \/ \E r \in Request : NextIdAgain(r) \/ Resend(r)
    \/ WriteMalformed

FaultsSpec == FaultsInit /\ [][FaultsNext]_allVars

\* As in Seckill; nobody is obliged to crash, resend or write a malformed record.
FaultsFairness ==
    /\ \A r \in Request : WF_allVars(pc[r] # "idle" /\ SeckillVoucher(r) /\ UNCHANGED faultVars)
    /\ WF_allVars(Producer /\ UNCHANGED faultVars)
    /\ WF_allVars(Poll /\ UNCHANGED faultVars)
    /\ WF_allVars(CommitOffset /\ UNCHANGED faultVars)
    /\ WF_allVars(Preload /\ UNCHANGED faultVars)
    /\ WF_allVars(Restart /\ UNCHANGED faultVars)

FairFaultsSpec == FaultsSpec /\ FaultsFairness

----------------------------------------------------------------------------
(* Properties *)

\* Whatever Redis forgets or counts twice, MySQL sells no more than there is: the
\* WHERE stock > 0 of the consumer is then all that stands between an order let
\* through by a stale counter and an oversold voucher.
SoldWithinUnits ==
    \A v \in Voucher :
        /\ dbStock[v] # Absent => dbStock[v] >= 0
        /\ Cardinality(OrdersOf(v)) <= Units(v)

\* Every stored order is the one its request was answered with.  Two requests are
\* answered with one id only if Redis forgot the first and came back in time to give
\* it again, never because INCR is repeated or its answer is lost; and no id is the
\* key of two rows.
StoredWasSold ==
    /\ \A o \in orders : \E r \in Request : orderId[r] # 0 /\ o = Event(r)
    /\ \A r, s \in Request :
          orderId[r] = orderId[s] /\ orderId[r] # 0 => r = s \/ orderId[r] \in again
    /\ \A o, p \in orders : o.id = p.id => o = p

\* The consumer has taken e for a redelivery of another order, which has an id that
\* Redis gave twice.
Mistaken(e) == e.id \in again /\ \E o \in orders : o.id = e.id

\* A record that decodes is not lost unnoticed, but in one case.  Each one below the
\* committed offset is an order, a dead letter or a drop logged as an error, or has an
\* id that Redis gave twice and another order has; and no malformed one is below it.
SettledOrWaiting ==
    \A k \in 1 .. committed :
        /\ log[k] # Malformed
        /\ log[k] \in orders \cup dlt \/ log[k].id \in dropped \/ Mistaken(log[k])

\* The consumer only ever stops for good in front of a malformed record: Redis
\* losses, repeated commands, failing transactions and crashes do not stop it.
DrainsToMalformed ==
    []<>(committed = Len(log) \/ log[committed + 1] = Malformed)

\* Redis has forgotten nothing and the topic holds events only: what may have
\* happened is failing calls, crashes and repeated commands.
Unhurt == losses = 0 /\ malformed = 0

\* The requests on v that have an id which the consumer has dropped, for want of stock.
LetDown(v) == {r \in Request : r.voucher = v /\ orderId[r] # 0 /\ orderId[r] \in dropped}

\* How far the Redis counter of v may be from what was offered less the claims.
Drifts(v) == stock[v] + Cardinality(ClaimsOn(v)) \in offered[v] - resent .. offered[v] + resent

\* A DECR or INCR that Lettuce repeats moves the counter once too often, and no
\* interleaving makes more of it: the counter is off by a unit for each command
\* repeated at the most, and so are the orders accepted that MySQL has no unit for.
ResendsCostOneEach ==
    Unhurt =>
        \A v \in Voucher :
            /\ stock[v] # Absent => Drifts(v)
            /\ Cardinality(LetDown(v)) <= resent

----------------------------------------------------------------------------
(* The inductive invariant behind the safety properties *)

FaultsTypeOK ==
    /\ stock \in [Voucher -> Int \cup {Absent}]
    /\ bought \in [Voucher -> SUBSET User]
    /\ saved \in [stock : [Voucher -> Int \cup {Absent}], bought : [Voucher -> SUBSET User],
                  icr : Nat, forgotten : SUBSET Nat]
    /\ icr \in Nat
    /\ pc \in [Request -> Phase]
    /\ orderId \in [Request -> Nat]
    /\ pending \in SUBSET OrderEvent
    /\ log \in Seq(OrderEvent \cup {Malformed})
    /\ position \in 0 .. Len(log)
    /\ committed \in 0 .. position
    /\ dbStock \in [Voucher -> Nat \cup {Absent}]
    /\ snapshot \in [Voucher -> Nat \cup {Absent}]
    /\ offered \in [Voucher -> Nat \cup {Absent}]
    /\ orders \in SUBSET OrderEvent
    /\ IsFiniteSet(orders)
    /\ forgotten \in SUBSET Nat /\ again \in SUBSET Nat
    /\ losses \in Nat /\ malformed \in Nat /\ resent \in Nat

\* An id is drawn when a request reaches its send, and is nobody else's unless it is
\* one that Redis gave again.
IdsAreDrawnOnce ==
    /\ \A r \in Request :
          pc[r] \in {"idle", "decr", "undoOver", "sadd", "undoDup", "nextId"} => orderId[r] = 0
    /\ \A r \in Request : pc[r] = "send" => orderId[r] # 0
    /\ \A r \in Request : orderId[r] <= icr
    /\ \A r, s \in Request :
          orderId[r] = orderId[s] /\ orderId[r] # 0 => r = s \/ orderId[r] \in again

\* Only ids that were given are forgotten, and none is while Redis keeps its data.
ForgottenWereGiven ==
    /\ forgotten \subseteq 1 .. icr /\ saved.forgotten \subseteq 1 .. icr
    /\ losses = 0 => forgotten = {}

\* No id is the key of two rows.
OneRowPerId == \A o, p \in orders : o.id = p.id => o = p

\* What is on its way or stored is the event of a request.
OnlyRequestsSell ==
    \A e \in (pending \cup Records \cup orders) \ {Malformed} :
        \E r \in Request : orderId[r] # 0 /\ e = Event(r)

PassedIsSettled ==
    \A k \in 1 .. position :
        /\ log[k] # Malformed
        /\ log[k] \in orders \cup dlt \/ log[k].id \in dropped \/ Mistaken(log[k])

RowsOfOffers == \A v \in Voucher : dbStock[v] = Absent <=> offered[v] = Absent

\* A drop is final: the row has no stock then, and never has again.
DroppedIsSoldOut ==
    /\ dropped \subseteq 1 .. icr
    /\ \A v \in Voucher : \A r \in LetDown(v) : dbStock[v] = 0 /\ Event(r) \notin orders

\* Redis until it forgets: threads, buyers and keys are as in Seckill, the counters
\* and the winning claims as there but for a unit per repeated command.
UnhurtInv ==
    Unhurt =>
        /\ TypeOK /\ Phases /\ OneBuyer /\ Loaded /\ EventsFromRequests /\ Finite
        /\ \A v \in Voucher : IF stock[v] = Absent THEN ClaimsOn(v) = {} ELSE Drifts(v)
        /\ \A v \in Voucher : Cardinality(WonOn(v)) <= Units(v) + resent
        /\ DroppedIsSoldOut

\* All of it: what the proofs carry from step to step.  Once Redis has forgotten
\* something, nothing is said of it beyond its types.
FaultsInv ==
    /\ FaultsTypeOK /\ IdsAreDrawnOnce /\ ForgottenWereGiven /\ OnlyRequestsSell
    /\ OneRowPerId /\ RowsOfOffers /\ DbConservation /\ PassedIsSettled /\ UnhurtInv

=============================================================================
