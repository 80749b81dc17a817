--------------------------- MODULE RedisIdWorker ---------------------------
(***************************************************************************)
(* RedisIdWorker.nextId: a 64-bit id made of the seconds since 2022-01-01  *)
(* and of a Redis counter that has one key per calendar day.               *)
(*                                                                         *)
(* The call reads the clock once and uses that reading for the high bits   *)
(* and for the day of the key.  It is LocalDateTime.now(), read as if it   *)
(* were UTC, so it goes back when the clock is set back or summer time     *)
(* ends; between the reading and the INCR any time may pass.  The clock is *)
(* therefore left to change arbitrarily here.                              *)
(***************************************************************************)
EXTENDS Integers, Sequences

CONSTANTS
    Thread,     \* the HTTP threads that call nextId
    LastSecond, \* bound on the clock, in seconds since BEGIN_TIMESTAMP
    DayLength,  \* 86400
    CountLimit  \* 2^COUNT_BITS

ASSUME LengthAssumption ==
    LastSecond \in Nat /\ DayLength \in Nat \ {0} /\ CountLimit \in Nat \ {0}

VARIABLES
    clock,      \* toEpochSecond - BEGIN_TIMESTAMP, as the next reading finds it
    counter,    \* counter[d]: the Redis key icr:<prefix>:<day d>, missing as 0
    pc,         \* where a thread is
    timestamp,  \* the local `timestamp` of a thread
    issued      \* history: the timestamp and the count of each id, in INCR order

vars == <<clock, counter, pc, timestamp, issued>>

Second == 0 .. LastSecond

\* The date of a reading: BEGIN_TIMESTAMP is a midnight.
DayOf(s) == s \div DayLength

Day == {DayOf(s) : s \in Second}

\* timestamp << COUNT_BITS | count, for a count that fits in COUNT_BITS.
IdOf(i) == i.timestamp * CountLimit + i.count

\* now, nowSecond and timestamp.
ReadClock(t) ==
    /\ pc[t] = "idle"
    /\ timestamp' = [timestamp EXCEPT ![t] = clock]
    /\ pc' = [pc EXCEPT ![t] = "increment"]
    /\ UNCHANGED <<clock, counter, issued>>

\* Mutant of Increment: the date is read from the clock once more.
IncrementReadsClock(t) ==
    LET day == DayOf(clock)
        count == counter[day] + 1
    IN  /\ pc[t] = "increment"
        /\ count < CountLimit
        /\ counter' = [counter EXCEPT ![day] = count]
        /\ issued' = Append(issued, [timestamp |-> timestamp[t], count |-> count])
        /\ pc' = [pc EXCEPT ![t] = "idle"]
        /\ UNCHANGED <<clock, timestamp>>

\* Mutant of Increment: GET instead of INCR.
IncrementReads(t) ==
    LET count == counter[DayOf(timestamp[t])] + 1
    IN  /\ pc[t] = "increment"
        /\ count < CountLimit
        /\ Len(issued) < CountLimit
        /\ issued' = Append(issued, [timestamp |-> timestamp[t], count |-> count])
        /\ pc' = [pc EXCEPT ![t] = "idle"]
        /\ UNCHANGED <<clock, counter, timestamp>>

\* INCR of the key of the day that was read, and the id that is returned.
\* Bound: a day has fewer than CountLimit orders.
Increment(t) ==
    LET day == DayOf(timestamp[t])
        count == counter[day] + 1
    IN  /\ pc[t] = "increment"
        /\ count < CountLimit
        /\ counter' = [counter EXCEPT ![day] = count]
        /\ issued' = Append(issued, [timestamp |-> timestamp[t], count |-> count])
        /\ pc' = [pc EXCEPT ![t] = "idle"]
        /\ UNCHANGED <<clock, timestamp>>

\* Time passes, or the clock is set: forwards or back.
SetClock(s) ==
    /\ clock' = s
    /\ UNCHANGED <<counter, pc, timestamp, issued>>

Init ==
    /\ clock \in Second
    /\ counter = [d \in Day |-> 0]
    /\ pc = [t \in Thread |-> "idle"]
    /\ timestamp = [t \in Thread |-> 0]
    /\ issued = <<>>

Next ==
    \/ \E t \in Thread : ReadClock(t) \/ Increment(t)
    \/ \E s \in Second : SetClock(s)

Spec == Init /\ [][Next]_vars

----------------------------------------------------------------------------

Issue == [timestamp : Second, count : 1 .. (CountLimit - 1)]

\* Every variable keeps to its set.
TypeOK ==
    /\ clock \in Second
    /\ counter \in [Day -> Nat]
    /\ pc \in [Thread -> {"idle", "increment"}]
    /\ timestamp \in [Thread -> Second]
    /\ issued \in Seq(Issue)

\* Two calls never return the same order id, on whatever threads, days and
\* clock: the id is the primary key of tb_voucher_order and all the idempotency
\* check of the consumer has to go by.
UniqueIds ==
    \A i, j \in 1 .. Len(issued) : IdOf(issued[i]) = IdOf(issued[j]) => i = j

\* The calls that have returned, by their order; to its callers nextId is an IdSource.
Answers == {[call |-> i, id |-> IdOf(issued[i])] : i \in 1 .. Len(issued)}

Ids == INSTANCE IdSource WITH answers <- Answers

\* However calls interleave, across midnight and with the clock set back, every INCR
\* that returns draws an id that is new, and nothing else changes what was drawn.
ImplementsIdSource == Ids!Spec

\* Why: the count of an id is at most its day's counter, and no two ids of a
\* day have the same count.
CountsDiffer ==
    /\ \A i \in 1 .. Len(issued) : issued[i].count <= counter[DayOf(issued[i].timestamp)]
    /\ \A i, j \in 1 .. Len(issued) :
          /\ DayOf(issued[i].timestamp) = DayOf(issued[j].timestamp)
          /\ issued[i].count = issued[j].count
          => i = j

IInv == TypeOK /\ CountsDiffer
=============================================================================
