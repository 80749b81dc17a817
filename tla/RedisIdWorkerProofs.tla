------------------------ MODULE RedisIdWorkerProofs ------------------------
(***************************************************************************)
(* Machine-checked proof that RedisIdWorker never returns an id twice, for *)
(* every number of threads, every clock and every length of the two parts. *)
(***************************************************************************)
EXTENDS RedisIdWorker, TLAPS

USE LengthAssumption

LEMMA DayTyped == \A s \in Second : DayOf(s) \in Day
BY DEF Day

\* The two parts of an id can be read off it.
LEMMA PartsOfId ==
    ASSUME NEW i \in Issue, NEW j \in Issue, IdOf(i) = IdOf(j)
    PROVE  i = j
<1>. DEFINE L == CountLimit
<1>1. /\ i.timestamp \in Nat /\ i.count \in Nat /\ i.count < L
      /\ j.timestamp \in Nat /\ j.count \in Nat /\ j.count < L
    BY DEF Issue, Second
<1>2. ASSUME NEW a \in Nat, NEW b \in Nat, NEW c \in Nat, NEW d \in Nat,
             c < L, a < b
      PROVE  a * L + c # b * L + d
    <2>1. PICK k \in Nat : b = a + 1 + k
        <3>1. b - a - 1 \in Nat /\ b = a + 1 + (b - a - 1)
            BY <1>2
        <3>. QED
            BY <3>1
    <2>2. b * L = a * L + L + k * L
        BY <2>1
    <2>3. k * L \in Nat /\ a * L \in Nat
        BY <2>1
    <2>. QED
        BY <1>2, <2>2, <2>3
<1>3. i.timestamp * L + i.count = j.timestamp * L + j.count
    BY DEF IdOf
<1>4. i.timestamp = j.timestamp
    <2>1. ~(i.timestamp < j.timestamp)
        BY <1>1, <1>2, <1>3
    <2>2. ~(j.timestamp < i.timestamp)
        BY <1>1, <1>2, <1>3
    <2>. QED
        BY <1>1, <2>1, <2>2
<1>5. i.count = j.count
    <2>1. ASSUME NEW p \in Nat, NEW c \in Nat, NEW d \in Nat, p + c = p + d PROVE c = d
        BY <2>1
    <2>2. i.timestamp * L \in Nat
        BY <1>1
    <2>3. i.timestamp * L + i.count = i.timestamp * L + j.count
        BY <1>3, <1>4
    <2>. QED
        BY <1>1, <2>1, <2>2, <2>3
<1>. QED
    BY <1>4, <1>5 DEF Issue

LEMMA InvInit == Init => IInv
<1>. SUFFICES ASSUME Init PROVE IInv
    OBVIOUS
<1>1. TypeOK
    BY DEF Init, TypeOK, Second
<1>2. Len(issued) = 0
    BY DEF Init
<1>. QED
    BY <1>1, <1>2 DEF IInv, CountsDiffer

LEMMA IncrementStep ==
    ASSUME IInv, NEW t \in Thread, Increment(t)
    PROVE  IInv'
<1>. DEFINE day   == DayOf(timestamp[t])
            count == counter[day] + 1
            new   == [timestamp |-> timestamp[t], count |-> count]
            n     == Len(issued)
<1>0. /\ counter \in [Day -> Nat] /\ timestamp \in [Thread -> Second]
      /\ issued \in Seq(Issue) /\ n \in Nat
    BY DEF IInv, TypeOK
<1>1. day \in Day /\ counter[day] \in Nat /\ count \in Nat
    BY <1>0, DayTyped
<1>2. /\ counter' = [counter EXCEPT ![day] = count] /\ count < CountLimit
      /\ issued' = Append(issued, new) /\ UNCHANGED <<clock, timestamp>>
      /\ pc' = [pc EXCEPT ![t] = "idle"]
    BY DEF Increment
<1>3. new \in Issue
    BY <1>0, <1>1, <1>2 DEF Issue
<1>4. TypeOK'
    BY <1>0, <1>1, <1>2, <1>3 DEF IInv, TypeOK
<1>5. /\ Len(issued') = n + 1 /\ issued'[n + 1] = new
      /\ \A i \in 1 .. n : issued'[i] = issued[i] /\ issued[i] \in Issue
    BY <1>0, <1>2, <1>3
<1>6. /\ counter'[day] = count /\ count > counter[day]
      /\ \A d \in Day : counter[d] \in Nat /\ counter'[d] >= counter[d]
    BY <1>0, <1>1, <1>2
<1>7. ASSUME NEW i \in 1 .. n
      PROVE  /\ issued[i].count \in Nat
             /\ issued[i].count <= counter[DayOf(issued[i].timestamp)]
             /\ DayOf(issued[i].timestamp) \in Day
    BY <1>5, DayTyped DEF IInv, CountsDiffer, Issue
<1>8. \A i \in 1 .. n + 1 : i \in 1 .. n \/ i = n + 1
    BY <1>0
<1>9. \A i \in 1 .. n + 1 : issued'[i].count <= counter'[DayOf(issued'[i].timestamp)]
    <2>1. ASSUME NEW i \in 1 .. n
          PROVE  issued'[i].count <= counter'[DayOf(issued'[i].timestamp)]
        <3>1. issued'[i] = issued[i] /\ DayOf(issued[i].timestamp) \in Day
            BY <1>5, <1>7
        <3>2. /\ issued[i].count \in Nat
              /\ issued[i].count <= counter[DayOf(issued[i].timestamp)]
            BY <1>7
        <3>3. /\ counter[DayOf(issued[i].timestamp)] \in Nat
              /\ counter'[DayOf(issued[i].timestamp)] \in Nat
              /\ counter[DayOf(issued[i].timestamp)] <= counter'[DayOf(issued[i].timestamp)]
            BY <1>4, <1>6, <3>1 DEF TypeOK
        <3>. QED
            BY <3>1, <3>2, <3>3
    <2>2. new.count <= counter'[DayOf(new.timestamp)]
        BY <1>1, <1>6
    <2>. QED
        BY <1>5, <1>8, <2>1, <2>2
<1>10. ASSUME NEW i \in 1 .. n + 1, NEW j \in 1 .. n + 1,
              DayOf(issued'[i].timestamp) = DayOf(issued'[j].timestamp),
              issued'[i].count = issued'[j].count
       PROVE  i = j
    <2>1. ASSUME NEW k \in 1 .. n, DayOf(issued[k].timestamp) = day PROVE issued[k].count # count
        BY <1>1, <1>6, <1>7, <2>1
    <2>2. CASE i \in 1 .. n /\ j \in 1 .. n
        BY <1>5, <1>10, <2>2 DEF IInv, CountsDiffer
    <2>3. CASE i \in 1 .. n /\ j = n + 1
        BY <1>5, <1>10, <2>1, <2>3
    <2>4. CASE i = n + 1 /\ j \in 1 .. n
        BY <1>5, <1>10, <2>1, <2>4
    <2>. QED
        BY <1>8, <1>10, <2>2, <2>3, <2>4
<1>. QED
    BY <1>4, <1>5, <1>9, <1>10 DEF IInv, CountsDiffer

LEMMA InvStep == IInv /\ [Next]_vars => IInv'
<1>. SUFFICES ASSUME IInv, [Next]_vars PROVE IInv'
    OBVIOUS
<1>1. ASSUME NEW t \in Thread, ReadClock(t) PROVE IInv'
    BY <1>1 DEF ReadClock, IInv, TypeOK, CountsDiffer
<1>2. ASSUME NEW t \in Thread, Increment(t) PROVE IInv'
    BY <1>2, IncrementStep
<1>3. ASSUME NEW s \in Second, SetClock(s) PROVE IInv'
    BY <1>3 DEF SetClock, IInv, TypeOK, CountsDiffer
<1>4. CASE UNCHANGED vars
    BY <1>4 DEF vars, IInv, TypeOK, CountsDiffer
<1>. QED
    BY <1>1, <1>2, <1>3, <1>4 DEF Next

\* nextId never returns an id twice, whatever the clock does, while a day has
\* fewer than CountLimit calls and Redis keeps its counters.
THEOREM Uniqueness == Spec => []UniqueIds
<1>1. IInv => UniqueIds
    <2>. SUFFICES ASSUME IInv, NEW i \in 1 .. Len(issued), NEW j \in 1 .. Len(issued),
                         IdOf(issued[i]) = IdOf(issued[j])
                  PROVE  i = j
        BY DEF UniqueIds
    <2>1. issued[i] \in Issue /\ issued[j] \in Issue
        BY DEF IInv, TypeOK
    <2>2. issued[i] = issued[j]
        BY <2>1, PartsOfId
    <2>. QED
        BY <2>2 DEF IInv, CountsDiffer
<1>. QED
    BY <1>1, InvInit, InvStep, PTL DEF Spec

\* A day's counter is ahead of every id of the day, and no two share a count.
THEOREM Invariance == Spec => []IInv
BY InvInit, InvStep, PTL DEF Spec

\* Seconds, counts and ids keep to the widths of their fields.
THEOREM Typing == Spec => []TypeOK
<1>1. IInv => TypeOK
    BY DEF IInv
<1>. QED
    BY <1>1, Invariance, PTL

----------------------------------------------------------------------------
(* nextId is an IdSource *)

\* An INCR that returns makes an id that was not there.
LEMMA IncrementDraws ==
    ASSUME IInv, NEW t \in Thread, Increment(t)
    PROVE  Ids!Draw
<1>. DEFINE day   == DayOf(timestamp[t])
            new   == [timestamp |-> timestamp[t], count |-> counter[day] + 1]
            n     == Len(issued)
<1>1. /\ counter \in [Day -> Nat] /\ timestamp \in [Thread -> Second]
      /\ issued \in Seq(Issue) /\ n \in Nat
    BY DEF IInv, TypeOK
<1>2. day \in Day /\ counter[day] \in Nat
    BY <1>1, DayTyped
<1>3. issued' = Append(issued, new) /\ new \in Issue
    BY <1>1, <1>2 DEF Increment, Issue
<1>4. /\ Len(issued') = n + 1 /\ issued'[n + 1] = new
      /\ \A i \in 1 .. n : issued'[i] = issued[i] /\ issued[i] \in Issue
    BY <1>1, <1>3
<1>5. IdOf(new) \notin Ids!Drawn /\ n + 1 \notin Ids!Calls
    <2>. SUFFICES ASSUME NEW i \in 1 .. n, IdOf(issued[i]) = IdOf(new) PROVE FALSE
        BY <1>1 DEF Answers, Ids!Drawn, Ids!Calls
    <2>1. issued[i] = new
        BY <1>3, <1>4, PartsOfId
    <2>2. issued[i].count <= counter[DayOf(issued[i].timestamp)]
        BY DEF IInv, CountsDiffer
    <2>. QED
        BY <1>2, <2>1, <2>2
<1>6. Answers' = Answers \cup {[call |-> n + 1, id |-> IdOf(new)]}
    <2>1. \A i : i \in 1 .. n + 1 <=> i \in 1 .. n \/ i = n + 1
        BY <1>1
    <2>. QED
        BY <1>4, <2>1 DEF Answers, IdOf
<1>. QED
    BY <1>5, <1>6 DEF Ids!Draw

\* Whatever the clock does and however calls interleave, nextId draws ids as IdSource
\* does; the pipeline, which keeps only the counter, is shown to ask no more.
THEOREM DrawsNewIds == Spec => ImplementsIdSource
<1>1. Init => Ids!Init
    BY DEF Init, Ids!Init, Answers
<1>2. IInv /\ [Next]_vars => [Ids!Draw]_Answers
    <2>. SUFFICES ASSUME IInv, [Next]_vars PROVE [Ids!Draw]_Answers
        OBVIOUS
    <2>1. issued' = issued \/ \E t \in Thread : Increment(t)
        BY DEF Next, vars, ReadClock, SetClock
    <2>2. CASE issued' = issued
        BY <2>2 DEF Answers, IdOf
    <2>. QED
        BY <2>1, <2>2, IncrementDraws
<1>. QED
    BY <1>1, <1>2, Invariance, PTL DEF Spec, ImplementsIdSource, Ids!Spec
=============================================================================
