----------------------------- MODULE FlashSale -----------------------------
(***************************************************************************)
(* What the seckill pipeline promises, with nothing of how it does it: a   *)
(* voucher is offered once with some number of units, each unit is granted *)
(* to one user, a user is granted a voucher at most once, and only a grant *)
(* is ever fulfilled by an order, at most once.                            *)
(***************************************************************************)
EXTENDS Integers, FiniteSets

CONSTANTS User, Voucher, Quantity, Absent

VARIABLES
    offered,    \* the units each voucher was offered with, or Absent
    granted,    \* the users who hold a unit of each voucher
    fulfilled   \* the users whose order of each voucher is stored

vars == <<offered, granted, fulfilled>>

Init ==
    /\ offered \in [Voucher -> Quantity \cup {Absent}]
    /\ granted = [v \in Voucher |-> {}]
    /\ fulfilled = [v \in Voucher |-> {}]

Offer(v, q) ==
    /\ offered[v] = Absent
    /\ offered' = [offered EXCEPT ![v] = q]
    /\ UNCHANGED <<granted, fulfilled>>

Grant(u, v) ==
    /\ offered[v] # Absent
    /\ u \notin granted[v]
    /\ Cardinality(granted[v]) < offered[v]
    /\ granted' = [granted EXCEPT ![v] = @ \cup {u}]
    /\ UNCHANGED <<offered, fulfilled>>

Fulfil(u, v) ==
    /\ u \in granted[v] \ fulfilled[v]
    /\ fulfilled' = [fulfilled EXCEPT ![v] = @ \cup {u}]
    /\ UNCHANGED <<offered, granted>>

Next ==
    \E v \in Voucher :
        \/ \E q \in Quantity : Offer(v, q)
        \/ \E u \in User : Grant(u, v) \/ Fulfil(u, v)

Spec == Init /\ [][Next]_vars
=============================================================================
