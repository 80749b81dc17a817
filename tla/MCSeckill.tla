----------------------------- MODULE MCSeckill -----------------------------
(* Small instances of Seckill for TLC. *)
EXTENDS Seckill, TLC

CONSTANTS u1, u2, v1

Call(u, v, n) == [user |-> u, voucher |-> v, call |-> n]

\* u1 asks twice for a voucher that u2 asks for too.
MCRequest == {Call(u1, v1, 1), Call(u1, v1, 2), Call(u2, v1, 1)}
=============================================================================
