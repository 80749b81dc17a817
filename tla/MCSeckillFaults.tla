-------------------------- MODULE MCSeckillFaults --------------------------
(* A small instance of SeckillFaults for TLC. *)
EXTENDS SeckillFaults, TLC

CONSTANTS u1, u2, v1

\* Two users ask for one voucher.
MCRequest == {[user |-> u1, voucher |-> v1], [user |-> u2, voucher |-> v1]}
=============================================================================
