------------------------------ MODULE MCFrontEnd -----------------------------
(* A small instance of FrontEnd, and with it of Account, for TLC: one tab in *)
(* each of two browsers.                                                     *)
EXTENDS FrontEnd, TLC

OneEach == [tab \in Tab |-> tab]

Symmetry == Permutations(Phone) \cup Permutations(Thread) \cup Permutations(Code)
                \cup Permutations(Tab)
=============================================================================
