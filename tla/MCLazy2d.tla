---------------------------- MODULE MCLazy2d ----------------------------
(* The small instances of Lazy2d that TLC checks. *)
EXTENDS Lazy2d, TLC

CONSTANTS b1, b2

BankSymmetry == Permutations(Banks)
======================================================================
