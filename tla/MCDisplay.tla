--------------------------- MODULE MCDisplay ---------------------------
(* The small instances of Display that TLC checks. *)
EXTENDS Display, TLC
======================================================================
